----------------------------- MODULE ServerLocks -----------------------------
(* The locks of all managers at once.  A call of the server is the sequence of *)
(* what it does to locks and to sockets; what it does to the data between is   *)
(* in the modules of the managers.  A lock is a mutex or an RCL: both have an  *)
(* owner (of the mutex, or of the RCL's entry_lock), an RCL has readers too.   *)
(* SIGHUP runs server_init in the middle of whatever a thread is doing         *)
(* (main.c:103), with the locks that the thread has.                           *)
(*                                                                             *)
(* Left out, because nothing is waited for while they are held: the lock of a  *)
(* connection, the mutex of a message queue, and log's.                        *)
EXTENDS Naturals, FiniteSets, Sequences, SequencesExt

CONSTANTS Helpers, Main, None,
          Signalled,   \* the threads that the system may deliver SIGHUP to
          Silent,      \* the helpers whose client no longer reads its socket
          Submitters,  \* the helpers whose client submits lists of accounts
          MaxHups      \* how often SIGHUP arrives

ASSUME ServerThreadsAssumption ==
    /\ IsFiniteSet(Helpers) /\ Main \notin Helpers /\ None \notin Helpers \cup {Main}
    /\ Signalled \subseteq Helpers \cup {Main} /\ Silent \subseteq Helpers
    /\ Submitters \subseteq Helpers
ASSUME BoundsAssumption == MaxHups \in Nat

ServerThreads == Helpers \cup {Main}
Mutexes == {"tm_mutex", "hlpasswd_lock", "tfm_lock", "tlock"}
RCLs == {"conf_rcl", "am_rcl", "cm_lock", "mlock", "bp_lock"}
Locks == Mutexes \cup RCLs

VARIABLES todo,     \* todo[t]: what thread t has left of the call it is in
          kept,     \* kept[t]: what it had left when SIGHUP interrupted it
          handling, \* the threads that are in the handler of SIGHUP
          owner,    \* owner[l]: who has mutex l, or has reserved RCL l, or None
          readers,  \* readers[l][t]: how many times thread t reads RCL l
          forgotten, \* the threads that have am_rcl and will not give it back
          hups      \* the SIGHUPs so far

locksVars == <<todo, kept, handling, owner, readers, forgotten, hups>>

-----------------------------------------------------------------------------
(* One step of a call.  Taking an RCL for writing is two: to reserve it, and   *)
(* to wait for its readers.                                                    *)

Op(kind, l) == [kind |-> kind, on |-> l]
Kinds == {"take", "drain", "give", "keep", "write", "read", "unread", "pass", "send", "poll"}
Ops == [kind : Kinds, on : Locks \cup {"client", "clients", "descriptors"}]

Within(l, calls) == <<Op("take", l)>> \o calls \o <<Op("give", l)>>
Reading(l, calls) == <<Op("read", l)>> \o calls \o <<Op("unread", l)>>

(* A section in which nothing is waited for: of a mutex or of a reader, and of *)
(* a writer.                                                                   *)
Passing(l) == <<Op("pass", l)>>
Writing(l) == <<Op("take", l), Op("write", l)>>

(* A call is the list of its sections.  One in which nothing is waited for and *)
(* that is entered without a lock is left out, with the answers that are sent  *)
(* without one: it waits for others, and nobody for it.                        *)

(* config_value and the like; cm_getval, cm_setval and the like.  Several in a *)
(* row are one here.                                                           *)
config_value == Passing("conf_rcl")
cm_access == Passing("cm_lock")

(* transaction_write: a reply takes its number from the request, any other     *)
(* transaction asks the connection manager for one (cm_get_taskno).  Then      *)
(* writev waits for room in the socket.                                        *)
reply == <<Op("send", "client")>>
notice == cm_access \o reply
notices == cm_access \o <<Op("send", "clients")>>
cm_transaction_broadcast == Reading("cm_lock", notices)

cm_add == Writing("cm_lock")
cm_remove == Writing("cm_lock")
multiplexer_change == Writing("mlock")
am_access == Passing("am_rcl")
am_change == Writing("am_rcl")

\* mutants: the list is read first, and the file opened with the list locked;
\* where the file cannot be opened, its lock is not given back
am_commit_inside == Reading("am_rcl", Passing("hlpasswd_lock"))
am_commit_unopened == <<Op("take", "hlpasswd_lock")>> \o config_value

(* hlpasswd_open asks for the file's name with the file locked. *)
am_commit == Within("hlpasswd_lock", config_value \o am_access)

(* queue_position_notify is reached with tfm_lock held when a slot is passed   *)
(* on: by a transfer that ends, a user who leaves, and the monitor.            *)
tfm_remove == Within("tfm_lock", notices)
tfm_purge_uid == tfm_remove
tfm_register == Within("tfm_lock", cm_access)
-----------------------------------------------------------------------------
(* The threads.  A helper is sent one message at a time.                       *)

(* The account is locked until its last transaction is written; the second     *)
(* notice is as the first.                                                     *)
txn_login == Reading("am_rcl", cm_access \o config_value \o reply \o notice)
txn_read_account == Reading("am_rcl", reply)

(* A change of accounts, or several in a row, which txn_admin_submit makes.    *)
txn_create_account == am_change \o am_commit

ht_control_disconnect == tfm_purge_uid \o cm_transaction_broadcast \o cm_remove \* txn_kick_user

ht_exec == {txn_login, txn_read_account, txn_create_account,
            cm_transaction_broadcast, tfm_register, tfm_remove, multiplexer_change,
            ht_control_disconnect}

(* In two cases process_user_entry does not give am_rcl back: where the entry  *)
(* names an account that does not exist (what is left is the answer), and      *)
(* where it changes an account but leaves out its name, which is deleted by a  *)
(* call that takes am_rcl itself.                                              *)
process_user_entry_unknown == <<Op("take", "am_rcl"), Op("keep", "am_rcl")>>
process_user_entry_unnamed == process_user_entry_unknown \o am_change
txn_admin_submit == {process_user_entry_unknown, process_user_entry_unnamed}

(* cm_user_count within tracker_broadcast.  The monitor and the tracker are    *)
(* threads of their own that do nothing else; a helper stands for them.        *)
tracker_main == Within("tlock", cm_access)
sequester_monitor_thread == tfm_remove

HelperCalls == ht_exec \cup {sequester_monitor_thread, tracker_main}

multiplexer_poll == Reading("mlock", <<Op("poll", "descriptors")>>)
ch_main == {multiplexer_poll, cm_add, multiplexer_change}

CallsOf(t) == IF t = Main THEN ch_main
              ELSE HelperCalls \cup (IF t \in Submitters THEN txn_admin_submit ELSE {})

(* server_init, with another address to listen at (or else ch_init leaves the  *)
(* multiplexer alone).                                                         *)
config_init == Writing("conf_rcl")
tm_init == Within("tm_mutex", config_value)
am_init == am_change \o Within("hlpasswd_lock", config_value \o am_change)
ch_init == multiplexer_change
f_init == Within("bp_lock", <<Op("drain", "bp_lock")>> \o config_value)
tfm_init == Within("tfm_lock", config_value \o notices)
tracker_init == Within("tlock", config_value)

server_init ==
    config_init \o tm_init \o am_init \o ch_init \o f_init \o tfm_init \o tracker_init
-----------------------------------------------------------------------------
LocksInit == /\ todo = [t \in ServerThreads |-> <<>>]
             /\ kept = [t \in ServerThreads |-> <<>>]
             /\ handling = {}
             /\ owner = [l \in Locks |-> None]
             /\ readers = [l \in RCLs |-> [t \in ServerThreads |-> 0]]
             /\ forgotten = {}
             /\ hups = 0

Begin(t) == /\ todo[t] = <<>> /\ t \notin handling
            /\ \E p \in CallsOf(t) : todo' = [todo EXCEPT ![t] = p]
            /\ UNCHANGED <<kept, handling, owner, readers, forgotten, hups>>

Does(t, kind) == todo[t] # <<>> /\ Head(todo[t]).kind = kind
On(t) == Head(todo[t]).on
Done(t) == todo' = [todo EXCEPT ![t] = Tail(@)]

Free(l) == owner[l] = None
Unread(l) == \A u \in ServerThreads : readers[l][u] = 0

(* A leaf section; a reserved RCL keeps every reader out. *)
Pass(t) == /\ Does(t, "pass") /\ Free(On(t))
           /\ Done(t)
           /\ UNCHANGED <<kept, handling, owner, readers, forgotten, hups>>

(* pthread_mutex_lock, rcl_write_reserve_lock *)
Take(t) == /\ Does(t, "take") /\ Free(On(t))
           /\ owner' = [owner EXCEPT ![On(t)] = t]
           /\ Done(t)
           /\ UNCHANGED <<kept, handling, readers, forgotten, hups>>

(* rcl_write_complete_lock *)
Drain(t) == /\ Does(t, "drain") /\ Unread(On(t))
            /\ Done(t)
            /\ UNCHANGED <<kept, handling, owner, readers, forgotten, hups>>

(* pthread_mutex_unlock, rcl_write_unlock *)
Give(t) == /\ Does(t, "give")
           /\ owner' = [owner EXCEPT ![On(t)] = None]
           /\ Done(t)
           /\ UNCHANGED <<kept, handling, readers, forgotten, hups>>

(* The rest of a leaf section of a writer. *)
Write(t) == /\ Does(t, "write") /\ Unread(On(t))
            /\ owner' = [owner EXCEPT ![On(t)] = None]
            /\ Done(t)
            /\ UNCHANGED <<kept, handling, readers, forgotten, hups>>

(* ... or the thread stays the owner: nothing gives the lock back. *)
Keep(t) == /\ Does(t, "keep") /\ Unread(On(t))
           /\ forgotten' = forgotten \cup {t}
           /\ Done(t)
           /\ UNCHANGED <<kept, handling, owner, readers, hups>>

BeginRead(t) == /\ Does(t, "read") /\ Free(On(t))
                /\ readers' = [readers EXCEPT ![On(t)][t] = @ + 1]
                /\ Done(t)
                /\ UNCHANGED <<kept, handling, owner, forgotten, hups>>

EndRead(t) == /\ Does(t, "unread")
              /\ readers' = [readers EXCEPT ![On(t)][t] = @ - 1]
              /\ Done(t)
              /\ UNCHANGED <<kept, handling, owner, forgotten, hups>>

(* writev waits for a client that does not read. *)
Send(t) == /\ Does(t, "send")
           /\ IF On(t) = "client" THEN t \notin Silent ELSE Silent = {}
           /\ Done(t)
           /\ UNCHANGED <<kept, handling, owner, readers, forgotten, hups>>

(* poll returns when there is something to do, or when the signal of a thread  *)
(* that changes the table interrupts it.  Neither need ever happen: there may  *)
(* be no traffic, and a signal that comes before poll is lost (Multiplexer).   *)
Poll(t) == /\ Does(t, "poll") /\ Done(t)
           /\ UNCHANGED <<kept, handling, owner, readers, forgotten, hups>>

(* The signal is blocked in a thread that handles it already, but not in the   *)
(* others; a thread that waits for a lock or for a client is interrupted, too, *)
(* and goes on waiting afterwards.  One that has no lock at that moment is as  *)
(* good as idle: what it has left is its next call.                            *)
HasLocks(t) == \/ \E l \in Locks : owner[l] = t
               \/ \E l \in RCLs : readers[l][t] > 0

Sighup(t) == /\ hups < MaxHups /\ t \in Signalled \ handling
             /\ HasLocks(t) \/ todo[t] = <<>>
             /\ hups' = hups + 1
             /\ handling' = handling \cup {t}
             /\ kept' = [kept EXCEPT ![t] = todo[t]]
             /\ todo' = [todo EXCEPT ![t] = server_init]
             /\ UNCHANGED <<owner, readers, forgotten>>

Return(t) == /\ t \in handling /\ todo[t] = <<>>
             /\ handling' = handling \ {t}
             /\ todo' = [todo EXCEPT ![t] = kept[t]]
             /\ kept' = [kept EXCEPT ![t] = <<>>]
             /\ UNCHANGED <<owner, readers, forgotten, hups>>

Proceed(t) == \/ Pass(t) \/ Take(t) \/ Drain(t) \/ Write(t) \/ Give(t) \/ Keep(t)
              \/ BeginRead(t) \/ EndRead(t) \/ Send(t) \/ Return(t)

LocksNext == \E t \in ServerThreads : Begin(t) \/ Sighup(t) \/ Proceed(t) \/ Poll(t)

LocksSpec == LocksInit /\ [][LocksNext]_locksVars

(* A call goes on when it can; a lock that keeps coming free is had in the end.*)
(* Nothing is assumed of poll.                                                 *)
FairLocksSpec == LocksSpec /\ \A t \in ServerThreads : SF_locksVars(Proceed(t))
-----------------------------------------------------------------------------
LocksTypeOK == /\ todo \in [ServerThreads -> Seq(Ops)]
               /\ kept \in [ServerThreads -> Seq(Ops)]
               /\ handling \subseteq ServerThreads
               /\ owner \in [Locks -> ServerThreads \cup {None}]
               /\ readers \in [RCLs -> [ServerThreads -> 0 .. 3]]
               /\ forgotten \subseteq {t \in ServerThreads : owner["am_rcl"] = t}
               /\ hups \in 0 .. MaxHups

(* The threads whose next step thread t waits for. *)
WaitsFor(t) ==
    IF todo[t] = <<>> THEN {}
    ELSE CASE Head(todo[t]).kind \in {"pass", "take", "read"} -> {owner[On(t)]} \ {None}
           [] Head(todo[t]).kind \in {"drain", "write", "keep"} ->
                  {u \in ServerThreads : readers[On(t)][u] > 0}
           [] OTHER -> {}

(* Each thread of the set waits for one of the set, or for itself. *)
Circular(S) == S # {} /\ \A t \in S : WaitsFor(t) \cap S # {}

(* cm_get_taskno within a broadcast. *)
ReadsAgain(t) == Does(t, "pass") /\ On(t) \in RCLs /\ readers[On(t)][t] > 0

(* server_init in a thread that had locks when the signal came. *)
ReloadsInside(t) == t \in handling /\ kept[t] # <<>>

(* Calls of the server, in whatever order they take the nine locks, wait for  *)
(* each other in a circle, or for themselves, in three ways only: where a      *)
(* broadcast reads cm_lock a second time (ConnectionManager.c:405 and 246)     *)
(* while a writer has reserved it, where a thread that handles SIGHUP has      *)
(* locks from before (main.c:103), and where a thread has am_rcl from an entry *)
(* after which it is not given back (transaction_handler.c:1279-1287): it      *)
(* waits for itself as soon as it needs the accounts again.                    *)
OnlyKnownCycles ==
    \A S \in SUBSET ServerThreads : Circular(S) =>
        \E t \in S : ReadsAgain(t) \/ ReloadsInside(t) \/ t \in forgotten

(* If poll keeps returning, every call of the server ends, a reload with its   *)
(* interrupted call included, unless it comes to one of those circles or       *)
(* am_rcl is not given back.  A client that does not read holds up its own     *)
(* helper only: the server writes to it with locks in its hands                *)
(* (TransferManager.c:205, transaction_handler.c:190, ConnectionManager.c:398),*)
(* so that this fails as soon as Silent has a member.                          *)
EveryCallEnds == []<>~Does(Main, "poll") => \A t \in ServerThreads \ Silent :
    todo[t] # <<>> ~> \/ todo[t] = <<>> /\ t \notin handling
                      \/ \E S \in SUBSET ServerThreads : Circular(S)
                      \/ forgotten # {}
=============================================================================
