----------------------------- MODULE Multiplexer -----------------------------
(* Multiplexer.poll.c, the build Linux selects, between its users: the main    *)
(* thread, which polls and hands ready connections to helpers (ch_main), and   *)
(* the helpers, which register the connection they have served again.  mlock   *)
(* is the RCL of RCL.tla: the main thread is its only reader, and reads while  *)
(* it is inside multiplexer_poll.                                              *)
(*                                                                             *)
(* A kick closes the number of a connection that is watched or has a helper,   *)
(* and a helper whose handshake fails closes its number twice.  What the system*)
(* gives out between is the same number for something else.  The model goes on *)
(* until that happens, and says nothing of what follows.                       *)
EXTENDS Integers, FiniteSets, Sequences, SequencesExt

CONSTANTS Conns,       \* the descriptors of client connections
          Kickable,    \* those whose user may be disconnected by others
          Listener,    \* control_socket
          None,
          InitialSize, \* INITIAL_TABLE_SIZE
          UIntMax      \* the largest unsigned int

ASSUME ConnsAssumption == IsFiniteSet(Conns) /\ Listener \notin Conns
                          /\ None \notin Conns \cup {Listener}
                          /\ Kickable \subseteq Conns
ASSUME SizeAssumption == InitialSize \in Nat \ {0}
                         /\ UIntMax \in Nat /\ Cardinality(Conns) + 1 <= UIntMax

VARIABLES fdtbl,      \* fdtbl[0 .. fdtbl_count-1]: descriptors and revents
          fdtbl_size, \* the entries fdtbl has room for
          curfd, retfds, pcomplete,
          holder,     \* the helper that holds mlock's entry_lock, or None
          main,       \* where the main thread is
          got,        \* the descriptor multiplexer_poll returned to it
          sig,        \* SIGUSR1 is pending for the main thread
          conn,       \* conn[f]: who has connection f
          ready,      \* the descriptors for which poll has something to report
          open,       \* the connections that the system has open
          reused      \* a number was given out again that somebody still uses

cursor == <<curfd, retfds, pcomplete>>
numbers == <<open, reused>>
vars == <<fdtbl, fdtbl_size, cursor, holder, main, got, sig, conn, ready, numbers>>

Fds == Conns \cup {Listener}
Entry(f) == [fd |-> f, revents |-> FALSE]
Table == {fdtbl[i].fd : i \in DOMAIN fdtbl}
Invalid == (Table \cap Conns) \ open
Reading == main \in {"locked", "polling", "scanning"}

Unsigned(n) == n % (UIntMax + 1)

Init == /\ fdtbl = <<Entry(Listener)>>
        /\ fdtbl_size = InitialSize
        /\ curfd = 0 /\ retfds = 0 /\ pcomplete = FALSE
        /\ holder = None
        /\ main = "loop" /\ got = None
        /\ sig = FALSE
        /\ conn = [f \in Conns |-> "none"]
        /\ ready = {} /\ open = {} /\ reused = FALSE

-------------------------------------------------------------------------------
(* The clients: one connects, or sends to a connection that is open. *)

Arrive == \/ /\ \E f \in Conns : conn[f] = "none"
             /\ ready' = ready \cup {Listener}
          \/ \E f \in open : ready' = ready \cup {f}

Client == Arrive /\ UNCHANGED <<fdtbl, fdtbl_size, cursor, holder, main, got, sig, conn, numbers>>

-------------------------------------------------------------------------------
(* multiplexer_poll *)

\* mutant: the reader passes the writer that has reserved the lock
ReadLockPasses == /\ main = "loop"
                  /\ main' = "locked"
                  /\ UNCHANGED <<fdtbl, fdtbl_size, cursor, holder, got, sig, conn, ready, numbers>>

ReadLock == /\ main = "loop" /\ holder = None
            /\ main' = "locked"
            /\ UNCHANGED <<fdtbl, fdtbl_size, cursor, holder, got, sig, conn, ready, numbers>>

(* poll() finds the numbers that are closed (POLLNVAL); one that is closed  *)
(* while it waits does not wake it, but is reported when something else does.*)
EnterPoll == /\ main = "locked"
             /\ main' = IF pcomplete THEN "scanning" ELSE "polling"
             /\ ready' = IF pcomplete THEN ready ELSE ready \cup Invalid
             /\ UNCHANGED <<fdtbl, fdtbl_size, cursor, holder, got, sig, conn, numbers>>

(* poll() returns with n entries to report, or with -1, which retfds, being *)
(* unsigned, keeps as its largest value: the error branch is never taken.   *)
PollReturns(n, readable) ==
    /\ fdtbl' = [i \in DOMAIN fdtbl |-> [fdtbl[i] EXCEPT !.revents = fdtbl[i].fd \in readable]]
    /\ retfds' = n /\ curfd' = 0 /\ pcomplete' = TRUE
    /\ main' = "scanning"
    /\ UNCHANGED <<fdtbl_size, holder, got, conn, ready, numbers>>

Polled == /\ main = "polling" /\ Table \cap ready # {}
          /\ LET readable == ready \cup Invalid IN
               PollReturns(Cardinality({i \in DOMAIN fdtbl : fdtbl[i].fd \in readable}), readable)
          /\ UNCHANGED sig

Interrupted == /\ main = "polling" /\ sig
               /\ PollReturns(UIntMax, {})
               /\ sig' = FALSE

(* Anywhere else the handler runs, does nothing, and the signal is gone. *)
SignalHandled == /\ sig /\ main # "polling"
                 /\ sig' = FALSE
                 /\ UNCHANGED <<fdtbl, fdtbl_size, cursor, holder, main, got, conn, ready, numbers>>

Reported == {i \in DOMAIN fdtbl : i > curfd /\ fdtbl[i].revents}

(* The next reported entry is returned, and the read lock released ... *)
Deliver == /\ main = "scanning" /\ retfds > 0
           /\ \E i \in Reported :
                /\ \A j \in Reported : i <= j
                /\ got' = fdtbl[i].fd
                /\ curfd' = i
           /\ retfds' = Unsigned(retfds - 1)
           /\ pcomplete' = (retfds' # 0)
           /\ main' = "got"
           /\ UNCHANGED <<fdtbl, fdtbl_size, holder, sig, conn, ready, numbers>>

\* mutant: pcomplete is not reset
ScanEndComplete == /\ main = "scanning" /\ (retfds = 0 \/ Reported = {})
                   /\ curfd' = IF retfds = 0 THEN curfd ELSE Len(fdtbl)
                   /\ main' = "loop"
                   /\ UNCHANGED <<fdtbl, fdtbl_size, retfds, pcomplete, holder, got,
                                  sig, conn, ready, numbers>>

(* ... or there is none left, and the next call polls again. *)
ScanEnd == /\ main = "scanning" /\ (retfds = 0 \/ Reported = {})
           /\ curfd' = IF retfds = 0 THEN curfd ELSE Len(fdtbl)
           /\ pcomplete' = FALSE
           /\ main' = "loop"
           /\ UNCHANGED <<fdtbl, fdtbl_size, retfds, holder, got, sig, conn, ready, numbers>>

-------------------------------------------------------------------------------
(* The rest of ch_main. *)

(* ch_accept_control_connection: the new connection goes to a helper. *)
Accept == /\ main = "got" /\ got = Listener
          /\ \E f \in Conns : /\ conn[f] = "none"
                              /\ conn' = [conn EXCEPT ![f] = "hello"]
                              /\ open' = open \cup {f}
          /\ ready' = ready \ {Listener}
          /\ main' = "loop" /\ got' = None
          /\ UNCHANGED <<fdtbl, fdtbl_size, cursor, holder, sig, reused>>

(* Half the room is given back when less than a quarter of it is used. *)
Halved(count) == IF fdtbl_size \div 4 > count /\ fdtbl_size > InitialSize
                 THEN fdtbl_size \div 2 ELSE fdtbl_size

\* mutants: nothing is removed; the cursor stays where it was
multiplexer_removeNothing(i) ==
    holder = None /\ UNCHANGED <<fdtbl, fdtbl_size, cursor, holder>>
multiplexer_removeCursor(i) ==
    /\ holder = None
    /\ fdtbl' = RemoveAt(fdtbl, i)
    /\ fdtbl_size' = Halved(Len(fdtbl) - 1)
    /\ retfds' = IF pcomplete /\ fdtbl[i].revents
                 THEN Unsigned(retfds - 1) ELSE retfds
    /\ UNCHANGED <<curfd, pcomplete, holder>>

(* multiplexer_remove, of entry i.  Its caller is the only reader of mlock, *)
(* and not reading: with entry_lock free nothing holds it up.               *)
multiplexer_remove(i) ==
    /\ holder = None
    /\ fdtbl' = RemoveAt(fdtbl, i)
    /\ fdtbl_size' = Halved(Len(fdtbl) - 1)
    /\ retfds' = IF pcomplete /\ fdtbl[i].revents
                 THEN Unsigned(retfds - 1) ELSE retfds
    /\ curfd' = IF pcomplete /\ curfd > i - 1 THEN curfd - 1 ELSE curfd
    /\ UNCHANGED <<pcomplete, holder>>

(* A connection with a transaction goes to a helper. *)
Dispatch == /\ main = "got" /\ got \in Conns
            /\ \E i \in DOMAIN fdtbl :
                 /\ fdtbl[i].fd = got
                 /\ \A j \in 1 .. i - 1 : fdtbl[j].fd # got
                 /\ multiplexer_remove(i)
            /\ conn' = [conn EXCEPT ![got] = "helper"]
            /\ main' = "loop" /\ got' = None
            /\ UNCHANGED <<sig, ready, numbers>>

-------------------------------------------------------------------------------
(* The helpers. *)

(* The handshake or a transaction is read, and handled. *)
Read(f) == /\ conn[f] \in {"hello", "helper"} /\ f \in ready \cap open
           /\ conn' = [conn EXCEPT ![f] = "served"]
           /\ ready' = ready \ {f}
           /\ UNCHANGED <<fdtbl, fdtbl_size, cursor, holder, main, got, sig, numbers>>

(* The helper that has connection f gives it up, in the given state; cm_remove *)
(* closes the number if nobody has yet.                                        *)
GiveUp(f, state) == /\ conn' = [conn EXCEPT ![f] = state]
                    /\ open' = open \ {f}
                    /\ ready' = ready \ {f}
                    /\ UNCHANGED <<fdtbl, fdtbl_size, cursor, holder, main, got, sig, reused>>

(* The client is gone, or breaks the protocol: ht_control_disconnect, ... *)
Disconnect(f) == conn[f] \in {"helper", "served"} /\ GiveUp(f, "none")

(* ... or, in the handshake, cm_remove and then close(). *)
FailHandshake(f) == conn[f] = "hello" /\ GiveUp(f, "closing")

SecondClose(f) == /\ conn[f] = "closing"
                  /\ conn' = [conn EXCEPT ![f] = "none"]
                  /\ UNCHANGED <<fdtbl, fdtbl_size, cursor, holder, main, got, sig, ready, numbers>>

(* txn_kick_user, of the user of another connection who has logged in.  The *)
(* table keeps the entry, and the helper the connection.                    *)
KickUser(f) == /\ conn[f] = "served"
               /\ \E g \in (Kickable \cap open) \ {f} : /\ conn[g] # "hello"
                                                     /\ open' = open \ {g}
               /\ UNCHANGED <<fdtbl, fdtbl_size, cursor, holder, main, got, sig, conn, ready,
                              reused>>

(* A socket or a file of the server gets a number that is closed, but that the *)
(* table or a helper still has.                                                *)
Reuse == /\ \E f \in Conns \ open : conn[f] # "none"
         /\ reused' = TRUE
         /\ UNCHANGED <<fdtbl, fdtbl_size, cursor, holder, main, got, sig, conn, ready, open>>

(* multiplexer_add: reserve mlock, interrupt the poll, wait for it to end,  *)
(* append the entry.                                                        *)
Reserve(f) == /\ conn[f] = "served" /\ holder = None
              /\ holder' = f
              /\ conn' = [conn EXCEPT ![f] = "reserved"]
              /\ UNCHANGED <<fdtbl, fdtbl_size, cursor, main, got, sig, ready, numbers>>

Kill(f) == /\ conn[f] = "reserved"
           /\ sig' = TRUE
           /\ conn' = [conn EXCEPT ![f] = "signalled"]
           /\ UNCHANGED <<fdtbl, fdtbl_size, cursor, holder, main, got, ready, numbers>>

Doubled == IF Len(fdtbl) = fdtbl_size THEN 2 * fdtbl_size ELSE fdtbl_size

Add(f) == /\ conn[f] = "signalled" /\ ~Reading
          /\ fdtbl' = Append(fdtbl, Entry(f))
          /\ fdtbl_size' = Doubled
          /\ holder' = None
          /\ conn' = [conn EXCEPT ![f] = "watched"]
          /\ UNCHANGED <<cursor, main, got, sig, ready, numbers>>

-------------------------------------------------------------------------------
Main == ReadLock \/ EnterPoll \/ Polled \/ Interrupted \/ SignalHandled
        \/ Deliver \/ ScanEnd \/ Accept \/ Dispatch
Helper(f) == Read(f) \/ SecondClose(f) \/ Reserve(f) \/ Kill(f) \/ Add(f)

Next == /\ ~reused
        /\ \/ Client \/ Main \/ Reuse
           \/ \E f \in Conns : Helper(f) \/ Disconnect(f) \/ FailHandshake(f) \/ KickUser(f)

Spec == Init /\ [][Next]_vars

(* The threads run on; a client need not send anything, ever. *)
FairSpec == /\ Spec /\ WF_vars(~reused /\ Main)
            /\ \A f \in Conns : WF_vars(~reused /\ Helper(f))

-------------------------------------------------------------------------------
(* The types of the variables; fdtbl never outgrows the memory it has, through *)
(* every doubling and halving.                                                 *)
TypeOK == /\ fdtbl \in Seq([fd : Fds, revents : BOOLEAN])
          /\ fdtbl_size \in Nat /\ fdtbl_size >= Len(fdtbl)
          /\ curfd \in Nat /\ retfds \in 0 .. UIntMax /\ pcomplete \in BOOLEAN
          /\ holder \in Conns \cup {None}
          /\ main \in {"loop", "locked", "polling", "scanning", "got"}
          /\ got \in Fds \cup {None}
          /\ sig \in BOOLEAN
          /\ conn \in [Conns -> {"none", "hello", "closing", "helper", "served",
                                 "reserved", "signalled", "watched"}]
          /\ ready \subseteq Fds /\ open \subseteq Conns /\ reused \in BOOLEAN

(* The poll table holds each watched connection once and no connection that a  *)
(* helper has: otherwise two helpers would read one client's stream.  It holds *)
(* until a number is given out again that a kick (transaction_handler.c:1412)  *)
(* or the first close of a failed handshake (helper_thread.c:58) closed under  *)
(* its user; after that the code can break both halves.                        *)
OneOwner == ~reused =>
    /\ IsInjective([i \in DOMAIN fdtbl |-> fdtbl[i].fd])
    /\ Table \ {Listener} = {f \in Conns : conn[f] = "watched"}

(* Between two calls that share the answer of one poll, the entries still to   *)
(* be reported are ahead of the cursor: removing the entry just delivered moves*)
(* the cursor with the table, so that none is passed over or reported again,   *)
(* and there is one ahead for each that retfds counts.  Not all of an answer is*)
(* delivered: retfds goes down twice for a connection, when it is delivered    *)
(* (Multiplexer.poll.c:162) and when it is removed (:117), and what is ahead   *)
(* when it reaches 0 is left to the next poll (WatchedIsServed).               *)
NonePassedOver == pcomplete /\ main \in {"loop", "locked"} =>
    /\ retfds <= Cardinality(Reported)
    /\ \A i \in 1 .. curfd : fdtbl[i].revents => fdtbl[i].fd = Listener

(* A watched connection that has sent something gets a helper, however many    *)
(* others keep the poll busy, and although an answer of poll is not delivered  *)
(* to the end.                                                                 *)
WatchedIsServed == \A f \in Conns :
    conn[f] = "watched" /\ f \in ready ~> conn[f] # "watched" \/ reused

(* "The completion step will block until the reader has exited", and the       *)
(* signal is there to make it exit: a registration ends.                       *)
AddEnds == \A f \in Conns : conn[f] = "signalled" ~> conn[f] = "watched" \/ reused

(* As long as clients keep connecting, a registration ends: the poll returns   *)
(* for another client, and the helper that had been signalled in vain gets in. *)
AddEndsUnderTraffic == []<>(Listener \in ready) => AddEnds
==============================================================================
