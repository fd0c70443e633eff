------------------------- MODULE AccountManager ------------------------
(* The accounts (src/AccountManager.c), the file they are kept in and the   *)
(* transactions that change them (src/transaction_handler.c): helper        *)
(* threads change the list inside am_rcl and write all of it to hlpasswd    *)
(* inside hlpasswd_lock; am_init, called again by SIGHUP, empties the list  *)
(* and reads the file back.  The hash table beside the list holds the same  *)
(* accounts; a section of am_rcl (module RCL) that cannot block inside is   *)
(* one step.                                                                *)
EXTENDS Integers, Sequences, SequencesExt, FiniteSets

CONSTANTS
    Helpers, Nobody,
    Names, Admin,       \* user names; the one am_init falls back to
    Data, FullAccess,   \* what an account carries; the fallback's
    Moved,              \* a->perms = NULL, taken out by process_user_entry
    MaxEntries,         \* bound: entries of one HL_ADMIN_SUBMIT transaction
    Environment         \* what may happen besides complete, valid requests

ASSUME AccountAssumption ==
    /\ IsFiniteSet(Names) /\ Admin \in Names
    /\ FullAccess \in Data /\ Moved \notin Data
    /\ Nobody \notin Helpers \union {"main"} /\ "main" \notin Helpers
    /\ MaxEntries \in Nat
    /\ Environment \subseteq {"reload", "crash", "open_fails", "rename",
         "malformed_entry", "unknown_account", "no_username"}

VARIABLES
    accounts,       \* the list from am_head to am_tail
    am_rcl,         \* who has the write lock
    hlpasswd_lock,  \* who has the mutex
    file,           \* the lines of hlpasswd
    main,           \* where am_init is, "poll" outside it
    lines,          \* what am_init has still to read
    up,             \* the server answers transactions
    pc,             \* where each helper is
    entries,        \* what its txn_admin_submit has still to process
    entry,          \* the account a rename has in its hands
    out,            \* what its am_commit has still to write
    fault,
    whole,          \* history: the file as last written to its end
    given_up        \* history: a call has ended without its am_commit, or with
                    \* the file not opened, since the server was started

table == <<accounts, am_rcl>>
disk == <<hlpasswd_lock, file, whole>>
boot == <<main, lines, up>>
locals == <<entries, entry, out>>
vars == <<table, disk, boot, pc, locals, fault, given_up>>

Account(name, data) == [name |-> name, data |-> data]
Fallback == Account(Admin, FullAccess)
Accounts == [name : Names, data : Data]
NoEntry == [from |-> Admin, to |-> Admin, data |-> Moved]

Find(list, name) == {a \in Range(list) : a.name = name}
Free(mutex) == mutex = Nobody

(* hash_table_insert refuses a name that is there; else am_tail moves on.   *)
Added(name, data) == IF Find(accounts, name) = {}
                     THEN Append(accounts, Account(name, data)) ELSE accounts
Deleted(name) == IF Find(accounts, name) = {} THEN accounts ELSE
    RemoveAt(accounts, CHOOSE i \in DOMAIN accounts : accounts[i].name = name)
With(name, data) == [i \in DOMAIN accounts |-> IF accounts[i].name = name
                       THEN Account(name, data) ELSE accounts[i]]

Init ==
    /\ file \in {<<>>, <<Fallback>>} /\ whole = file
    /\ accounts = <<>> /\ am_rcl = Nobody /\ hlpasswd_lock = Nobody
    /\ main = "reset" /\ lines = <<>> /\ up = FALSE
    /\ pc = [h \in Helpers |-> "idle"]
    /\ entries = [h \in Helpers |-> 0]
    /\ entry = [h \in Helpers |-> NoEntry]
    /\ out = [h \in Helpers |-> <<>>]
    /\ fault = FALSE
    /\ given_up = FALSE

Running == ~fault
Goto(h, there) == pc' = [pc EXCEPT ![h] = there]
At(h, here) == Running /\ pc[h] = here

-----------------------------------------------------------------------------
(* am_init.                                                                 *)

Hangup ==
    /\ Running /\ "reload" \in Environment
    /\ main = "poll" /\ main' = "reset"
    /\ UNCHANGED <<table, disk, lines, up, pc, locals, fault, given_up>>

Reset ==
    /\ Running /\ main = "reset" /\ Free(am_rcl)
    /\ accounts' = <<>>
    /\ main' = "open"
    /\ UNCHANGED <<am_rcl, disk, lines, up, pc, locals, fault, given_up>>

\* mutant: am_init reads without hlpasswd_lock
OpenUnlocked ==
    /\ Running /\ main = "open"
    /\ lines' = file /\ main' = "load"
    /\ UNCHANGED <<hlpasswd_lock, table, file, whole, up, pc, locals, fault, given_up>>

Open ==
    /\ Running /\ main = "open" /\ Free(hlpasswd_lock)
    /\ \/ /\ hlpasswd_lock' = "main"
          /\ lines' = file /\ main' = "load"
          /\ UNCHANGED given_up
       \/ /\ "open_fails" \in Environment
          /\ main' = "fallback" /\ given_up' = TRUE
          /\ UNCHANGED <<hlpasswd_lock, lines>>
    /\ UNCHANGED <<table, file, whole, up, pc, locals, fault>>

process_hlpasswd ==
    /\ Running /\ main = "load" /\ lines # <<>> /\ Free(am_rcl)
    /\ accounts' = Added(Head(lines).name, Head(lines).data)
    /\ lines' = Tail(lines)
    /\ UNCHANGED <<am_rcl, disk, main, up, pc, locals, fault, given_up>>

(* The end of the file, and the look at am_head outside am_rcl.             *)
Loaded ==
    /\ Running /\ main = "load" /\ lines = <<>>
    /\ hlpasswd_lock' = Nobody
    /\ IF accounts = <<>> THEN main' = "fallback" /\ up' = up
                          ELSE main' = "poll" /\ up' = TRUE
    /\ UNCHANGED <<table, file, whole, lines, pc, locals, fault, given_up>>

FallBack ==
    /\ Running /\ main = "fallback" /\ Free(am_rcl)
    /\ accounts' = Added(Admin, FullAccess)
    /\ main' = "poll" /\ up' = TRUE
    /\ UNCHANGED <<am_rcl, disk, lines, pc, locals, fault, given_up>>

am_init == Reset \/ Open \/ process_hlpasswd \/ Loaded \/ FallBack

(* The machine stops; what is on the disk is all that is left.              *)
Crash ==
    /\ "crash" \in Environment
    /\ whole' = file /\ file' = file
    /\ accounts' = <<>> /\ am_rcl' = Nobody /\ hlpasswd_lock' = Nobody
    /\ main' = "reset" /\ lines' = <<>> /\ up' = FALSE
    /\ pc' = [h \in Helpers |-> "idle"]
    /\ entries' = [h \in Helpers |-> 0]
    /\ entry' = [h \in Helpers |-> NoEntry]
    /\ out' = [h \in Helpers |-> <<>>]
    /\ fault' = FALSE
    /\ given_up' = FALSE

-----------------------------------------------------------------------------
(* The transactions: a change inside am_rcl, then am_commit; a call that    *)
(* changes nothing is answered with an error and leaves no trace.           *)

Change(h, new) ==
    /\ At(h, "idle") /\ up /\ Free(am_rcl)
    /\ accounts' = new /\ Goto(h, "commit")
    /\ UNCHANGED <<am_rcl, disk, boot, locals, fault, given_up>>

txn_create_account(h) == \E name \in Names, data \in Data :
    Find(accounts, name) = {} /\ Change(h, Added(name, data))

\* memcpy into a->perms
txn_modify_account(h) == \E name \in Names, data \in Data :
    /\ At(h, "idle") /\ up /\ Free(am_rcl) /\ Find(accounts, name) # {}
    /\ fault' = \E a \in Find(accounts, name) : a.data = Moved
    /\ accounts' = IF fault' THEN accounts ELSE With(name, data)
    /\ Goto(h, "commit")
    /\ UNCHANGED <<am_rcl, disk, boot, locals, given_up>>

txn_delete_account(h) == \E name \in Names :
    Find(accounts, name) # {} /\ Change(h, Deleted(name))

txn_admin_submit(h) ==
    /\ At(h, "idle") /\ up
    /\ \E n \in 0 .. MaxEntries : entries' = [entries EXCEPT ![h] = n]
    /\ Goto(h, "submit")
    /\ UNCHANGED <<table, disk, boot, entry, out, fault, given_up>>

(* txn_admin_submit goes on to its next entry while there is one.           *)
More(n) == n > 0
Next_entry(h) ==
    /\ At(h, "submit") /\ More(entries[h])
    /\ entries' = [entries EXCEPT ![h] = @ - 1]

(* process_user_entry with one name: an account to delete, or to create.    *)
EntryOfOne(h) ==
    /\ Next_entry(h) /\ Free(am_rcl)
    /\ \E name \in Names : \/ accounts' = Deleted(name)
                           \/ \E data \in Data : accounts' = Added(name, data)
    /\ UNCHANGED <<am_rcl, disk, boot, pc, entry, out, fault, given_up>>

(* With a source and a name: the fields the entry does not give are taken   *)
(* out of the account, and am_rcl is left.  A source that is not there goes *)
(* to done, with am_rcl still held, and the transaction is refused.         *)
EntryOfTwo(h) == \E from, to \in Names, given \in Data \union {Moved} :
    /\ "rename" \in Environment
    /\ Next_entry(h) /\ Free(am_rcl)
    /\ \/ /\ "unknown_account" \in Environment
          /\ Find(accounts, from) = {}
          /\ am_rcl' = h /\ Goto(h, "idle") /\ given_up' = TRUE
          /\ UNCHANGED <<accounts, entry>>
       \/ \E a \in Find(accounts, from) :
          /\ entry' = [entry EXCEPT ![h] = [from |-> from, to |-> to,
                 data |-> IF given # Moved THEN given ELSE a.data]]
          /\ accounts' = IF given # Moved THEN accounts ELSE With(from, Moved)
          /\ Goto(h, "delete")
          /\ UNCHANGED <<am_rcl, given_up>>
    /\ UNCHANGED <<disk, boot, out, fault>>

DeleteSource(h) ==
    /\ At(h, "delete") /\ Free(am_rcl)
    /\ accounts' = Deleted(entry[h].from)
    /\ Goto(h, "add")
    /\ UNCHANGED <<am_rcl, disk, boot, locals, fault, given_up>>

(* account_create copies the permissions before the name is looked up.      *)
AddRenamed(h) ==
    /\ At(h, "add") /\ Free(am_rcl)
    /\ fault' = (entry[h].data = Moved)
    /\ accounts' = IF fault' THEN accounts ELSE Added(entry[h].to, entry[h].data)
    /\ entry' = [entry EXCEPT ![h] = NoEntry]
    /\ Goto(h, "submit")
    /\ UNCHANGED <<am_rcl, disk, boot, entries, out, given_up>>

(* A source and other fields but no name: am_del_account inside am_xlock.   *)
EntryWithoutName(h) ==
    /\ "no_username" \in Environment
    /\ Next_entry(h) /\ Free(am_rcl)
    /\ am_rcl' = h
    /\ Goto(h, "am_del_account")
    /\ UNCHANGED <<accounts, disk, boot, entry, out, fault, given_up>>

(* An entry that does not parse ends the transaction before am_commit.      *)
MalformedEntry(h) ==
    /\ "malformed_entry" \in Environment
    /\ Next_entry(h)
    /\ Goto(h, "idle") /\ given_up' = TRUE
    /\ UNCHANGED <<table, disk, boot, entry, out, fault>>

Submitted(h) ==
    /\ At(h, "submit") /\ ~More(entries[h])
    /\ entries' = [entries EXCEPT ![h] = 0]
    /\ Goto(h, "commit")
    /\ UNCHANGED <<table, disk, boot, entry, out, fault, given_up>>

process_user_entry(h) ==
    \/ EntryOfOne(h) \/ EntryOfTwo(h) \/ DeleteSource(h) \/ AddRenamed(h)
    \/ EntryWithoutName(h) \/ MalformedEntry(h)

-----------------------------------------------------------------------------
(* am_commit.                                                               *)

\* mutant: am_commit writes without hlpasswd_lock
TruncateUnlocked(h) ==
    /\ At(h, "commit")
    /\ hlpasswd_lock' = h /\ file' = <<>>
    /\ Goto(h, "copy")
    /\ UNCHANGED <<table, whole, boot, locals, fault, given_up>>

(* fopen "w" empties the file.                                              *)
Truncate(h) ==
    /\ At(h, "commit") /\ Free(hlpasswd_lock)
    /\ \/ /\ hlpasswd_lock' = h /\ file' = <<>>
          /\ Goto(h, "copy")
          /\ UNCHANGED given_up
       \/ /\ "open_fails" \in Environment
          /\ Goto(h, "idle") /\ given_up' = TRUE
          /\ UNCHANGED <<hlpasswd_lock, file>>
    /\ UNCHANGED <<table, whole, boot, locals, fault>>

(* The loop over the list inside am_rcl, into the stream's buffer:          *)
(* permissions_to_ascii reads a->perms.                                     *)
write_account(h) ==
    /\ At(h, "copy") /\ Free(am_rcl)
    /\ fault' = \E i \in DOMAIN accounts : accounts[i].data = Moved
    /\ out' = [out EXCEPT ![h] = IF fault' THEN <<>> ELSE accounts]
    /\ Goto(h, "flush")
    /\ UNCHANGED <<table, disk, boot, entries, entry, given_up>>

(* The buffer reaches the file piece by piece.                              *)
Flush(h) ==
    /\ At(h, "flush") /\ out[h] # <<>>
    /\ file' = Append(file, Head(out[h]))
    /\ out' = [out EXCEPT ![h] = Tail(@)]
    /\ UNCHANGED <<table, hlpasswd_lock, whole, boot, pc, entries, entry, fault, given_up>>

\* mutant: am_commit returns with hlpasswd_lock
CloseLocked(h) ==
    /\ At(h, "flush") /\ out[h] = <<>>
    /\ whole' = file
    /\ Goto(h, "idle")
    /\ UNCHANGED <<table, hlpasswd_lock, file, boot, locals, fault, given_up>>

Close(h) ==
    /\ At(h, "flush") /\ out[h] = <<>>
    /\ whole' = file
    /\ hlpasswd_lock' = Nobody
    /\ Goto(h, "idle")
    /\ UNCHANGED <<table, file, boot, locals, fault, given_up>>

am_commit(h) == Truncate(h) \/ write_account(h) \/ Flush(h) \/ Close(h)

Call(h) == \/ txn_create_account(h) \/ txn_modify_account(h)
           \/ txn_delete_account(h) \/ txn_admin_submit(h)

Next == \/ Hangup \/ am_init \/ Crash
        \/ \E h \in Helpers : Call(h) \/ process_user_entry(h) \/ Submitted(h)
                              \/ am_commit(h)

Spec == Init /\ [][Next]_vars

(* A thread that can go on does; whoever waits for hlpasswd_lock has it in  *)
(* the end if it keeps coming free.  Nobody need send a transaction.        *)
Fairness ==
    /\ WF_vars(am_init) /\ SF_vars(Open)
    /\ \A h \in Helpers :
         /\ WF_vars(process_user_entry(h) \/ Submitted(h) \/ am_commit(h))
         /\ SF_vars(Truncate(h))

FairSpec == Spec /\ Fairness

-----------------------------------------------------------------------------
(* The types of the variables; a helper never counts its transaction's      *)
(* entries past their number (transaction_handler.c:1353).                  *)
TypeOK ==
    /\ accounts \in Seq([name : Names, data : Data \union {Moved}])
    /\ {file, whole, lines} \subseteq Seq(Accounts)
    /\ out \in [Helpers -> Seq(Accounts)]
    /\ am_rcl \in Helpers \union {Nobody}
    /\ hlpasswd_lock \in Helpers \union {Nobody, "main"}
    /\ main \in {"poll", "reset", "open", "load", "fallback"} /\ up \in BOOLEAN
    /\ pc \in [Helpers -> {"idle", "submit", "delete", "add", "am_del_account",
                           "commit", "copy", "flush"}]
    /\ entries \in [Helpers -> 0 .. MaxEntries]
    /\ entry \in [Helpers -> [from : Names, to : Names, data : Data \union {Moved}]]
    /\ {fault, given_up} \subseteq BOOLEAN

(* am_init never reads a file that am_commit is half way through writing:   *)
(* the one in its hands was written to its end (AccountManager.c:126-133).  *)
LoadsWholeFile == main = "load" => file = whole

(* Whatever am_commits overtake each other, an account that is not in the   *)
(* file as it is in the list, the fallback apart, has a helper that is      *)
(* still to write it, or that is writing it (AccountManager.c:285-304): an  *)
(* older copy of the list is never the last to reach the file.  So it is    *)
(* until a call gives up before it saves.                                   *)
BeingWritten(name) == \E h \in Helpers :
    \/ pc[h] \in {"submit", "delete", "add", "am_del_account", "commit", "copy"}
    \/ pc[h] = "flush" /\ Find(file \o out[h], name) = Find(accounts, name)
UnsavedIsPending == ~fault /\ ~given_up /\ main = "poll" => \A name \in Names :
    \/ Find(accounts, name) \in {Find(whole, name), {Fallback}}
    \/ BeingWritten(name)

(* Every transaction on the accounts ends, reloads and crashes in between,  *)
(* as long as nobody has returned with the accounts locked.                 *)
CallsEnd == \A h \in Helpers :
    pc[h] # "idle" ~> pc[h] = "idle" \/ fault \/ am_rcl # Nobody

(* am_init falls back on the passwordless account only when it has read     *)
(* that the file holds no account ("No valid accounts found in hlpasswd     *)
(* file", AccountManager.c:136).                                            *)
FallsBackOnEmptyFile ==
    [][main = "load" /\ main' = "fallback" => file = <<>>]_vars

(* Whoever locks the accounts unlocks them when it is done with them        *)
(* (the comment at AccountManager.c:265-266).                               *)
LockGivenUp == \A h \in Helpers : am_rcl = h ~> am_rcl # h

(* An account is looked at only while am_rcl keeps it as it was found (the  *)
(* comment at AccountManager.c:265-266): nobody meets one whose permissions *)
(* another thread has taken out of it.                                      *)
AccountsInUseAreWhole == ~fault
=============================================================================
