# A verification of hotwired in TLA+

hotwired is a file and chat server for the Hotline protocol: about 7,800 lines
of C with POSIX threads, hand-written reader/writer locks, queues, pools and hash
tables. Nearly everything that is hard about it happens between threads: a main
thread that polls, a pool of helper threads that handle one event each, a monitor
thread for transfers, and a signal handler that initialises every manager again
while all of them run. A unit test reaches little of that. This directory holds
TLA+ models of those parts, TLC configurations that check them on small
instances, and TLAPS proofs of what matters most for instances of every size.

1. The system
2. The modules and the code
3. What the runs check
4. Departures the code shows
5. What is proved
6. Bounds and fairness
7. What is not modelled
8. Plan

`PROJECT.json` says for every definition which lines of the source it stands for,
for every property which mistake in the code would break it, and lists the
hazards of the code at the lines where they bite.

## 1. The system

A client's life: `ch_main` (connection_handler.c) polls the listening sockets and
the watched connections. For a new client it adds a connection to the connection
manager (`cm_add`) and takes a helper thread from the pool (`tm_get_thread`), to
which it sends one message; the helper reads the handshake, registers the
descriptor with the multiplexer (`multiplexer_add`) and returns to the pool. When
something arrives, the main thread removes the descriptor from the multiplexer
and gives it to a helper, which reads one transaction, handles it, and watches
the descriptor again or removes the connection (`cm_remove`). A second listening
socket takes the data connections: their helper names a transfer
(`tfm_register`), waits for its turn, and copies a file. SIGHUP runs
`server_init`, which calls each manager's init function again.

| Component | State | Operations | Interacts by | What makes it correct |
|---|---|---|---|---|
| Resource control locks (RCL.c) | `entry_lock`, `rc_lock`, `rc`, `rc_cond` | read lock and unlock; reserve, complete, unlock for writing | taken by every manager | a writer is alone; nobody reads past a reserved lock; a writer gets in |
| Identifier manager (IDM.c) | list of free intervals | `idm_get`, `idm_return` | called by the transfer manager | no identifier given out twice; none lost but in the one place where the code loses it |
| Transfer manager (TransferManager.c) | table, download queue, sequester list, slot counts, limits, monitor thread | add download/upload, register, remove, purge, reload, the monitor | control handlers, data helpers, monitor and SIGHUP under `tfm_lock`; messages to helpers | slots counted and within limits, queue in order and moving, each transfer in one place |
| Threads (ThreadManager.c, HThread.c, MQueue.c, Stack.c) | pool, active count, limits, one message queue a thread | `tm_get_thread`, `tm_return_thread`, `tm_init`, `mqueue_send`, `mqueue_recv` | main thread and helpers under `tm_mutex`; messages | counts agree with the threads, limits hold, no wakeup lost |
| Hash tables (Collection.c, HashTable.c) | buckets, chains, count | insert, remove, lookup (which reorders), iterate | under the locks of their owners | a dictionary, through rebuilds and reorderings |
| Multiplexer (Multiplexer.poll.c) | poll table, cursor, `mlock` | `multiplexer_poll`, `_add`, `_remove` | main thread reads, helpers write; `pthread_kill` interrupts the poll | one owner a connection, no entry passed over, registrations end |
| Connection manager (ConnectionManager.c) | `ctbl`, connection objects, `cm_lock` | `cm_add`, `cm_remove`, get/set, broadcast, user list | all helpers and the main thread | no freed object used; a helper serves its own client; a client's list and the notices since agree with the table |
| Account manager (AccountManager.c) | list and table, `hlpasswd`, two locks | load, find, add, delete, commit | handlers, SIGHUP, the disk | no change left unsaved with nobody to save it; no half-written file loaded |
| Transaction handlers (transaction_handler.c) | none of their own | one function a transaction | call all of the above, often in several locked sections | the sections compose |
| Wire format (Transaction.c, socketops.c) | a connection's lock and buffers | read and write a transaction | sockets | framing |
| Shared files (file transactions, fileops.c, transfer_handler.c) | the folders on disk, partial files `<name>.hpf` | upload, resume, link; rename, move, delete, create; list | helpers, through the file system only: no lock | a published file is whole; a listing has what stays |
| Configuration and reload (Config.c, main.c) | `conf_table`; each manager's settings | `config_init`, `config_value`, `server_init` | SIGHUP runs it in any thread, even in two at once | after the last reload the last file's values hold |
| Tracker client (tracker.c) | list of trackers, server name, thread | `tracker_init`, a round of datagrams | SIGHUP and its own thread under `tlock` | a tracker on the list is told |
| All locks together | nine locks, by thread | every call as the sections it is made of | lock order, SIGHUP inside a section | no circle of waits but three known ones |
| Permissions, logging, allocation | see section 7 | | | |

The behaviours that are hard:

* interleavings of sections: an object is looked up in one and used in another
  (`tfm_owner` then `tfm_remove`, `process_user_entry`, `cm_get_*`);
* lookups that write (`collection_lookup` moves what it finds to the front) and
  run under a shared read lock;
* waits that test their condition once (`rcl_write_complete_lock`, `mqueue_recv`,
  the monitor's `pthread_cond_timedwait`), against lost, early and late wakeups;
* names that are used again: descriptors (also while somebody still has them, after a kick), transfer identifiers, thread and
  transfer pointers;
* limits that change under load, because SIGHUP runs the init functions again, in a
  thread that may hold locks, and in two threads at once;
* what is looked up first and done later: file names, partial files, counts of entries;
* a file that is truncated first and rewritten afterwards.

## 2. The modules and the code

Sections of a mutex or of a write lock that cannot block inside are one action;
where a function gives its lock up in the middle, or holds it only for reading,
it is as many actions as there are points at which another thread can be seen.
Names are the source's where TLA+ allows it. A read of freed memory, a NULL
pointer followed, or a loop that never ends is the value of a variable `fault`
(in Collection a `pc`), after which the behaviour stops: nothing is claimed about
a server in that state.

**RWLock** is the abstract lock that RCL.h:3-22 describes: readers, one writer, a
reserved state. **RCL** is RCL.c mutex by mutex: `entry_lock` and `rc_lock` with
their owners, `rc`, and `pc` for each thread; `rc_cond` is the set of threads at
"waiting". It refines RWLock by the mapping `grant`. `SpuriousSpec` adds waits
that return without a signal. **LockProofs** has its theorems, and those of ServerLocks.

**IDM** has the functions of IDM.c as operators on a sequence of intervals;
**IDMUse** is their use: take any, return any. IDM.c:91-116 looks for a place only
behind the first node, so an identifier just past the head's end is neither
merged nor inserted when further intervals exist, and is lost: `OnlyLostPastTheHead`
says that this is the one way to lose one. **IDMProofs** has the lemmas on the list,
**ServerProofs** the theorems, with those of Reload, Files and Collection. A proof module extends the models it is about, so those that one
extends share no name: the specifications of Reload, Files, Collection and ServerLocks are `ReloadSpec`, `FilesSpec`, `TableSpec` and `LocksSpec`,
and their initial states, steps and type invariants are named likewise.

**TransferManager** is TransferManager.c under `tfm_lock`, with its callers. The
heap `transfer` is explicit, because the code keeps pointers to transfers it has
destroyed. `q` and `seq` are the download queue and the sequester list (transfers
with a slot that wait for their data connection); `monitor` follows
`sequester_monitor_thread` through its timed wait; `mail` and `helper` are the
message queues and states of the helpers that carry data connections. `User` has
the calls of the transaction handlers (`tfm_add_download`, `tfm_add_upload`,
`Purge`, and cancellation in the two sections of `txn_xfer_cancel`); `Helper` the
data connections (`tfm_register`, the wait for the start message, `tfm_remove`
at the end); `Reload` is `tfm_init`. `Environment` turns on cancellation, leaving,
reloads, data connections out of turn, and early wakeups.
**TransferManagerProofs** has the theorems on slots, the monitor, the identifiers and the order of the queue, and on the one
place and the one helper of every transfer while connections come in turn.

**ThreadPool** is ThreadManager.c, HThread.c, Stack.c and MQueue.c with their user
`ch_main` and the helpers' loop (`helper_thread.c`). `main` follows
`tm_get_thread` through its two waits; `state` is what each helper does;
`taken` and `event` are what the main thread has in its hands. A thread that the
pool has no room for destroys its queue and receives from it once more
(HThread.c:35): what the freed node holds is a choice. Waits may return early: `mqueue_recv` then reports a message
that nobody sent (`SpuriousWakeup`), and of the main thread's two waits the first looks at the count again and the second goes on
(`MainWokenEarly`). That a registered transfer is started is a step of this module (`Activate`), and nothing is assumed of it: the
monitor may have dropped the transfer. **ThreadPoolProofs** has the theorems.

**Dictionary** is what Collection.h and HashTable.h promise. **Collection** is the
chained table, for both files: insertions and removals, with the rebuilds they
may begin with, in one step; lookups and traversals statement by statement,
because their callers run them in parallel. `shrink` rebuilds when the table is
*full* (the test at Collection.c:137 is the wrong way round); this is modelled as
it is, and does no harm that a property could see. What a writer does to a table
that is already damaged is not followed (`Intact`). A chain is a recursive function of the number of
nodes passed (`Path`), and a rebuild one of the number of statements (`Emptying`: push one node, or go on to
the next old chain). **ServerProofs** has the theorems, for tables behind a mutex.

**Multiplexer** is Multiplexer.poll.c, which is what Linux builds, between
`ch_main` and the helpers: `fdtbl`, the cursor that survives between calls, the
signal that interrupts `poll`, and `mlock`, whose only reader is the main
thread. `retfds` is unsigned (`Unsigned`), so that `poll`'s -1 never takes the
error branch (line 142): the scan finds nothing and the next call polls again.
`open` says which numbers the system has open. A kick closes one that is watched or served and leaves its entry in the table
(`KickUser`), and a failed handshake closes one twice (`FailHandshake`, `SecondClose`); poll reports an entry whose number is
closed (`Invalid`), and the helper it is given to finds the client gone. When such a number is given out again
(`Reuse`), two clients share it, and the model stops there (`reused`).
**MultiplexerProofs** has the theorems.

**ConnectionManager** is ConnectionManager.c and a connection's life around it. Users
are descriptor numbers, which the system gives out again; `object` are the
connection structures, `cm_lock` is an RCL reduced to `entry` and `rc` (a count for
each thread, because a broadcast reads twice). `Plan` gives a helper the calls
that its transaction makes. The user list is read entry by entry under `cm_lock`
and written after it; `view` is what a client makes of the lists and notices
it gets, in the order in which they are written to it. **ConnectionManagerProofs** has
the theorems on freed objects, on who serves whom and on what the lists add up to.

**AccountManager** is AccountManager.c, the handlers that change accounts, and the
file. `process_user_entry` renames in three sections (`EntryOfTwo`,
`DeleteSource`, `AddRenamed`), as the code does; `Truncate`, `write_account`,
`Flush`, `Close` are `am_commit`. `Crash` leaves the file as it is at that moment.
**AccountManagerProofs** has the theorems.

**ServerLocks** composes the managers at the level of their locks: each call of
the server is the sequence of sections it takes, nests and gives up, and of the
writes and polls inside them. Two things can interrupt it: a client that does not
read (`Silent`), at which `writev` waits with whatever the thread holds, and
SIGHUP, which runs `server_init` on top of the call (`kept`). Sections that wait for
nothing inside are one step. A section that neither waits inside nor is entered with
another lock cannot take part in a circle, and is left out, like the lock of a connection and
the mutexes of a queue and of the log. Calls with the same sections are one: `ht_control_disconnect`
stands for `txn_kick_user`, `txn_create_account` for every change of accounts that gives its locks back. The two entries of
`txn_admin_submit` after which `am_rcl` is kept (transaction_handler.c:1279-1287) are calls of their own
(`process_user_entry_unknown`, `process_user_entry_unnamed`), made by the helpers in `Submitters`; `forgotten` are the threads
that have the lock and will not give it back. `Poll` may return at any time and need never do so.

**Files** is one shared folder: uploads from `txn_upload` to the link of the
finished file, resumption, the transactions that rename, move, delete, create and
list, and the recursive removal of the folder. A system call is one step, but
`readdir` may or may not return what comes or goes meanwhile. A file is the set of the
pieces that have been written, the paths that lead to it and the helpers
that have it open, so that a file whose name is taken over goes on being
written. `spoiled` marks a file that was resumed beyond its end, or that a cancelled upload went on
writing or linked: the transfer manager's table, which keeps other uploads of
the name away, no longer knows of it.

**Reload** is `server_init` stage by stage in several threads, the configuration table
and what each manager reads from it, value by value, under the manager's lock
(or without one, in `ch_init`), `f_addpath` in a helper, and tracker.c whole: the list, the
name, the thread and its flag `tthread_active`.

MC modules give TLC the definitions that some of these need besides their constants; where a
configuration needs none, it is run on the module itself. Every module ends with, or carries next
to the definition concerned, variants with one mistake (named `mutant`): each
checked property is known to fail for at least one of them.

## 3. What the runs check

| Run | Property | What it says |
|---|---|---|
| `rcl` | Exclusion | a writer inside the lock is alone there |
| | ImplementsRWLock | every step is a step of RWLock: nobody reads past a reserved lock |
| | WriterGetsIn | a reserved lock is got: the last reader's signal is not lost |
| `idm` | NeverTakenTwice | no identifier is free and taken at once |
| | OnlyLostPastTheHead | the only identifiers that do not come back are the ones past the head |
| `transfers_inturn` | SlotsCounted | the active counts are the numbers of transfers that hold a slot |
| | SlotsWithinLimit | no step takes a slot beyond the limit in force, across reloads |
| | OnePlace | a transfer is queued, sequestered, or told to start, and never two of these |
| | OneWriterPerFile | no two helpers write one file |
| | RightTransfer | a helper runs the transfer it registered; nothing reaches a thread back in the pool |
| | NoOvertaking | an arrival gets no slot past a queue |
| | QueueMoves | whoever waits in the queue leaves it |
| `transfers_disorder` | QueuePositions | position, order and length of the queue agree |
| | DistinctTids | live transfers have distinct identifiers, none of which is free |
| | MonitorWatches | there is a monitor thread exactly while something is sequestered |
| | NoIdleSlot | nobody queues while a slot is open |
| `pool` | PoolIsIdle | a pooled thread is alive, idle and in the pool once |
| | ActiveCounted | the active count is the number of threads out of the pool |
| | MainGetsThread | a waiting main thread gets a thread, unless all that are out wait for transfers to be started |
| | MessagesHandled | a message sent is taken up |
| `collection` | ChainsSound | chains end, hold what is counted, and are the ones the keys hash to |
| | VisitsAll | a traversal that reaches the end has shown every entry |
| | IterationEnds | a traversal ends |
| | ImplementsDictionary | every call answers as a set of keys would |
| `multiplexer` | OneOwner | a connection is watched, by one entry, or a helper's, until a closed number that is still in use is given out again |
| | NonePassedOver | removals and registrations move no reported entry behind the cursor, and `retfds` counts no more than lie ahead |
| | WatchedIsServed | a watched connection that has sent something gets a helper |
| | AddEndsUnderTraffic | while clients keep connecting, a registration ends |
| `connections` | NoUseAfterFree | no connection object is used after it is freed, or freed twice |
| | OwnConnection | a helper's descriptor and object are those of its own client |
| | ListsAgree | a client's user list and the notices since are who is there, but for what a helper is still to tell it |
| `accounts` | LoadsWholeFile | `am_init` never reads what `am_commit` is half way through writing |
| | UnsavedIsPending | what is not in the file has a helper that is still to write it |
| | CallsEnd | every transaction on the accounts ends |
| `locks` | OnlyKnownCycles | threads wait in a circle, or for themselves, only where a broadcast reads twice, where a signal came inside a section, or where an entry left its thread with the accounts |
| | EveryCallEnds | if poll keeps returning, every call and every reload ends, unless it comes to one of those circles or the accounts are left locked |
| `files` | PublishedIsWhole | what has its final name has all its pieces, whatever other uploads and users do |
| | ListsWhatStays | a listing has every file that was there from beginning to end |
| `reload` | SettingsFollow | when the last of overlapping reloads is over, each manager has the last file's values |
| | ListedAreTold | a tracker on the list is told the server's name |

Each module also has a type invariant, `TypeOK` (`ReloadTypeOK`, `FilesTypeOK`, `LocksTypeOK`; the multiplexer's includes that the table
fits its memory). RCL's is a theorem; the others are checked in the configurations of
section 4 that name them, rather than in the runs above. In some places a property is
stated only up to an event
after which the code does not keep it, and a history variable or `fault` marks
that event:

* `woken_early` (pool): a wait has returned without a signal. `mqueue_recv` waits
  once and then reports message 0, which is HT_KILL, so the thread exits in the
  pool (MQueue.c:219).
* `crossed` (connections): a user has been kicked or a handshake has failed. The
  number is then closed while it is in use (transaction_handler.c:1410-1412) or
  twice (helper_thread.c:58-60), and may be another client's by then.
  NoUseAfterFree is checked beyond it.
* `reused` (multiplexer): a number that is closed, but that the table or a helper still has, is given out again. The
  new client's number is then in the table twice once it is registered, or watched while the old client's helper serves it. Kicks and
  failed handshakes themselves do not end what the properties say, only this.
* `forgotten` (locks): a thread has been left with `am_rcl`; whoever needs the accounts then waits for ever.
* `given_up` (accounts): a call has ended without its `am_commit`, because an entry
  was malformed or named an unknown account, or a file could not be opened.
* `spoiled` (files): cancelling a running upload does not stop its helper, and
  `txn_upload` looks at the length of a partial file before the transfer is in the table.
* `fresh` (connections): a list that a notice overtakes, that meets a user between his
  parting notice and his removal, or that goes to a user before his login, who gets no
  notices, stays wrong; the code makes no attempt to correct it.

`transfers_inturn` and `transfers_disorder` divide the transfer manager in the same way.
With clients that connect in turn and nobody who cancels, everything holds;
with cancellation and connections out of turn the code breaks `OnePlace` and
`SlotsCounted`, and the second run says what survives.

`MainGetsThread` speaks of a main thread that waits while some thread is out: a
reload that refills the pool of a server without threads does not wake it
(ThreadManager.c signals only when a thread is returned).

`LoadsWholeFile` and `UnsavedIsPending` are about threads: `Crash` makes whatever the
file holds the file the next start reads, so an account lost by a crash between
`fopen` and `fclose` is lost, and nothing in the code bounds that loss.

`NonePassedOver` does not say that all that one poll reported is delivered before the next, and it is not: `retfds`
goes down when a connection is delivered (Multiplexer.poll.c:162) and again when it is taken out of the table (117), so of two
connections reported together the second is left to the next poll. It is served in the end all the same (`WatchedIsServed`).

`QueuePositions` rests on `NewAddrs`: a purge may leave a freed transfer in the queue (TransferManager.c:698-717), and
were `malloc` to give out just that address, the new transfer would be queued there twice. The model has no such allocation.

`EveryCallEnds` supposes that poll keeps returning, because a registration waits for the poll, and a signal that comes before it is lost
(`MCMultiplexer_lost`). It supposes, too, that clients read what is written to them: `MCServerLocks_silent` shows
what one client that does not can hold up.

## 4. Departures the code shows

Further configurations, kept to be run by hand with
`tlc -config <cfg> <module>` (the module is the MC module that the configuration's name begins
with, or, where there is none, the module without the MC: `tlc -config MCRCL_exclusion.cfg RCL`); each but the last ends with a counterexample. The type invariant is an invariant
of several of them, too, and holds as far as they go.

| Configuration | Property | What the counterexample shows |
|---|---|---|
| MCRCL_exclusion | Exclusion | with spurious wakeups a writer meets a reader: `rc` is tested once (RCL.c:67) |
| MCTransferManager_outofturn | OutOfTurnIsStarted | TransferManager.c:74-76 says that a sequestered transfer which is not the first and is registered leaves the list and begins; the search ends at its own node (517), and the node after it is removed (526-527) |
| MCTransferManager_dropped | ConnectedNotDropped | a client that connects after the deadline has passed, and before the monitor has the lock, is dropped |
| MCTransferManager_purge | PurgeIsComplete | a user who leaves keeps transfers: the purge confuses uid and tid (698) |
| MCThreadPool_spawned | SpawnedWithinMaximum | more threads than `max_active_threads`, "Maximum number of threads to spawn" (doc/README.config) |
| MCCollection_lost | ImplementsDictionary | Collection.h:68 promises the pointer of a key that is in the table; two lookups under a shared read lock both move nodes, and one is lost |
| MCCollection_callback | BroadcastEnds | a traversal whose callback looks up its own key goes round for ever |
| MCMultiplexer_lost | AddEnds | a signal that arrives before `poll` begins is lost, and the registration waits for traffic |
| MCConnectionManager_nested | WriterGetsIn | RCL.h:16-18 says that a writer waits until the last reader has left; a broadcast reads `cm_lock` and reads it again for each user (ConnectionManager.c:405, 246), and waits for a writer that reserved in between, which waits for the first read |
| MCAccountManager_fallback | FallsBackOnEmptyFile | a helper empties the list between the reading of the file and the look at the list, and a passwordless administrator appears although the file holds accounts |
| MCAccountManager_held | LockGivenUp | an entry that names an unknown account returns with the accounts locked (transaction_handler.c:1287) |
| MCAccountManager_moved | AccountsInUseAreWhole | an account whose permissions a rename has taken out is met by another thread |
| MCServerLocks_silent | EveryCallEnds | a client that does not read stops, besides its own helper, whoever needs `tfm_lock`, the accounts or `cm_lock` |
| MCFiles_resumed | EveryPublishedIsWhole | a cancelled upload goes on writing to a file that another one empties and links |
| MCReload_path | PathIsWhole | `f_addpath` puts a path together of two base paths (fileops.c:163-167) |
| MCReload_address | AddressFollows | of two reloads the older values stay: `ch_init` has no lock |
| MCReload_description | DescriptionIsTold | the description is read and never kept (tracker.c:206), though doc/README.config:5 has it as "A short description of the server" |
| MCReload_ended | ListedAreToldAlways | after a file without trackers the thread ends, and its flag keeps another from being started (tracker.c:37) |
| MCServerLocks_anyone | OnlyKnownCycles, LocksTypeOK | holds: SIGHUP twice, in any thread (6.9 million states) |

Others are in the models as they are in the code and have no property of their own:
the renumbering loop that advances one variable and tests another
(TransferManager.c:600, the fault "endless_loop"); a cancelled transfer at the
head of the sequester list (611, "use_after_free"); the account that an entry deletes with the accounts locked
(transaction_handler.c:1283), for which its thread waits for itself; the number that a kick closes while the poll table still has
it (transaction_handler.c:1412); the second decrement of `retfds` (Multiplexer.poll.c:117). Some are data that the models leave out:
`cm_setval` copies four bytes into a 16-bit icon (ConnectionManager.c:200);
`uint32_t taskno < 0` is never true (Transaction.c:536), nor is `inet_addr(...) < 0` (tracker.c:58), so that
trackers are not found by name; a file whose last `write` is cut short by a full disk is linked all the same
(transfer_handler.c:176); `transaction_read` leaves the body of a transaction without
objects unread; a download that ends early keeps its file open (transfer_handler.c:239).

## 5. What is proved

**LockProofs**, about RCL: for any finite set of threads, from `ThreadsAssumption` only.

* `TypeCorrect`: the type invariant.
* `ReaderCount`: `rc` is the number of threads between the increment and the
  decrement. This is what makes the last reader the one that signals.
* `MutualExclusion`: `Exclusion`.
* `ReadersWait`: nobody is admitted to read while a writer has reserved.
* `Refinement`: `ImplementsRWLock`.

None of these is inductive alone. A writer goes in for one of two reasons: it saw
`rc = 0`, or it was woken. The first needs that `rc` counts the readers, whose set
changes under different mutexes than `rc_lock`'s owner, so the invariant
also says who holds which mutex at each control point (`LockInv`). The second needs that a
thread at "woken" was woken by the *last* reader and that no reader has entered
since: that holds because the writer has `entry_lock` all that time (`SignalInv`). The
inductive invariant is `IInv == TypeOK /\ LockInv /\ RcCountsReaders /\ SignalInv`. The
proof has one step for each action; that the count follows the set needs the library's
facts on cardinality. Spurious wakeups break `SignalInv`, which is exactly the
departure of MCRCL_exclusion.

**LockProofs**, about ServerLocks: for any helpers, any clients that submit accounts or do not read, and any number of signals, in any threads.

* `LocksAreOrdered`: `OnlyKnownCycles`. The order is `hlpasswd_lock`, then the five others, then `conf_rcl`, `cm_lock`
  and `mlock` (`Position`); nobody who has a lock waits for another at or before its place. The invariant `LocksInv` has to turn
  this from a statement about the text of the calls into one about any moment of them: what a thread has,
  it gives back somewhere in what is left of its call, or of the call that a signal interrupted (`Accounts`), and from
  here to there it waits only for what comes later (`Orderly`), so that the invariant of the rest
  follows from that of the whole (`StepDone`). That every call of the server is of this kind (`Call`) is proved
  from two lemmas, not by looking at its steps: calls in a row are a call (`CallsInARow`), and so is a section of a lock
  around a call that keeps clear of what that lock forbids (`Section`). Readers of one RCL do
  not wait for each other; what waits for them is `drain` or `write`, which therefore weighs more than to wait for the lock itself
  (`Weight`), as a reader's part does (`Level`). Along a circle the weights would rise for ever
  (`WaitsFurther`), and they are at most 7. The second read inside a broadcast is the one step with no such order; a
  reload inside a call begins again at the lowest lock, and a thread in `forgotten` gives `am_rcl` back nowhere: the three exceptions are
  where the argument breaks.

**TransferManagerProofs**, for any users, helpers, files, addresses, identifiers, limits and
environment.

* `SlotsAreUsed`: `NoIdleSlot`. Inductive only together with the types of the lists and
  counts (`Counters`), `queue_size = Len(q)`, because what leaves the queue is counted
  with the one and taken from the other, and `max_downloads = -1 => q = <<>>`, because
  an unlimited server must not have anyone waiting when a reload leaves the
  limit unset: this is `QueueInv`. Each way a slot is vacated (`ReleaseStep`), the limit is
  changed (`ReloadStep`) or a user is purged (`PurgeStep`) has a lemma, all
  resting on `OpeningsFill`: the loop in `monitor_add_from_queue`'s callers stops only when
  the queue is empty or the slots are full.
* `LimitIsKept`: `SlotsWithinLimit`, from the same invariant. It is about steps, because a
  reload may lower the limit below what is active, and passing a slot on then
  keeps the count where it is.

* `OneMonitor`: `MonitorWatches`, from the type of `seq` (`SeqInv`). Whatever puts a transfer on the
  list starts a monitor if it has none, and the one who takes off the last ends it: the
  proof goes through every caller of `monitor_add_from_queue`.
* `TidsAreDistinct`: `DistinctTids`. It needs the whole of the identifier manager: the list of
  free intervals stays ordered and within the range (`Ids`, from the lemmas of IDMProofs), so that
  what `idm_get` hands out was free, and what a destroyed transfer returns was no other's. That an
  identifier past the head is lost does no harm here.
* `PositionsAreRight`: `QueuePositions`. A transfer is in the queue once, its position is
  its index, and those outside have position 0 (`Places`). The queue is changed by taking a prefix
  (`MovedUp` renumbers the rest), the end (`tfm_add_download`) or one from the middle (cancellation, where the loop that
  ought to renumber is the endless one as soon as anyone is behind: then `fault` ends the behaviour).
* `ArrivalsWait`: `NoOvertaking`, from `NoIdleSlot`: whoever arrives at a queue finds the slots full.

These hold in the disordered environment, too: cancellation, purges and
connections out of turn included. The next four need `InTurn`: of what
`Environment` may hold, at most "reload". The code breaks `SlotsCounted` and `OnePlace` when users cancel or
connections come out of turn (section 4), and a spurious wakeup or a user who leaves breaks the others.

* `SlotsAreCounted`: `SlotsCounted`; `TransfersHaveOnePlace`: `OnePlace`; `HelpersRunTheirOwn`: `RightTransfer`;
  `FilesHaveOneWriter`: `OneWriterPerFile`. One invariant, `TurnInv`, carries all four. It says of each live transfer what the
  thread registered for it does (`ServedBy`): wait for its turn while the transfer is in a list; wait, outside the lists, with
  exactly one message; or run that very job with none. `Carries` is the converse: whoever runs, or has a
  message, is registered for a live transfer, so that by `DistinctTids` it has one only (`OneHelper`). The lists are disjoint
  and repeat nobody (`ListsInv`), and a monitor that has been signalled finds a data
  connection at the head. Finishing, dropping, starting and reloading are one step seen from here: k
  transfers leave the queue, at most one is destroyed, those that are registered are told
  (`Passes`, with `PassLists` for the lists, `StartStep` for the helpers and `PassCounts` for the
  slots). That a dropped transfer may have its connection already, and its helper then waits for
  ever, is allowed by the invariant, and is the departure of `transfers_dropped`. `fault = "none"`
  is part of the invariant: in this environment no freed transfer is followed and no loop runs on.

**ServerProofs**, about IDMUse: for any range of identifiers.

* `NotTakenTwice`: `NeverTakenTwice`; `OnlyOneLost`: `OnlyLostPastTheHead`. Both rest on `Ordered`: every free interval is
  non-empty and ends below the start of the next one. The lemma for `idm_return` splits on where the
  identifier falls: before, between, beside or behind the intervals, merging none, one or two of
  them, or in the place that IDM.c:91-116 does not look at. The place itself is the least index
  with a property, which the library's `WFMin` gives without an induction over the list.

**ServerProofs**, about Reload: for any threads, files and number of signals. Assumed are that the built-in configuration
has no trackers and every file its keys, each tracker once (`ConfigsAssumption`), and that "nobody" is no thread (`NoneAssumption`).

* `LastFileIsFollowed`: `SettingsFollow`. The threads that reload are told apart by their stage alone. For a manager m, either it has
  what the last file says and no thread is in its init function, or some thread is still to come to it, or is
  in it and has read nothing yet, or has read the first of its two values from the table that is in force now (`Refreshes`).
  A thread that loads a new file is itself such a thread for every manager, which is why the managers' being
  behind at that moment does no harm; a thread that has read from an older table is overtaken by the
  one that loaded the newer, and cannot write after it because it would have to have the lock (`HandInv`: who
  has a lock is in that manager's function, and who has read something there has it). The tracker is the
  same with a list that grows entry by entry (`ListBegun`). `ch_init` has no lock, and no such theorem (MCReload_address).

**ServerProofs**, about Files: for any helpers, names and length of files. Users name final names (`NamedAreFinal`, a hypothesis, as in the run: a client that renames onto a
`.hpf` puts a foreign file in the place of an upload).

* `UploadsPublishWholeFiles`: `PublishedIsWhole`. What makes a file whole is that its one writer has written everything before
  its position and nothing after it (`Sound`: the pieces have no holes, and reach the writer's position). That it is the one
  writer is not a fact about files: two helpers in the table have two names (`UploadInv`), a partial path leads to one file (`Apart`),
  and the writer of a file is the upload of its partial name, if the file still has it (`FileOK`). A file has both names
  only between `link` and `unlink` of its own upload (`Finishing`), so nobody resumes a published one. A file whose upload is
  cancelled is `spoiled` as soon as its helper goes on, and none of this is said of it.
* `ListingsAreComplete`: `ListsWhatStays`. The reply has room for the entries of the first pass, so the invariant keeps,
  for each lister, a set with as many members as that count in which everything lies that is in the folder or has been read
  (`Counted`): nothing that has not been created meanwhile can be beyond the room. The set is a witness, not part of the state.

**ServerProofs**, about Collection: for any number of callers, any finite set of keys and any array of bucket counts
whose largest has room for the keys at three a bucket. The hypothesis `Environment = {}` is the mutex, as in the run, which is how
TransferManager.c uses its table. Behind a shared lock the table loses nodes (MCCollection_lost).

* `Chains`: `ChainsSound`; `Traversals`: `VisitsAll`; `Promised`: `ImplementsDictionary`. A pointer structure is hard to speak
  of, so `TableInv` has a witness for it: the set M of the nodes in the chains and the place pos of each in its own
  (`Chained`: places in a chain are distinct and have no gap, each bucket points at place 0, each next at the place after, or
  at NULL behind the last). Everything then is about places: a push makes a node place 0 and moves its chain
  on (`NodeIn`, `PushIs`), a removal closes the gap (`NodeOut`, `TakenOutIs`), a rebuild takes the nodes over in the order of chains and
  places, one at a time, and is through with all of them after as many statements as there are chains and nodes
  (`MoveInv`, `EmptyingMoves`, `RebuildIs`).
  A lookup's o has not gone past its key (`Walking`), and n is the only node that points at o when o is
  taken out (`LeavingChain`), which is what fails with two readers. Between that and its return to the front the node is in
  no chain and still counted (`Moving`). A traversal has shown the chains before its bucket and
  the places before its node (`Shown`); one whose callback moves its node to the front goes on from there, and
  sees the chain again rather than miss any of it (`LookingUp`, `FrontShown`), which is why VisitsAll holds and BroadcastEnds does not.
  What a chain holds is then computed, not induced: `PathIs` says where a walk of j steps is, by the least
  counterexample, and `ContentsAre` that all walks together reach M, because there are not more places
  than keys (`PlacesAreFew`).

**MultiplexerProofs**, for any finite set of connections, any initial room and any width of `retfds`.

* `TypeCorrect`: `TypeOK`, with the fit of the table into its memory, for which the room must never be 0 (`Room`).
* `EachHasOneOwner`: `OneOwner`, kicks and failed handshakes included, up to the first number given out again that the
  table or a helper still has. The table and the state of the connections say the same (`Once`, `Watched`,
  `Listed`), and the descriptor in the main thread's hand is the one at the cursor (`AtCursor`), whose
  entry `multiplexer_remove` therefore takes out, and no other.
* `NoneIsPassedOver`: `NonePassedOver`. While the answer of one poll is being used up, the entries behind the cursor are
  done with (`Behind`), and ahead of it are at least as many reported ones as `retfds` still counts, or
  `poll` answered -1 and there is none (`Ahead`). Registrations add behind the last entry, removals take the one under the
  cursor and step back; halving and doubling keep the contents. That `retfds` counts fewer than lie ahead is allowed, and is what
  happens after each removal.

**AccountManagerProofs**, for any helpers, names, values and environment.

* `TypeCorrect`: `TypeOK`.
* `WholeFileLoaded`: `LoadsWholeFile`. Whoever has `hlpasswd_lock` is at a known point, and outside its
  sections the file is a whole one (`Mutex`).
* `NothingUnsaved`: `UnsavedIsPending`. Looking at the file does not do: while a helper is writing its copy, that the
  file still agrees with the accounts is worth nothing, for it is about to be replaced. `Saving`
  says for each name and each point of `am_init` and `am_commit` what the file or the copy on its way has to
  agree with, or that a helper is before its own copy (`Pending`). `OneEach`, that a name is once in the list and
  in every copy, is what makes removing and adding by name exact.

**ThreadPoolProofs**, for any finite set of threads, any limits and any environment.

* `EveryoneIsCounted`: `ActiveCounted`. `PooledAreIdle`: `PoolIsIdle`. The invariant gives every thread one place (`At`): in the
  pool, or in the hands of `ch_main`, with an empty queue; waiting with exactly one message in its
  queue; or at work with none, but for the message that starts a transfer. So the message that the main thread
  sends is the only one in that queue, and a thread that comes back was not in the pool. `Counted` moves the count with the
  one thread that a step moves. `PoolIsIdle` needs besides that a thread dies in the pool only
  of a wakeup without a message (`Alive`), which is the event it excludes.

**ConnectionManagerProofs**, for any descriptor numbers, clients and helpers.

* `ObjectsOutliveReaders`: `NoUseAfterFree`. A helper uses an object it looked up only while it reads `cm_lock`, so the
  invariant has to say, for each point of a call, how often its thread reads the lock (`ReadInv`: a
  broadcast reads it a second time for every user it writes to) and that a writer past "complete"
  has the lock to itself (`WriteInv`). What a reader has found is then still in the table
  (`FoundInv`), and the table has allocated objects only, each of them once (`TableInv`). A thread that has taken an
  object out of the table frees it after it has let go of the lock, so its object must be in nobody
  else's hands (`TakenInv`). That the main thread adds a new object rests on
  its own control (`MainInv`), that a removal names a user on the plan of the helper (`HelperInv`).
  There is a lemma for each action, and two for what an action leaves to the other threads
  (`Others`, `Elsewhere`). Kicks and failed handshakes are included: the theorem needs no word
  about who serves whom, and holds where `OwnConnection` does not, after a kick.
* `ServedAreOwn`: `OwnConnection`, up to the first kick or failed handshake. That no transaction begins under
  a number that another client has got meanwhile is no matter of locks, but of every call
  giving the number up last. The invariant says that a number is held by one thread at most, and never while the
  main thread watches it (`HoldInv`); that a plan ends with its only "watch" or "remove", of
  the thread's own user, and closes nothing besides (`PlanInv`); and that the table and the
  sockets agree (`TablesAgree`). The main thread holds a number before it is in the table, and a
  helper still after it has taken it out: between `cm_remove`'s unlock and its `close`, the number
  cannot be given out again, because the socket is still open.
* `ListsAddUp`: `ListsAgree`, up to the same point and with what `ServedAreOwn` found. Three things are said of every user
  u and client f that may trust its list (`ViewsInv`), and the same three of every list that is
  still being made and will count (`ListsInv`), for the users that the traversal has shown: either u is on it exactly if u can be listed,
  or some helper has u in hand (`Excused`: it sets u to LI, has still to tell f of that, or has u's
  parting notice or his removal before it); and from the moment that f has heard that u leaves, u is not on it (`Parted`). The
  last is what makes the removal itself, of which nobody hears, harmless. That it all fits depends on
  what a helper does next, which its last call determines (`ScriptInv`: `Left`), and on the
  states that the calls find (`StateInv`: who is announced is LI already, who is set to NR was NL).
  Most steps change nothing that a client or another helper could notice (`QuietKnow`, `OnwardKnow`);
  for the six that do, `LoudKnow` asks for each pair of users whether what f is to know is as it was, is owed, or was told (`Fine`).
  A notice has to be the only one about its user (`NoticedOnce`), which is `HoldInv` again. `NoneAssumption`
  says that the value for "no call yet" is not the name of a call.

Only model-checked:

* everything temporal with fairness (liveness), because the prover does not reach it.

The theorems of the library that give an induction over data take an operator, which the provers cannot instantiate. Where a
proof here needs such an argument, it is made by hand from the least counterexample (`Least`, from `WFMin`), for a function whose
recursion is one equation (`Among`, `Path`, and the rebuild of a table, with `Iterates` for the
existence of such a function and `Onward` for the argument itself).
The library's `SelectSeq` has no definition that the provers can expand, which is why `Among` is written out. No
module declares a RECURSIVE operator: chains, rebuilds and folds are recursive functions or library operators.

## 6. Bounds and fairness

| Run | Instance | Why it is enough |
|---|---|---|
| `rcl` | 5 threads | two writers that compete, a reader inside, one that leaves and one that arrives |
| `idm` | 9 identifiers | four separate intervals, and every position of a return before, between, beside and behind them |
| `transfers_inturn` | 1 user, 2 helpers, 1 upload file, 3 addresses, limits 1 and 2 with reloads | one running, one sequestered, one queued; limits lowered and raised under them |
| `transfers_disorder` | 1 user, 1 helper, 3 addresses, 3 identifiers, limits 2 and 3 | two in the sequester list and a third queued, with the identifiers used again |
| `pool` | 3 threads; inactive limit below and above the active one, active limit equal to the number of threads | both waits of `tm_get_thread`, a full pool, an empty one |
| `collection` | keys 0..4, 1 and 3 buckets | chains of three and more, both rebuilds, all orders of moves to the front |
| `multiplexer` | 3 connections, one of which may be kicked, initial size 1, 4-bit counts | one watched, one served, one registering; doubling and halving; a kick in each state of the one |
| `connections` | 2 descriptors, 3 clients, 2 helpers | a number used again while another is in use; a list made by one helper while the other announces or removes a user |
| `accounts` | 2 helpers, 2 names, 1 value, 1 entry a transaction | two commits that overtake each other, with a reload and a crash in between |
| `locks` | main thread, 2 helpers, one of whom submits accounts, one SIGHUP in the main thread | any two helpers' calls against the poll or a reload, with all the mutexes and RCLs: circles of one, two and three threads are in reach. `MCServerLocks_anyone` has two signals in any threads |
| `files` | 2 helpers, 2 names, files of 2 pieces | two uploads of one name, one of them resumed; a rename onto a name that is being linked; a listing over both |
| `reload` | 2 threads, 2 reloads, 3 files | each pair of files in each order, with the first reload anywhere when the second begins |

`Addrs` bounds the heap, `StrayBound` the unread messages of a helper, `FileSize` and `MaxEntries`
are smaller than in the code, `UIntMax` stands for 2^32 - 1, `Threads` of ThreadPool bounds the threads
alive at once. Client objects of ConnectionManager are used once each, so the
number of clients bounds a behaviour; that is why it ends, and why deadlock is not checked there.
Deadlock is also not checked where a fault stops the server (`transfers_disorder`,
`pool`), in `multiplexer`, which ends at `reused`, in `locks`, whose known circles stop it, and where a configuration looks for a violation; the other runs check it. `files` lists in one helper at a
time: a listing changes nothing that others see. `MaxHups` bounds the signals. In `files`, users name final
names in their transactions (`Named`), as clients do; `NamedAssumption` allows partial ones, too.

Symmetry is used in `connections` (descriptors, clients and helpers) and in `files` (helpers and names), which no
definition tells apart; these runs have no temporal property.

Fairness, always weak unless noted:

* `rcl`: a thread that is between the mutexes of a call, or inside the lock, goes
  on (`Inside`). Nobody need ask for the lock.
* transfers: the monitor goes on (its wait has a deadline); a helper that has its
  message takes it and its transfer ends, by itself or with its connection
  (transfer_handler.c reaches `tfm_remove` on every path). Clients need not connect, cancel or add.
* `pool`: main thread and helpers go on. That a transfer a helper waits for is started is not assumed: the monitor drops
  one whose client has connected too late (`MCTransferManager_dropped`), and nobody tells its helper.
* `collection`: a thread in a call goes on with it.
* `multiplexer`: main thread and helpers go on, up to `reused`. Clients need not send, leave or fail, and nobody need be kicked; that clients keep
  connecting is the hypothesis of `AddEndsUnderTraffic`.
* MCConnectionManager_nested: a thread in a call goes on, which makes the counterexample a real deadlock.
* `accounts`: each helper in a call goes on, and `am_init`; strong fairness on taking `hlpasswd_lock`,
  because reloads and other commits take it again and again, and a mutex that
  keeps coming free is had in the end.
* `locks`: strong fairness of every thread's steps but poll's return, of which nothing is assumed (that the main thread is
  not in poll for ever is the hypothesis of `EveryCallEnds`): a mutex or a lock that keeps coming free is had in the end.
  Nobody need begin a call, and SIGHUP need not arrive.
* `reload`: a reload goes on, and the tracker thread's sleep ends.

## 7. What is not modelled

* Transactions on the wire: how transaction_read takes a transaction apart, socketops.c's partial reads,
  transaction_factories.c and transaction_replies.c. A transaction is a choice of what it asks for, and
  is written in one step. What two helpers write to one client at once is not kept apart by any
  lock, and how much of it `writev` takes at a time is the system's.
* Config.c's parser and Permissions.c: a table of strings and bit tests.
* f_type (a table of extensions), file info, folder transfers (refused by the server), downloads, which only read,
  and the layout of replies.
* The multiplexers over select, /dev/poll and kqueue: built on other systems.
* The parsing of hlpasswd (256-byte lines, "(null)" as a real name) and log.c, output.c, xmalloc.c,
  password.c, util.c and the build scripts.
* Functions nobody calls: `rcl_destroy`, `idm_destroy`, `multiplexer_destroy`, `cm_shutdown`, `cm_iterate`,
  `mqueue_reply`, `tm_handle_crash`.

## 8. Plan

The order follows what a failure would cost. Done: the locks and their proofs; the transfer manager,
identifiers, thread pool, multiplexer, accounts and hash tables, with proofs; the connection manager with its user list and its proofs; the locks of
all managers together, with SIGHUP in the thread it interrupts; the shared files; reload and the tracker, the safety of all three proved as well.

1. Abstract specifications: a bounded FIFO server that TransferManager implements in turn; a bag of workers
   for ThreadPool; a watched set for Multiplexer.
2. Extend the model: Multiplexer and ConnectionManager composed, beyond the reuse of a number that is
   in the poll table; the reading of a transaction; the multiplexers over select, /dev/poll and
   kqueue as variants of one watched set.
