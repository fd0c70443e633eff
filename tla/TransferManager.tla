------------------------ MODULE TransferManager ------------------------
(* The transfer manager (src/TransferManager.c) with the threads that call  *)
(* it: the handlers of control connections, which add, cancel and purge     *)
(* transfers, the helper threads that carry data connections                *)
(* (src/helper_thread.c, src/transfer_handler.c), the monitor thread, and   *)
(* SIGHUP, which runs tfm_init again.                                       *)
(*                                                                          *)
(* Every function of the manager is one section of tfm_lock and so one      *)
(* action.  A call that returns early without a change is a stuttering step *)
(* and has no action.  Transfers live on a heap of addresses, because the   *)
(* code keeps pointers to transfers it has destroyed: following one, or a   *)
(* thread pointer that is NULL, or entering a loop that never ends with     *)
(* tfm_lock held, sets fault, and there the behaviour stops.                *)
EXTENDS Integers, Sequences, SequencesExt, FiniteSets, FiniteSetsExt, IDM

CONSTANTS
    Uids,           \* descriptors of control connections, which name users
    Helpers,        \* threads of the pool that may carry data connections
    NoHelper,
    Files, NoFile,  \* names of uploads
    Addrs,          \* bound: addresses of the transfers alive or pointed to
    StrayBound,     \* bound: messages a helper has not read when it registers
    Size,           \* idm_create(1, Size); 4096 in the code
    Limits,         \* what config_int_value may answer; -1 if not configured
    Environment     \* what users, the administrator and the scheduler may do

ASSUME TfmAssumption ==
    /\ Uids \subseteq Nat /\ IsFiniteSet(Addrs) /\ {Size, StrayBound} \subseteq Nat
    /\ Limits \subseteq Nat \cup {-1}
    /\ NoHelper \notin Helpers /\ NoFile \notin Files
    /\ Environment \subseteq {"cancel", "leave", "reload", "out_of_turn", "spurious_wakeup"}

VARIABLES
    transfer,       \* the heap of struct _Transfer
    ttbl,           \* the transfers in the table, which is keyed by tid
    q, seq,         \* download queue and sequester list
    queue_size, active_downloads, active_uploads,
    tfm_idm,
    queue_enable, max_downloads, max_uploads,
    monitor,        \* the monitor thread
    mail,           \* the message queue of each helper
    helper,         \* what each helper does
    users,          \* each control connection: "out", "in" or "leaving"
    cancelling,     \* tid a handler has checked in txn_xfer_cancel, or 0
    fault

limits == <<queue_enable, max_downloads, max_uploads>>
lists  == <<transfer, ttbl, q, seq, queue_size, active_downloads,
            active_uploads, tfm_idm, monitor, mail, fault>>
vars   == <<lists, limits, helper, users, cancelling>>

Freed == [tid |-> 0]
Live  == {a \in Addrs : transfer[a] # Freed}
Lookup(tid) == {a \in ttbl : transfer[a].tid = tid}
IsDownload(a) == transfer[a].type = "download"
Queued(a)     == IsDownload(a) /\ transfer[a].position > 0
First(a)      == seq # <<>> /\ Head(seq) = a

Init == /\ transfer = [a \in Addrs |-> Freed]
        /\ ttbl = {}
        /\ q = <<>> /\ seq = <<>>
        /\ queue_size = 0 /\ active_downloads = 0 /\ active_uploads = 0
        /\ tfm_idm = idm_create(1, Size)
        /\ queue_enable \in BOOLEAN
        /\ max_downloads \in Limits /\ max_uploads \in Limits
        /\ monitor = "none"
        /\ mail = [h \in Helpers |-> <<>>]
        /\ helper = [h \in Helpers |-> [at |-> "pool"]]
        /\ users = [u \in Uids |-> "in"]
        /\ cancelling = [u \in Uids |-> 0]
        /\ fault = "none"

Running == fault = "none"

Crash(why) == /\ fault' = why
              /\ UNCHANGED <<transfer, ttbl, q, seq, queue_size, active_downloads,
                             active_uploads, tfm_idm, monitor, mail>>
-----------------------------------------------------------------------------
(* monitor_add_from_queue, called k times: every queued transfer moves up   *)
(* by one at each call, and the first leaves the queue, to be started if a  *)
(* data connection is registered for it and to be sequestered if not.       *)
Registered(a)  == transfer[a].thread # NoHelper
Leaving(k)     == SubSeq(q, 1, k)

\* those of the list that are in the set, in the order of the list
Among(list, set) ==
    LET kept[i \in 0 .. Len(list)] ==
            IF i = 0 THEN <<>>
            ELSE IF list[i] \in set THEN Append(kept[i - 1], list[i]) ELSE kept[i - 1]
    IN kept[Len(list)]

\* mutant: transfers that leave the queue are not sequestered
SequesteredNobody(k) == <<>>

Sequestered(k) == Among(Leaving(k), {a \in Range(Leaving(k)) : ~Registered(a)})
Started(k)     == Among(Leaving(k), {a \in Range(Leaving(k)) : Registered(a)})

\* mutant: positions are not renumbered
MovedUpNobody(k) == transfer

MovedUp(k) == [a \in Addrs |->
                 IF k > 0 /\ a \in Range(q)
                 THEN [transfer[a] EXCEPT
                         !.position = @ - Min({k, CHOOSE i \in DOMAIN q : q[i] = a})]
                 ELSE transfer[a]]

\* activate_download, activate_upload: a TransferInfo to the thread's queue
Job(a) == [type |-> transfer[a].type, file |-> transfer[a].file]

\* mutants: the thread is not told; it is told twice
ActivatedNobody(as) == mail
ActivatedTwice(as) == [h \in Helpers |->
    LET his == Among(as, {a \in Range(as) : transfer[a].thread = h})
    IN mail[h] \o [i \in 1 .. 2 * Len(his) |-> Job(his[(i + 1) \div 2])]]

Activated(as) == [h \in Helpers |->
    LET his == Among(as, {a \in Range(as) : transfer[a].thread = h})
    IN mail[h] \o [i \in 1 .. Len(his) |-> Job(his[i])]]

\* mutant: no monitor thread is started
MonitorForNobody(list, added) == monitor

\* the first transfer to be sequestered brings a monitor thread with it
MonitorFor(list, added) ==
    IF list = <<>> /\ added # <<>> THEN "starting" ELSE monitor

\* monitor_add_from_queue visits the whole queue, destroyed transfers included
QueueBroken(k) == k > 0 /\ ~(Range(q) \subseteq Live)

\* mutant: a slot is never passed on
ClaimsNothing(a) == 0

\* the slot of a transfer is given to the queue if that has anyone in it
Claims(a) == IF IsDownload(a) /\ q # <<>> THEN 1 ELSE 0

\* mutant: a download gives up an upload's slot as well
ReleaseSlotTwice(a) ==
    /\ active_downloads' = active_downloads -
                             (IF IsDownload(a) THEN 1 - Claims(a) ELSE 0)
    /\ active_uploads' = active_uploads - 1

ReleaseSlot(a) ==
    /\ active_downloads' = active_downloads -
                             (IF IsDownload(a) THEN 1 - Claims(a) ELSE 0)
    /\ active_uploads' = active_uploads - (IF IsDownload(a) THEN 0 ELSE 1)

(* transfer_destroy *)
Destroyed(heap, a) == [heap EXCEPT ![a] = Freed]

\* mutant: open slots are left to whoever comes
OpeningsIgnored(max, active) == 0

\* "while(active_downloads < max_downloads && !monitor_add_from_queue())"
Openings(max, active) == Min({Len(q), Max({0, max - active})})
-----------------------------------------------------------------------------
(* tfm_init, on SIGHUP: the new limits, and the queue into any open slots.  *)
tfm_init(enable, down, up) ==
    /\ queue_enable' = enable
    /\ max_downloads' = IF down >= 0 THEN down ELSE max_downloads
    /\ max_uploads' = IF up >= 0 THEN up ELSE max_uploads
    /\ LET k == Openings(max_downloads', active_downloads) IN
       IF QueueBroken(k) THEN Crash("use_after_free")
       ELSE /\ active_downloads' = active_downloads + k
            /\ queue_size' = queue_size - k
            /\ q' = SubSeq(q, k + 1, Len(q))
            /\ seq' = seq \o Sequestered(k)
            /\ monitor' = MonitorFor(seq, Sequestered(k))
            /\ mail' = Activated(Started(k))
            /\ transfer' = MovedUp(k)
            /\ UNCHANGED <<ttbl, active_uploads, tfm_idm, fault>>

Reload == /\ Running /\ "reload" \in Environment
          /\ \E enable \in BOOLEAN, down, up \in Limits : tfm_init(enable, down, up)
          /\ UNCHANGED <<helper, users, cancelling>>

(* Addresses that malloc may give out.  It may also give out one that a purge *)
(* has freed and left in a list (TransferManager.c:698-717); a new transfer   *)
(* would be in that list twice.  The model leaves this case out.              *)
NewAddrs == Addrs \ (Live \cup Range(q) \cup Range(seq))

NewTransfer(u, type, file, position) ==
    [tid |-> idm_index(tfm_idm), uid |-> u, type |-> type, file |-> file,
     position |-> position, thread |-> NoHelper]

\* a connection's one handler is free; a kicked user's may still be running
Serving(u) == users[u] # "out" /\ cancelling[u] = 0

\* mutant: one too many
FullLate == max_downloads # -1 /\ active_downloads > max_downloads

\* "max_downloads != -1 && active_downloads >= max_downloads"
Full == max_downloads # -1 /\ active_downloads >= max_downloads

(* tfm_add_download: into the sequester list or, if all slots are taken and *)
(* queueing is on, at the end of the queue.                                 *)
tfm_add_download(u) ==
    LET a == CHOOSE free \in NewAddrs : TRUE
    IN /\ Running /\ Serving(u)
       /\ Full => queue_enable
       /\ tfm_idm # <<>> /\ NewAddrs # {}
       /\ tfm_idm' = idm_get(tfm_idm)
       /\ ttbl' = ttbl \cup {a}
       /\ transfer' = [transfer EXCEPT ![a] =
              NewTransfer(u, "download", NoFile, IF Full THEN queue_size + 1 ELSE 0)]
       /\ IF Full
          THEN /\ queue_size' = queue_size + 1
               /\ q' = Append(q, a)
               /\ UNCHANGED <<seq, monitor, active_downloads>>
          ELSE /\ monitor' = MonitorFor(seq, <<a>>)
               /\ seq' = Append(seq, a)
               /\ active_downloads' = active_downloads + 1
               /\ UNCHANGED <<queue_size, q>>
       /\ UNCHANGED <<active_uploads, mail, fault, limits, helper, users, cancelling>>

\* mutant: nobody looks
UploadingNever(file) == FALSE

\* upload_conflict_iterator, over the table
Uploading(file) == \E b \in ttbl : ~IsDownload(b) /\ transfer[b].file = file

(* tfm_add_upload: refused while an upload of that file is in the table.    *)
tfm_add_upload(u, file) ==
    LET a == CHOOSE free \in NewAddrs : TRUE
    IN /\ Running /\ Serving(u)
       /\ ~Uploading(file)
       /\ max_uploads = -1 \/ active_uploads < max_uploads
       /\ tfm_idm # <<>> /\ NewAddrs # {}
       /\ tfm_idm' = idm_get(tfm_idm)
       /\ ttbl' = ttbl \cup {a}
       /\ transfer' = [transfer EXCEPT ![a] = NewTransfer(u, "upload", file, 0)]
       /\ monitor' = MonitorFor(seq, <<a>>)
       /\ seq' = Append(seq, a)
       /\ active_uploads' = active_uploads + 1
       /\ UNCHANGED <<q, queue_size, active_downloads, mail, fault, limits, helper,
                      users, cancelling>>
-----------------------------------------------------------------------------
\* "for(c = seq_head; c->l != NULL && c->t != t; c = c->l)": c is the node of
\* t itself, or the last one; the node removed is the one after it
SearchSeq(a) == IF a \in Range(seq) THEN CHOOSE i \in DOMAIN seq : seq[i] = a
                                    ELSE Len(seq)

(* tfm_register, called by ht_data_connect for a helper that then waits for *)
(* its message (xfer_wait) or, on an error, goes back to the pool.          *)
tfm_register(h, a) ==
    LET c == SearchSeq(a)
        ret(at) == helper' = [helper EXCEPT ![h] =
                     IF at = "wait" THEN [at |-> at, tid |-> transfer[a].tid]
                                    ELSE [at |-> at]]
    IN /\ Running /\ helper[h].at = "pool" /\ Len(mail[h]) <= StrayBound
       /\ users[transfer[a].uid] # "out"        \* cm_getval, and the same IP
       /\ ~Registered(a)
       /\ transfer' = [transfer EXCEPT ![a].thread = h]
       /\ \/ /\ Queued(a)
             /\ ret("wait")
             /\ UNCHANGED <<seq, monitor, mail>>
          \/ /\ ~Queued(a) /\ First(a)
             /\ monitor' = IF monitor = "waiting" THEN "signalled" ELSE monitor
             /\ ret("wait")
             /\ UNCHANGED <<seq, mail>>
          \/ /\ ~Queued(a) /\ ~First(a) /\ c < Len(seq)
             /\ seq' = RemoveAt(seq, c + 1)
             /\ mail' = [mail EXCEPT ![h] = Append(@, Job(a))]
             /\ ret("wait")
             /\ UNCHANGED monitor
          \/ /\ ~Queued(a) /\ ~First(a) /\ c = Len(seq)
             /\ ret("pool")                     \* INTERNAL INCONSISTENCY
             /\ UNCHANGED <<seq, monitor, mail>>
       /\ UNCHANGED <<ttbl, q, queue_size, active_downloads, active_uploads,
                      tfm_idm, fault, limits, users, cancelling>>

\* in turn: while queued, or when every transfer sequestered earlier is gone
DataConnect(h) == \E a \in ttbl :
    /\ "out_of_turn" \in Environment \/ Queued(a) \/ First(a)
    /\ tfm_register(h, a)
-----------------------------------------------------------------------------
(* tfm_remove of a transfer that waits in the queue: unless it is alone     *)
(* there, the loop that renumbers the others never ends.                    *)
RemoveQueued(a) ==
    IF q # <<a>> THEN Crash("endless_loop")
    ELSE /\ q' = <<>>
         /\ queue_size' = queue_size - 1
         /\ transfer' = Destroyed(transfer, a)
         /\ tfm_idm' = idm_return(tfm_idm, transfer[a].tid)
         /\ ttbl' = ttbl \ {a}
         /\ UNCHANGED <<seq, active_downloads, active_uploads, monitor, mail, fault>>

\* the end of tfm_remove where the transfer gives up its slot
RemoveActive(a, list) ==
    LET k == Claims(a) IN
    IF QueueBroken(k) THEN Crash("use_after_free")
    ELSE /\ ReleaseSlot(a)
         /\ queue_size' = queue_size - k
         /\ q' = SubSeq(q, k + 1, Len(q))
         /\ seq' = list \o Sequestered(k)
         /\ monitor' = MonitorFor(list, Sequestered(k))
         /\ mail' = Activated(Started(k))
         /\ transfer' = Destroyed(MovedUp(k), a)
         /\ tfm_idm' = idm_return(tfm_idm, transfer[a].tid)
         /\ ttbl' = ttbl \ {a}
         /\ UNCHANGED fault

\* not found in the sequester list: destroyed, with its slot and its node kept
RemoveLostOne(a) ==
    /\ transfer' = Destroyed(transfer, a)
    /\ tfm_idm' = idm_return(tfm_idm, transfer[a].tid)
    /\ ttbl' = ttbl \ {a}
    /\ UNCHANGED <<q, seq, queue_size, active_downloads, active_uploads,
                   monitor, mail, fault>>

\* the first one sequestered is left to the monitor thread
LeaveToMonitor(a) ==
    /\ ttbl' = ttbl \ {a}
    /\ UNCHANGED <<transfer, q, seq, queue_size, active_downloads,
                   active_uploads, tfm_idm, monitor, mail, fault>>

(* tfm_remove *)
tfm_remove(tid) ==
    \/ Lookup(tid) = {} /\ UNCHANGED lists
    \/ \E a \in Lookup(tid) :
         \/ Registered(a) /\ RemoveActive(a, seq)
         \/ ~Registered(a) /\ Queued(a) /\ RemoveQueued(a)
         \/ /\ ~Registered(a) /\ ~Queued(a)
            /\ IF First(a)
               THEN LeaveToMonitor(a)
               ELSE IF SearchSeq(a) < Len(seq)
                    THEN RemoveActive(a, RemoveAt(seq, SearchSeq(a) + 1))
                    ELSE RemoveLostOne(a)
-----------------------------------------------------------------------------
(* A helper between xfer_wait and the tfm_remove that ends its transfer.    *)
Receive(h) == /\ Running /\ helper[h].at = "wait" /\ mail[h] # <<>>
              /\ helper' = [helper EXCEPT ![h] =
                             [at |-> "run", tid |-> @.tid, job |-> Head(mail[h])]]
              /\ mail' = [mail EXCEPT ![h] = Tail(@)]
              /\ UNCHANGED <<transfer, ttbl, q, seq, queue_size, active_downloads,
                             active_uploads, tfm_idm, monitor, fault, limits, users,
                             cancelling>>

\* xfer_upload and xfer_download end in tfm_remove on every path
Finish(h) == /\ Running /\ helper[h].at = "run"
             /\ tfm_remove(helper[h].tid)
             /\ helper' = [helper EXCEPT ![h] = [at |-> "pool"]]
             /\ UNCHANGED <<limits, users, cancelling>>

\* ht_exec drops an HT_UPLOAD or HT_DOWNLOAD that reaches a pooled thread
Stray(h) == /\ Running /\ helper[h].at = "pool" /\ mail[h] # <<>>
            /\ mail' = [mail EXCEPT ![h] = Tail(@)]
            /\ UNCHANGED <<transfer, ttbl, q, seq, queue_size, active_downloads,
                           active_uploads, tfm_idm, monitor, fault, limits, helper,
                           users, cancelling>>
\* mqueue_recv waits once: woken with no message it answers id 0, and xfer_wait
\* returns to the pool with its transfer still registered for the thread
WakeEarly(h) == /\ Running /\ "spurious_wakeup" \in Environment
                /\ helper[h].at = "wait" /\ mail[h] = <<>>
                /\ helper' = [helper EXCEPT ![h] = [at |-> "pool"]]
                /\ UNCHANGED <<lists, limits, users, cancelling>>
-----------------------------------------------------------------------------
(* monitor_thread.  pthread_cond_timedwait reads the deadline of the first  *)
(* transfer before it waits.                                                *)
MonitorStart ==
    /\ Running /\ monitor = "starting"
    /\ IF Head(seq) \in Live
       THEN monitor' = "waiting" /\ UNCHANGED fault
       ELSE fault' = "use_after_free" /\ UNCHANGED monitor
    /\ UNCHANGED <<transfer, ttbl, q, seq, queue_size, active_downloads,
                   active_uploads, tfm_idm, mail, limits, helper, users, cancelling>>

MonitorTimeout ==
    /\ Running /\ monitor = "waiting"
    /\ monitor' = "timed_out"
    /\ UNCHANGED <<transfer, ttbl, q, seq, queue_size, active_downloads,
                   active_uploads, tfm_idm, mail, fault, limits, helper, users,
                   cancelling>>

SpuriousWakeup ==
    /\ Running /\ "spurious_wakeup" \in Environment
    /\ monitor = "waiting"
    /\ monitor' = "signalled"
    /\ UNCHANGED <<transfer, ttbl, q, seq, queue_size, active_downloads,
                   active_uploads, tfm_idm, mail, fault, limits, helper, users,
                   cancelling>>

\* the rest of an iteration, and the next one as far as its wait
NextSequestered(rest, heap) ==
    /\ seq' = rest
    /\ transfer' = heap
    /\ monitor' = IF rest = <<>> THEN "none" ELSE "waiting"
    /\ fault' = IF rest # <<>> /\ heap[Head(rest)] = Freed
                THEN "use_after_free" ELSE "none"

Drop == LET a == Head(seq)
            k == Claims(a)
        IN /\ Running /\ monitor = "timed_out"
           /\ IF a \notin Live \/ QueueBroken(k) THEN Crash("use_after_free")
              ELSE /\ ReleaseSlot(a)
                   /\ ttbl' = ttbl \ {a}
                   /\ queue_size' = queue_size - k
                   /\ q' = SubSeq(q, k + 1, Len(q))
                   /\ mail' = Activated(Started(k))
                   /\ tfm_idm' = idm_return(tfm_idm, transfer[a].tid)
                   /\ NextSequestered(Tail(seq \o Sequestered(k)),
                                      Destroyed(MovedUp(k), a))
           /\ UNCHANGED <<limits, helper, users, cancelling>>

Begin == LET a == Head(seq)
         IN /\ Running /\ monitor = "signalled"
            /\ IF a \notin Live \/ ~Registered(a) THEN Crash("use_after_free")
               ELSE /\ mail' = Activated(<<a>>)
                    /\ NextSequestered(Tail(seq), transfer)
                    /\ UNCHANGED <<ttbl, q, queue_size, active_downloads,
                                   active_uploads, tfm_idm>>
            /\ UNCHANGED <<limits, helper, users, cancelling>>
-----------------------------------------------------------------------------
(* tfm_purge_uid: for the first transfer of the user, the table entry whose *)
(* tid equals the uid is destroyed, whoever owns it; for the others there   *)
(* is none left.  Then the queue moves into any open slots.                 *)
Owned(u) == {a \in ttbl : transfer[a].uid = u}

tfm_purge_uid(u) ==
    LET gone == IF Owned(u) = {} THEN {} ELSE Lookup(u)
        down == active_downloads - Cardinality({a \in gone : IsDownload(a) /\ ~Queued(a)})
        k    == Openings(max_downloads, down)
    IN IF k > 0 /\ ~(Range(q) \subseteq Live \ gone) THEN Crash("use_after_free")
       ELSE /\ active_downloads' = down + k
            /\ active_uploads' = active_uploads - Cardinality({a \in gone : ~IsDownload(a)})
            /\ ttbl' = ttbl \ gone
            /\ tfm_idm' = IF gone = {} THEN tfm_idm ELSE idm_return(tfm_idm, u)
            /\ transfer' = [a \in Addrs |-> IF a \in gone THEN Freed ELSE MovedUp(k)[a]]
            /\ queue_size' = queue_size - k
            /\ q' = SubSeq(q, k + 1, Len(q))
            /\ seq' = seq \o Sequestered(k)
            /\ monitor' = MonitorFor(seq, Sequestered(k))
            /\ mail' = Activated(Started(k))
            /\ UNCHANGED fault

\* the list of the user's transfers still holds the one just destroyed
PurgeReadsDestroyed(u) ==
    Cardinality(Owned(u)) > 1 /\ Lookup(u) \cap Owned(u) # {}

(* A user disconnects (ht_control_disconnect) or is kicked (txn_kick_user): *)
(* the transfers are purged, and later the connection is removed.           *)
Purge(u) == /\ Running /\ "leave" \in Environment
            /\ users[u] = "in"
            /\ users' = [users EXCEPT ![u] = "leaving"]
            /\ \/ tfm_purge_uid(u)
               \/ PurgeReadsDestroyed(u) /\ Crash("use_after_free")
            /\ UNCHANGED <<limits, helper, cancelling>>

Leave(u) == /\ Running /\ users[u] = "leaving" /\ cancelling[u] = 0
            /\ users' = [users EXCEPT ![u] = "out"]
            /\ UNCHANGED <<lists, limits, helper, cancelling>>

\* the kernel gives the descriptor to a new connection
Connect(u) == /\ Running /\ users[u] = "out"
              /\ users' = [users EXCEPT ![u] = "in"]
              /\ UNCHANGED <<lists, limits, helper, cancelling>>

(* txn_xfer_cancel: tfm_owner and tfm_remove are two sections of tfm_lock.  *)
CheckOwner(u) == /\ Running /\ "cancel" \in Environment
                 /\ Serving(u)
                 /\ \E a \in Owned(u) :
                      cancelling' = [cancelling EXCEPT ![u] = transfer[a].tid]
                 /\ UNCHANGED <<lists, limits, helper, users>>

Cancel(u) == /\ Running /\ cancelling[u] # 0
             /\ tfm_remove(cancelling[u])
             /\ cancelling' = [cancelling EXCEPT ![u] = 0]
             /\ UNCHANGED <<limits, helper, users>>
-----------------------------------------------------------------------------
User(u) == \/ tfm_add_download(u)
           \/ \E file \in Files : tfm_add_upload(u, file)
           \/ Purge(u) \/ Leave(u) \/ Connect(u)
           \/ CheckOwner(u) \/ Cancel(u)

Helper(h) == DataConnect(h) \/ Receive(h) \/ Finish(h) \/ Stray(h) \/ WakeEarly(h)

Monitor == MonitorStart \/ MonitorTimeout \/ SpuriousWakeup \/ Drop \/ Begin

Next == \/ \E u \in Uids : User(u)
        \/ \E h \in Helpers : Helper(h)
        \/ Monitor
        \/ Reload

Spec == Init /\ [][Next]_vars

\* deadlines pass, running threads run on, and every transfer that is running
\* ends: by itself, or because its peer or an error closes the connection
Fairness == /\ WF_vars(Monitor)
            /\ \A h \in Helpers : WF_vars(Receive(h) \/ Finish(h))

FairSpec == Spec /\ Fairness
-----------------------------------------------------------------------------
Transfers == [tid : 1 .. Size + 1, uid : Uids, type : {"download", "upload"},
              file : Files \cup {NoFile}, position : Nat,
              thread : Helpers \cup {NoHelper}]

(* The types of the manager's static variables and of its callers' states.  *)
TypeOK ==
    /\ transfer \in [Addrs -> Transfers \cup {Freed}]
    /\ ttbl \subseteq Live
    /\ q \in Seq(Addrs) /\ seq \in Seq(Addrs)
    /\ queue_size \in Nat /\ active_uploads \in Nat
    /\ active_downloads \in Int
    /\ queue_enable \in BOOLEAN
    /\ {max_downloads, max_uploads} \subseteq Limits
    /\ monitor \in {"none", "starting", "waiting", "signalled", "timed_out"}
    /\ DOMAIN mail = Helpers /\ DOMAIN helper = Helpers
    /\ users \in [Uids -> {"out", "in", "leaving"}]
    /\ cancelling \in [Uids -> 0 .. Size + 1]
    /\ fault \in {"none", "use_after_free", "endless_loop"}

(* A transfer's position is its place in the queue, queue_size its length,  *)
(* and a download outside the queue has position 0 (tfm_remove and          *)
(* tfm_register tell where a download is by its position alone), unless     *)
(* malloc gives out an address that a purge left in the queue (NewAddrs).   *)
QueuePositions ==
    fault = "none" =>
      /\ queue_size = Len(q)
      /\ \A i \in DOMAIN q : q[i] \in Live => transfer[q[i]].position = i
      /\ \A a \in Live \ Range(q) : transfer[a].position = 0

(* The identifiers of live transfers are distinct and none of them is free  *)
(* in tfm_idm, so each is found in ttbl under an identifier of its own.     *)
DistinctTids ==
    \A a, b \in Live : /\ transfer[a].tid \notin Free(tfm_idm)
                       /\ a # b => transfer[a].tid # transfer[b].tid

(* There is a monitor thread exactly while something is sequestered, so two *)
(* of them never share the list and none is missing.                        *)
MonitorWatches == (monitor = "none") <=> (seq = <<>>)

(* Downloads queue only behind full slots: each way a slot is vacated or    *)
(* the limit raised fills it from the queue in the same section.            *)
NoIdleSlot == fault = "none" /\ q # <<>> => active_downloads >= max_downloads

(* The counts of active transfers are the numbers of live transfers that    *)
(* hold a slot, whoever is to give it back.                                 *)
SlotsCounted ==
    /\ active_downloads = Cardinality({a \in Live : IsDownload(a) /\ ~Queued(a)})
    /\ active_uploads = Cardinality({a \in Live : ~IsDownload(a)})

(* A slot is taken only below the limit in force: passing a slot on, or     *)
(* lowering the limit, may leave more active but never adds one.            *)
SlotsWithinLimit ==
    [][ /\ active_downloads' > active_downloads /\ max_downloads' # -1
             => active_downloads' <= max_downloads'
        /\ active_uploads' > active_uploads /\ max_uploads' # -1
             => active_uploads' <= max_uploads' ]_vars

ArrivesBehind ==
    \A a \in Live' \ Live :
       IsDownload(a)' /\ ~Queued(a)' => q = <<>> \/ a \in Range(q)

(* No download gets a slot on arrival while others wait in the queue.       *)
NoOvertaking == [][ArrivesBehind]_vars

\* helpers carrying a transfer with this identifier, or about to
Carriers(tid) == {h \in Helpers : helper[h].at # "pool" /\ helper[h].tid = tid}

(* A live transfer is in exactly one place: the queue, the sequester list,  *)
(* or a helper that has been told to start it.                              *)
OnePlace ==
    \A a \in Live :
      LET inQueue == a \in Range(q)
          inSeq   == a \in Range(seq)
          told    == \E h \in Carriers(transfer[a].tid) :
                       helper[h].at = "run" \/ mail[h] # <<>>
      IN /\ ~(inQueue /\ inSeq) /\ ~(told /\ (inQueue \/ inSeq))
         /\ inQueue \/ inSeq \/ told

(* Two helpers never write the same file: an upload stays in ttbl, where    *)
(* tfm_add_upload looks, as long as a helper carries it.                    *)
OneWriterPerFile ==
    \A g, h \in Helpers :
      g # h /\ helper[g].at = "run" /\ helper[h].at = "run"
        => helper[g].job.type = "download" \/ helper[g].job.file # helper[h].job.file

(* A helper starts the very transfer whose identifier it registered, and    *)
(* once it is back in the pool no message tells it to start one             *)
(* (helper_thread.c:157-162).                                              *)
RightTransfer ==
    \A h \in Helpers :
      /\ helper[h].at = "pool" => mail[h] = <<>>
      /\ helper[h].at = "run" => \A a \in Lookup(helper[h].tid) :
            transfer[a].thread = h /\ Job(a) = helper[h].job

(* Whoever waits in the queue leaves it: every slot is released in the end, *)
(* by the monitor thread or by the helper that used it, and passed on.      *)
QueueMoves == \A a \in Addrs : a \in Range(q) ~> a \notin Range(q)

(* TransferManager.c:74-77: a sequestered transfer that is not the first    *)
(* and gets its data connection leaves the list, and its thread is told to  *)
(* start.                                                                   *)
OutOfTurnIsStarted ==
    [][ \A a \in Live, h \in Helpers :
          /\ a \in Range(seq) /\ ~First(a)
          /\ ~Registered(a) /\ transfer'[a].thread = h
          => a \notin Range(seq') /\ mail'[h] # <<>> ]_vars

(* TransferManager.c:43-46, 64-66: the monitor thread drops a transfer only *)
(* if no data connection was registered for it before the timeout.          *)
ConnectedNotDropped ==
    [][ \A a \in Live : First(a) /\ Registered(a) => a \in Live' ]_vars

(* TransferManager.c:674: the purge of a user leaves none of the transfers  *)
(* that belong to the user.                                                 *)
PurgeIsComplete ==
    [][ \A u \in Uids : users[u] = "in" /\ users'[u] = "leaving"
          => Owned(u)' = {} ]_vars
=============================================================================
