------------------------------ MODULE RCL ------------------------------
(* Resource control locks (src/RCL.c): a reader/writer lock built from two  *)
(* mutexes, a condition variable and a reader count.                        *)
(*                                                                          *)
(* One step per mutex operation, except that a section of rc_lock which     *)
(* does nothing but touch rc is one step: it is enabled while rc_lock is    *)
(* free, and nobody can observe its middle.  Threads call the functions in  *)
(* the order their users do; re-entering a lock is the business of          *)
(* ConnectionManager.tla.                                                   *)
EXTENDS Integers, FiniteSets

CONSTANTS Threads, NoThread

ASSUME ThreadsAssumption == /\ IsFiniteSet(Threads)
                            /\ NoThread \notin Threads

VARIABLES
    entry_lock,     \* the thread that holds entry_lock, or NoThread
    rc_lock,        \* the thread that holds rc_lock, or NoThread
    rc,             \* the count of readers
    pc              \* where each thread is in its calls on the lock

vars == <<entry_lock, rc_lock, rc, pc>>

Init == /\ entry_lock = NoThread
        /\ rc_lock = NoThread
        /\ rc = 0
        /\ pc = [t \in Threads |-> "idle"]

\* threads blocked in pthread_cond_wait(&rcl->rc_cond, ...)
Waiters == {t \in Threads : pc[t] = "waiting"}

Go(t, from, to) == /\ pc[t] = from
                   /\ pc' = [pc EXCEPT ![t] = to]

\* mutant: a reader does not mind that entry_lock is held
ReadLockEntryUnguarded(t) == /\ Go(t, "idle", "read_entered")
                             /\ entry_lock' = t
                             /\ UNCHANGED <<rc_lock, rc>>

(* rcl_read_lock *)
ReadLockEntry(t) == /\ Go(t, "idle", "read_entered")
                    /\ entry_lock = NoThread
                    /\ entry_lock' = t
                    /\ UNCHANGED <<rc_lock, rc>>

ReadLockCount(t) == /\ Go(t, "read_entered", "read_counted")
                    /\ rc_lock = NoThread
                    /\ rc' = rc + 1
                    /\ UNCHANGED <<entry_lock, rc_lock>>

ReadLockLeave(t) == /\ Go(t, "read_counted", "reading")
                    /\ entry_lock' = NoThread
                    /\ UNCHANGED <<rc_lock, rc>>

\* mutant: the last reader does not signal
ReadUnlockSilent(t) == /\ Go(t, "reading", "idle")
                       /\ rc_lock = NoThread
                       /\ rc' = rc - 1
                       /\ UNCHANGED <<entry_lock, rc_lock>>

(* rcl_read_unlock: the last reader signals, which wakes a waiter if there is one *)
ReadUnlock(t) == /\ pc[t] = "reading"
                 /\ rc_lock = NoThread
                 /\ rc' = rc - 1
                 /\ IF rc' = 0 /\ Waiters # {}
                    THEN \E w \in Waiters :
                           pc' = [pc EXCEPT ![t] = "idle", ![w] = "woken"]
                    ELSE pc' = [pc EXCEPT ![t] = "idle"]
                 /\ UNCHANGED <<entry_lock, rc_lock>>

(* rcl_write_reserve_lock *)
WriteReserve(t) == /\ Go(t, "idle", "reserved")
                   /\ entry_lock = NoThread
                   /\ entry_lock' = t
                   /\ UNCHANGED <<rc_lock, rc>>

\* mutant: rc is not tested
WriteCompleteUntested(t) == /\ rc_lock = NoThread
                            /\ Go(t, "reserved", "writing")
                            /\ rc_lock' = t
                            /\ UNCHANGED <<entry_lock, rc>>

(* rcl_write_complete_lock: one test of rc; the wait gives rc_lock back *)
WriteComplete(t) == /\ rc_lock = NoThread
                    /\ \/ /\ rc > 0
                          /\ Go(t, "reserved", "waiting")
                          /\ UNCHANGED rc_lock
                       \/ /\ rc = 0
                          /\ Go(t, "reserved", "writing")
                          /\ rc_lock' = t
                    /\ UNCHANGED <<entry_lock, rc>>

\* pthread_cond_wait returns with rc_lock held again, and rc is not re-read
WriteWoken(t) == /\ Go(t, "woken", "writing")
                 /\ rc_lock = NoThread
                 /\ rc_lock' = t
                 /\ UNCHANGED <<entry_lock, rc>>

(* rcl_write_unlock *)
WriteUnlockRc(t) == /\ Go(t, "writing", "write_leaving")
                    /\ rc_lock' = NoThread
                    /\ UNCHANGED <<entry_lock, rc>>

WriteUnlockEntry(t) == /\ Go(t, "write_leaving", "idle")
                       /\ entry_lock' = NoThread
                       /\ UNCHANGED <<rc_lock, rc>>

\* steps of a thread inside a call, or inside the section the lock protects
Inside(t) == \/ ReadLockCount(t) \/ ReadLockLeave(t) \/ ReadUnlock(t)
             \/ WriteComplete(t) \/ WriteWoken(t)
             \/ WriteUnlockRc(t) \/ WriteUnlockEntry(t)

Next == \E t \in Threads : ReadLockEntry(t) \/ WriteReserve(t) \/ Inside(t)

Spec == Init /\ [][Next]_vars

\* a thread that holds something keeps running; nobody is obliged to call
Fairness == \A t \in Threads : WF_vars(Inside(t))
FairSpec == Spec /\ Fairness

\* POSIX lets pthread_cond_wait return although nobody signalled
SpuriousWakeup(t) == /\ Go(t, "waiting", "woken")
                     /\ UNCHANGED <<entry_lock, rc_lock, rc>>

SpuriousSpec ==
    Init /\ [][Next \/ \E t \in Threads : SpuriousWakeup(t)]_vars /\ Fairness
-----------------------------------------------------------------------------
PCs == {"idle", "read_entered", "read_counted", "reading", "reserved",
        "waiting", "woken", "writing", "write_leaving"}

(* The types of the four fields of struct _RCL and of the control points.   *)
TypeOK == /\ entry_lock \in Threads \cup {NoThread}
          /\ rc_lock \in Threads \cup {NoThread}
          /\ rc \in Nat
          /\ pc \in [Threads -> PCs]

At(S) == {t \in Threads : pc[t] \in S}

Readers == At({"read_counted", "reading"})

(* RCL.h:18-20: no read operation occurs during a write operation, and      *)
(* writers exclude each other.  rcl_write_complete_lock tests rc once.      *)
Exclusion == \A w \in At({"writing"}) : \A t \in Threads \ {w} :
                pc[t] \notin {"reading", "read_counted", "writing"}

(* rc is the number of threads between the increment in rcl_read_lock and   *)
(* the decrement in rcl_read_unlock, so that the last of them is the one    *)
(* that signals.                                                            *)
RcCountsReaders == rc = Cardinality(Readers)

(* RCL.h:16-17: from the moment a writer has reserved the lock until it     *)
(* lets go, no thread is admitted to read.                                  *)
NoReaderPassesAWriter ==
    [][ At({"reserved", "waiting", "woken", "writing", "write_leaving"}) # {}
          => At({"read_counted", "reading"})' \subseteq Readers ]_vars

(* RCL.h:17-19: a writer that has reserved the lock gets it once the last   *)
(* reader has called rcl_read_unlock: the signal is never lost between the  *)
(* test of rc and the wait.                                                 *)
WriterGetsIn == \A t \in Threads : pc[t] = "reserved" ~> pc[t] = "writing"

(* The lock implements the abstract reader/writer lock: a read is granted   *)
(* at rc++, a reservation with entry_lock, a write with rc_lock.            *)
Grant(p) == CASE p \in {"idle", "read_entered"}             -> "out"
              [] p \in {"read_counted", "reading"}          -> "read"
              [] p \in {"reserved", "waiting", "woken"}     -> "reserved"
              [] p \in {"writing", "write_leaving"}         -> "write"

grant == [t \in Threads |-> Grant(pc[t])]

Abstract == INSTANCE RWLock WITH status <- grant

ImplementsRWLock == Abstract!Spec
=============================================================================
