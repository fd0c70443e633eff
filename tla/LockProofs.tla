----------------------------- MODULE LockProofs -----------------------------
(* The theorems about locks: about one readers-writer lock (RCL), for any      *)
(* finite set of threads, and about the locks of all managers together         *)
(* (ServerLocks), for any helpers.  The two modules share no variable.         *)
EXTENDS RCL, ServerLocks, SequenceTheorems, FiniteSetTheorems, TLAPS

-----------------------------------------------------------------------------
(* RCL.  The inductive invariant says who holds each mutex at each control     *)
(* point, that rc counts the readers, and - the part exclusion rests on - that *)
(* no reader is left once the waiting writer has been signalled.               *)

HoldsEntry == {"read_entered", "read_counted", "reserved", "waiting",
               "woken", "writing", "write_leaving"}

LockInv == \A t \in Threads : /\ (pc[t] \in HoldsEntry) <=> (entry_lock = t)
                              /\ (pc[t] = "writing") <=> (rc_lock = t)

SignalInv == At({"woken", "writing"}) # {} => Readers = {}

IInv == TypeOK /\ LockInv /\ RcCountsReaders /\ SignalInv
-----------------------------------------------------------------------------
(* The readers are finitely many, and there are rc = 0 of them just when    *)
(* there is none.                                                           *)
LEMMA ReadersFinite ==
    /\ IsFiniteSet(Readers) /\ Cardinality(Readers) \in Nat
    /\ Cardinality(Readers) = 0 <=> Readers = {}
<1>1. Readers \subseteq Threads
  BY DEF Readers, At
<1>2. IsFiniteSet(Readers)
  BY <1>1, FS_Subset, ThreadsAssumption
<1> QED
  BY <1>2, FS_CardinalityType, FS_EmptySet

LEMMA InitIInv == Init => IInv
<1> SUFFICES ASSUME Init PROVE IInv
  OBVIOUS
<1>1. Readers = {}
  BY DEF Init, Readers, At
<1>2. TypeOK
  BY DEF Init, TypeOK, PCs
<1>3. LockInv
  BY ThreadsAssumption DEF Init, LockInv, HoldsEntry
<1>4. RcCountsReaders
  BY <1>1, FS_EmptySet DEF Init, RcCountsReaders
<1>5. SignalInv
  BY <1>1 DEF SignalInv
<1> QED
  BY <1>2, <1>3, <1>4, <1>5 DEF IInv

(* A thread that takes entry_lock, or gives it back, leaves the readers as  *)
(* they are.                                                                *)
LEMMA EntrySteps ==
    ASSUME IInv, NEW t \in Threads,
           ReadLockEntry(t) \/ WriteReserve(t) \/ ReadLockLeave(t)
             \/ WriteUnlockEntry(t)
    PROVE  IInv' /\ Readers' = Readers
<1> USE DEF ReadLockEntry, WriteReserve, ReadLockLeave, WriteUnlockEntry, Go
<1>1. TypeOK'
  BY DEF IInv, TypeOK, PCs
<1>2. LockInv'
  BY ThreadsAssumption DEF IInv, TypeOK, LockInv, HoldsEntry
<1>3. Readers' = Readers
  BY DEF IInv, TypeOK, Readers, At
<1>4. RcCountsReaders'
  BY <1>3 DEF IInv, RcCountsReaders
<1>5. SignalInv'
  BY <1>3 DEF IInv, TypeOK, SignalInv, At
<1> QED
  BY <1>1, <1>2, <1>3, <1>4, <1>5 DEF IInv

(* rcl_read_lock, rc++: the thread that counts itself holds entry_lock, so  *)
(* no writer has been signalled.                                            *)
LEMMA CountStep ==
    ASSUME IInv, NEW t \in Threads, ReadLockCount(t)
    PROVE  IInv' /\ Readers' = Readers \cup {t}
<1> USE DEF ReadLockCount, Go
<1>1. /\ t \notin Readers
      /\ Readers' = Readers \cup {t}
  BY DEF IInv, TypeOK, Readers, At
<1>2. rc' = Cardinality(Readers')
  BY <1>1, ReadersFinite, FS_AddElement DEF IInv, RcCountsReaders
<1>3. TypeOK'
  BY DEF IInv, TypeOK, PCs
<1>4. LockInv'
  BY DEF IInv, TypeOK, LockInv, HoldsEntry
<1>5. At({"woken", "writing"})' = {}
  BY DEF IInv, TypeOK, LockInv, HoldsEntry, At
<1> QED
  BY <1>1, <1>2, <1>3, <1>4, <1>5 DEF IInv, RcCountsReaders, SignalInv

(* rcl_read_unlock: the writer is signalled by the last reader only.        *)
LEMMA UnlockStep ==
    ASSUME IInv, NEW t \in Threads, ReadUnlock(t)
    PROVE  IInv' /\ Readers' = Readers \ {t}
<1> USE DEF ReadUnlock, Waiters
<1>0. /\ pc[t] = "reading"
      /\ rc \in Nat
      /\ pc \in [Threads -> PCs]
  BY DEF IInv, TypeOK
<1>1. /\ t \in Readers
      /\ Readers' = Readers \ {t}
  BY <1>0 DEF Readers, At
<1>2. Cardinality(Readers \ {t}) = Cardinality(Readers) - 1
  BY <1>1, ReadersFinite, FS_RemoveElement
<1>3. rc' = Cardinality(Readers')
  BY <1>1, <1>2 DEF IInv, RcCountsReaders
<1>4. rc' \in Nat /\ (rc' = 0 <=> Readers' = {})
  <2>1. IsFiniteSet(Readers')
    BY <1>1, ReadersFinite, FS_RemoveElement
  <2>2. Cardinality(Readers') \in Nat /\ (Cardinality(Readers') = 0 <=> Readers' = {})
    BY <2>1, FS_CardinalityType, FS_EmptySet
  <2> QED
    BY <2>2, <1>3
<1>5. TypeOK'
  BY <1>0, <1>4 DEF IInv, TypeOK, PCs
<1>6. LockInv'
  BY <1>0 DEF IInv, TypeOK, LockInv, HoldsEntry
<1>7. SignalInv'
  <2>1. CASE rc' = 0
    BY <2>1, <1>4 DEF SignalInv
  <2>2. CASE rc' # 0
    <3>1. pc' = [pc EXCEPT ![t] = "idle"]
      BY <2>2
    <3>2. At({"woken", "writing"})' = {}
      BY <3>1, <1>0, <1>1 DEF IInv, SignalInv, At
    <3> QED
      BY <3>2 DEF SignalInv
  <2> QED
    BY <2>1, <2>2
<1> QED
  BY <1>1, <1>3, <1>5, <1>6, <1>7 DEF IInv, RcCountsReaders

(* rcl_write_complete_lock and the release of rc_lock.                      *)
LEMMA WriterSteps ==
    ASSUME IInv, NEW t \in Threads,
           WriteComplete(t) \/ WriteWoken(t) \/ WriteUnlockRc(t)
    PROVE  IInv' /\ Readers' = Readers
<1> USE DEF WriteComplete, WriteWoken, WriteUnlockRc, Go
<1>1. TypeOK'
  BY DEF IInv, TypeOK, PCs
<1>2. LockInv'
  BY ThreadsAssumption DEF IInv, TypeOK, LockInv, HoldsEntry
<1>3. Readers' = Readers
  BY DEF IInv, TypeOK, Readers, At
<1>4. RcCountsReaders'
  BY <1>3 DEF IInv, RcCountsReaders
<1>5. SignalInv'
  <2>1. CASE WriteComplete(t)
    <3>1. CASE rc = 0
      BY <3>1, <1>3, ReadersFinite DEF IInv, RcCountsReaders, SignalInv
    <3>2. CASE rc # 0
      BY <2>1, <3>2, <1>3 DEF IInv, TypeOK, SignalInv, At
    <3> QED
      BY <3>1, <3>2
  <2>2. CASE WriteWoken(t) \/ WriteUnlockRc(t)
    BY <2>2, <1>3 DEF IInv, TypeOK, SignalInv, At
  <2> QED
    BY <2>1, <2>2
<1> QED
  BY <1>1, <1>2, <1>3, <1>4, <1>5 DEF IInv

LEMMA NextIInv == IInv /\ [Next]_vars => IInv'
<1> SUFFICES ASSUME IInv, [Next]_vars PROVE IInv'
  OBVIOUS
<1>1. CASE UNCHANGED vars
  BY <1>1 DEF vars, IInv, TypeOK, LockInv, HoldsEntry, RcCountsReaders,
              SignalInv, Readers, At
<1>2. CASE Next
  <2>1. PICK t \in Threads :
          ReadLockEntry(t) \/ WriteReserve(t) \/ Inside(t)
    BY <1>2 DEF Next
  <2> QED
    BY <2>1, EntrySteps, CountStep, UnlockStep, WriterSteps DEF Inside
<1> QED
  BY <1>1, <1>2

LEMMA Inductive == Spec => []IInv
<1> QED
  BY InitIInv, NextIInv, PTL DEF Spec
-----------------------------------------------------------------------------
(* The fields of struct _RCL keep their types; rc, an unsigned int in the   *)
(* code, never goes below zero.                                             *)
THEOREM TypeCorrect == Spec => []TypeOK
<1>1. IInv => TypeOK
  BY DEF IInv
<1> QED
  BY <1>1, Inductive, PTL

(* Without spurious wakeups a single test of rc is enough: whoever writes   *)
(* is alone.                                                                *)
THEOREM MutualExclusion == Spec => []Exclusion
<1>1. IInv => Exclusion
  BY DEF IInv, SignalInv, Readers, At, LockInv, Exclusion
<1> QED
  BY <1>1, Inductive, PTL

(* rc is the number of readers at every step.                               *)
THEOREM ReaderCount == Spec => []RcCountsReaders
<1>1. IInv => RcCountsReaders
  BY DEF IInv
<1> QED
  BY <1>1, Inductive, PTL

(* No step lets a reader in while a writer has the lock or waits for it.    *)
THEOREM ReadersWait == Spec => NoReaderPassesAWriter
<1> DEFINE Pending == At({"reserved", "waiting", "woken", "writing", "write_leaving"})
<1>1. ASSUME IInv, [Next]_vars, Pending # {}
      PROVE  Readers' \subseteq Readers
  <2>1. CASE UNCHANGED vars
    BY <2>1 DEF vars, Readers, At
  <2>2. ASSUME NEW t \in Threads, ReadLockCount(t)
        PROVE  FALSE
    BY <1>1, <2>2 DEF ReadLockCount, Go, IInv, LockInv, HoldsEntry, At
  <2>3. CASE Next
    <3>1. PICK t \in Threads :
            ReadLockEntry(t) \/ WriteReserve(t) \/ Inside(t)
      BY <2>3 DEF Next
    <3> QED
      BY <1>1, <2>2, <3>1, EntrySteps, UnlockStep, WriterSteps DEF Inside
  <2> QED
    BY <1>1, <2>1, <2>3
<1>2. IInv /\ [Next]_vars
        => [Pending # {} => At({"read_counted", "reading"})' \subseteq Readers]_vars
  BY <1>1 DEF Readers
<1> QED
  BY <1>2, Inductive, PTL DEF Spec, NoReaderPassesAWriter

LEMMA GrantOf ==
    /\ Grant("idle") = "out" /\ Grant("read_entered") = "out"
    /\ Grant("read_counted") = "read" /\ Grant("reading") = "read"
    /\ Grant("reserved") = "reserved" /\ Grant("waiting") = "reserved"
    /\ Grant("woken") = "reserved"
    /\ Grant("writing") = "write" /\ Grant("write_leaving") = "write"
BY DEF Grant

(* A thread that goes from p to q moves from the grant of p to that of q.   *)
LEMMA GrantMoves ==
    ASSUME TypeOK, NEW t \in Threads, NEW p, NEW q, Go(t, p, q)
    PROVE  /\ Abstract!Move(t, Grant(p), Grant(q))
           /\ Grant(p) = Grant(q) => grant' = grant
BY DEF TypeOK, grant, Go, Abstract!Move

(* The lock of mutexes, a count and a condition variable implements the     *)
(* reader/writer lock the rest of the server relies on.                     *)
THEOREM Refinement == Spec => ImplementsRWLock
<1>1. Init => Abstract!Init
  BY GrantOf DEF Init, Abstract!Init, grant
<1>2. ASSUME IInv, [Next]_vars
      PROVE  [Abstract!Next]_grant
  <2>0. TypeOK /\ LockInv /\ SignalInv
    BY <1>2 DEF IInv
  <2>a. \A t \in Threads : grant[t] = Grant(pc[t]) /\ pc[t] \in PCs
    BY <2>0 DEF grant, TypeOK
  <2>b. ASSUME \A u \in Threads : pc[u] \notin
                 {"reserved", "waiting", "woken", "writing", "write_leaving"}
        PROVE  Abstract!Having({"reserved", "write"}) = {}
    BY <2>a, <2>b, GrantOf DEF Abstract!Having, PCs
  <2>c. ASSUME Readers = {}
        PROVE  Abstract!Having({"read"}) = {}
    BY <2>a, <2>c, GrantOf DEF Abstract!Having, PCs, Readers, At
  <2>1. CASE UNCHANGED vars
    BY <2>1 DEF vars, grant
  <2>2. ASSUME NEW t \in Threads,
               ReadLockEntry(t) \/ ReadLockLeave(t) \/ WriteUnlockRc(t)
        PROVE  grant' = grant
    BY <2>0, <2>2, GrantMoves, GrantOf DEF ReadLockEntry, ReadLockLeave, WriteUnlockRc
  <2>3. ASSUME NEW t \in Threads, ReadLockCount(t)
        PROVE  Abstract!ReadLock(t)
    <3>1. \A u \in Threads : pc[u] \notin
            {"reserved", "waiting", "woken", "writing", "write_leaving"}
      BY <2>0, <2>3 DEF ReadLockCount, Go, LockInv, HoldsEntry
    <3>2. Abstract!Move(t, "out", "read")
      BY <2>0, <2>3, GrantMoves, GrantOf DEF ReadLockCount
    <3> QED
      BY <2>b, <3>1, <3>2 DEF Abstract!ReadLock
  <2>4. ASSUME NEW t \in Threads, ReadUnlock(t)
        PROVE  Abstract!ReadUnlock(t)
    <3>1. grant[t] = "read"
      BY <2>a, <2>4, GrantOf DEF ReadUnlock
    <3>2. \A u \in Threads \ {t} :
             pc'[u] = pc[u] \/ (pc[u] = "waiting" /\ pc'[u] = "woken")
      BY <2>0, <2>4 DEF ReadUnlock, Waiters, TypeOK
    <3>3. pc'[t] = "idle"
      BY <2>0, <2>4 DEF ReadUnlock, Waiters, TypeOK
    <3>4. \A u \in Threads : Grant(pc'[u]) = IF u = t THEN "out" ELSE Grant(pc[u])
      BY <3>2, <3>3, GrantOf
    <3>5. grant' = [grant EXCEPT ![t] = "out"]
      BY <3>4 DEF grant
    <3> QED
      BY <3>1, <3>5 DEF Abstract!ReadUnlock, Abstract!Move
  <2>5. ASSUME NEW t \in Threads, WriteReserve(t)
        PROVE  Abstract!Reserve(t)
    <3>1. \A u \in Threads : pc[u] \notin
            {"reserved", "waiting", "woken", "writing", "write_leaving"}
      BY <2>0, <2>5, ThreadsAssumption DEF WriteReserve, LockInv, HoldsEntry
    <3>2. Abstract!Move(t, "out", "reserved")
      BY <2>0, <2>5, GrantMoves, GrantOf DEF WriteReserve
    <3> QED
      BY <2>b, <3>1, <3>2 DEF Abstract!Reserve
  <2>6. ASSUME NEW t \in Threads, WriteComplete(t)
        PROVE  Abstract!Complete(t) \/ grant' = grant
    <3>1. CASE rc = 0
      <4>1. Readers = {}
        BY <1>2, <3>1, ReadersFinite DEF IInv, RcCountsReaders
      <4>2. Abstract!Move(t, "reserved", "write")
        BY <2>0, <2>6, <3>1, GrantMoves, GrantOf DEF WriteComplete
      <4> QED
        BY <2>c, <4>1, <4>2 DEF Abstract!Complete
    <3>2. CASE rc # 0
      BY <2>0, <2>6, <3>2, GrantMoves, GrantOf DEF WriteComplete
    <3> QED
      BY <3>1, <3>2
  <2>7. ASSUME NEW t \in Threads, WriteWoken(t)
        PROVE  Abstract!Complete(t)
    <3>1. Readers = {}
      BY <2>0, <2>7 DEF WriteWoken, Go, SignalInv, At
    <3>2. Abstract!Move(t, "reserved", "write")
      BY <2>0, <2>7, GrantMoves, GrantOf DEF WriteWoken
    <3> QED
      BY <2>c, <3>1, <3>2 DEF Abstract!Complete
  <2>8. ASSUME NEW t \in Threads, WriteUnlockEntry(t)
        PROVE  Abstract!WriteUnlock(t)
    BY <2>0, <2>8, GrantMoves, GrantOf DEF WriteUnlockEntry, Abstract!WriteUnlock
  <2>9. CASE Next
    <3>1. PICK t \in Threads :
            ReadLockEntry(t) \/ WriteReserve(t) \/ Inside(t)
      BY <2>9 DEF Next
    <3> QED
      BY <3>1, <2>2, <2>3, <2>4, <2>5, <2>6, <2>7, <2>8 DEF Inside, Abstract!Next
  <2> QED
    BY <1>2, <2>1, <2>9
<1> QED
  BY <1>1, <1>2, Inductive, PTL DEF Spec, ImplementsRWLock, Abstract!Spec

-----------------------------------------------------------------------------
(* ServerLocks.  A thread waits only for locks that come after those it has,   *)
(* in one order of all locks.                                                  *)

Position(l) == IF l = "hlpasswd_lock" THEN 1
               ELSE IF l \in {"conf_rcl", "cm_lock", "mlock"} THEN 3 ELSE 2

(* A step of a call: what waits for a lock names one, and what an RCL has and a *)
(* mutex has not names an RCL.                                                 *)
Placed(kind, l) == /\ kind \in {"pass", "take"} => l \in Locks
                   /\ kind \in {"drain", "write", "keep", "read"} => l \in RCLs
Steps == {o \in Ops : Placed(o.kind, o.on)}

(* What a thread can have of a lock: a mutex or a reserved RCL, or a reader's  *)
(* part of an RCL.                                                             *)
Holds == [on : Locks, mode : {"own", "read"}]

Acquires(o, x) == o.on = x.on /\ o.kind = (IF x.mode = "own" THEN "take" ELSE "read")
Releases(o, x) == o.on = x.on /\ o.kind \in (IF x.mode = "own" THEN {"give", "write", "keep"} ELSE {"unread"})

(* A reader is in the way of drain, write and keep only, and comes in between. *)
Waits(o) == o.kind \in {"pass", "take", "read", "drain", "write", "keep"}
Weight(o) == 2 * Position(o.on) + (IF o.kind \in {"drain", "write", "keep"} THEN 1 ELSE 0)
Level(x) == 2 * Position(x.on) + (IF x.mode = "read" THEN 1 ELSE 0)
Allowed(o, x) == Waits(o) => \/ Level(x) < Weight(o)
                             \/ o.kind = "pass" /\ o.on = x.on /\ x.mode = "read"

(* Step j of s releases what was held before step i, or is held now. *)
HeldFrom(i, j, x, s) == Releases(s[j], x) /\ \A k \in i .. j - 1 : ~Acquires(s[k], x)
Pending(x, s) == \E j \in 1 .. Len(s) : HeldFrom(1, j, x, s)

Matched(s) == \A x \in Holds : \A i \in 1 .. Len(s) :
    Acquires(s[i], x) => \E j \in i + 1 .. Len(s) : HeldFrom(i + 1, j, x, s)
Orderly(s) == \A x \in Holds : \A i \in 1 .. Len(s) : \A j \in i .. Len(s) :
    HeldFrom(i, j, x, s) => Allowed(s[i], x)
Complete(s) == \A x \in Holds : ~Pending(x, s)

(* The rest of a call, and a whole call. *)
Runs(s) == s \in Seq(Steps) /\ Matched(s) /\ Orderly(s)
Call(s) == Runs(s) /\ Complete(s)

LEMMA ConcatIs ==
    ASSUME NEW a \in Seq(Steps), NEW b \in Seq(Steps)
    PROVE  /\ a \o b \in Seq(Steps)
           /\ Len(a) \in Nat /\ Len(b) \in Nat /\ Len(a \o b) = Len(a) + Len(b)
           /\ \A i \in 1 .. Len(a) : (a \o b)[i] = a[i]
           /\ \A i \in 1 .. Len(b) : (a \o b)[Len(a) + i] = b[i]
<1>1. /\ a \o b \in Seq(Steps) /\ Len(a) \in Nat /\ Len(b) \in Nat /\ Len(a \o b) = Len(a) + Len(b)
      /\ \A i \in 1 .. Len(a) + Len(b) :
             (a \o b)[i] = IF i <= Len(a) THEN a[i] ELSE b[i - Len(a)]
  BY ConcatProperties, LenProperties
<1>2. \A i \in 1 .. Len(a) : i \in 1 .. Len(a) + Len(b) /\ i <= Len(a)
  BY <1>1
<1>3. \A i \in 1 .. Len(b) : /\ Len(a) + i \in 1 .. Len(a) + Len(b) /\ ~(Len(a) + i <= Len(a))
                             /\ (Len(a) + i) - Len(a) = i
  BY <1>1
<1> QED
  BY <1>1, <1>2, <1>3

(* Calls in a row. *)
LEMMA CallsInARow ==
    ASSUME NEW a, Call(a), NEW b, Call(b)
    PROVE  Call(a \o b)
<1> DEFINE c == a \o b
           m == Len(a)
           n == Len(b)
<1>1. a \in Seq(Steps) /\ b \in Seq(Steps)
  BY DEF Call, Runs
<1>2. /\ c \in Seq(Steps) /\ m \in Nat /\ n \in Nat /\ Len(c) = m + n
      /\ \A i \in 1 .. m : c[i] = a[i]
      /\ \A i \in 1 .. n : c[m + i] = b[i]
  BY <1>1, ConcatIs
<1> HIDE DEF c, m, n
<1>n. m \in Nat /\ n \in Nat
  BY <1>2
<1>3. \A i \in 1 .. m + n : i \in 1 .. m \/ \E k \in 1 .. n : i = m + k
  <2> SUFFICES ASSUME NEW i \in 1 .. m + n, i \notin 1 .. m
               PROVE  \E k \in 1 .. n : i = m + k
    OBVIOUS
  <2>1. i - m \in 1 .. n /\ i = m + (i - m)
    BY <1>2
  <2> QED
    BY <2>1
<1>4. \A x \in Holds : \A i \in 1 .. m + 1 : \A j \in 1 .. m : HeldFrom(i, j, x, c) <=> HeldFrom(i, j, x, a)
  BY <1>2 DEF HeldFrom
<1>5. \A x \in Holds : \A i \in 1 .. n + 1 : \A j \in 1 .. n : HeldFrom(m + i, m + j, x, c) <=> HeldFrom(i, j, x, b)
  <2> SUFFICES ASSUME NEW x \in Holds, NEW i \in 1 .. n + 1, NEW j \in 1 .. n
               PROVE  HeldFrom(m + i, m + j, x, c) <=> HeldFrom(i, j, x, b)
    OBVIOUS
  <2>1. c[m + j] = b[j]
    BY <1>2
  <2>2. ASSUME \A k \in m + i .. (m + j) - 1 : ~Acquires(c[k], x)
        PROVE  \A k \in i .. j - 1 : ~Acquires(b[k], x)
    <3> SUFFICES ASSUME NEW k \in i .. j - 1
                 PROVE  ~Acquires(b[k], x)
      OBVIOUS
    <3>1. m + k \in m + i .. (m + j) - 1 /\ k \in 1 .. n
      BY <1>2
    <3> QED
      BY <1>2, <2>2, <3>1
  <2>3. ASSUME \A k \in i .. j - 1 : ~Acquires(b[k], x)
        PROVE  \A k \in m + i .. (m + j) - 1 : ~Acquires(c[k], x)
    <3> SUFFICES ASSUME NEW k \in m + i .. (m + j) - 1
                 PROVE  ~Acquires(c[k], x)
      OBVIOUS
    <3>1. k - m \in i .. j - 1 /\ k - m \in 1 .. n /\ m + (k - m) = k
      BY <1>2
    <3>2. c[m + (k - m)] = b[k - m]
      BY <1>2, <3>1
    <3> QED
      BY <2>3, <3>1, <3>2
  <2>4. Releases(c[m + j], x) <=> Releases(b[j], x)
    BY <2>1
  <2> QED
    BY <2>2, <2>3, <2>4, Zenon DEF HeldFrom
(* What b releases it has acquired. *)
<1>6. \A x \in Holds : \A i \in 1 .. m + 1 : \A j \in 1 .. n : ~HeldFrom(i, m + j, x, c)
  <2> SUFFICES ASSUME NEW x \in Holds, NEW i \in 1 .. m + 1, NEW j \in 1 .. n, HeldFrom(i, m + j, x, c)
               PROVE  FALSE
    OBVIOUS
  <2>1. HeldFrom(m + 1, m + j, x, c)
    <3>1. \A k \in m + 1 .. (m + j) - 1 : k \in i .. (m + j) - 1
      BY <1>n
    <3> QED
      BY <3>1, Zenon DEF HeldFrom
  <2>2. HeldFrom(1, j, x, b)
    BY <1>2, <1>5, <2>1
  <2>3. n = Len(b)
    BY DEF n
  <2> QED
    BY <2>2, <2>3 DEF Call, Complete, Pending
<1>7. Matched(c)
  <2> SUFFICES ASSUME NEW x \in Holds, NEW i \in 1 .. m + n, Acquires(c[i], x)
               PROVE  \E j \in i + 1 .. m + n : HeldFrom(i + 1, j, x, c)
    BY <1>2 DEF Matched
  <2>1. CASE i \in 1 .. m
    <3>1. PICK j \in i + 1 .. m : HeldFrom(i + 1, j, x, a)
      <4>1. Acquires(a[i], x)
        BY <1>2, <2>1
      <4> QED
        BY <2>1, <4>1 DEF Call, Runs, Matched, m
    <3>2. j \in i + 1 .. m + n /\ i + 1 \in 1 .. m + 1 /\ j \in 1 .. m
      BY <1>2, <2>1
    <3> QED
      BY <1>4, <3>1, <3>2
  <2>2. ASSUME NEW k \in 1 .. n, i = m + k
        PROVE  \E j \in i + 1 .. m + n : HeldFrom(i + 1, j, x, c)
    <3>1. PICK j \in k + 1 .. n : HeldFrom(k + 1, j, x, b)
      <4>1. Acquires(b[k], x)
        BY <1>2, <2>2
      <4> QED
        BY <4>1 DEF Call, Runs, Matched, n
    <3>2. m + j \in i + 1 .. m + n /\ m + (k + 1) = i + 1 /\ k + 1 \in 1 .. n + 1 /\ j \in 1 .. n
      BY <1>n, <2>2
    <3>3. HeldFrom(m + (k + 1), m + j, x, c)
      BY <1>5, <3>1, <3>2
    <3> QED
      BY <3>2, <3>3
  <2> QED
    BY <1>3, <2>1, <2>2
<1>8. Orderly(c)
  <2> SUFFICES ASSUME NEW x \in Holds, NEW i \in 1 .. m + n, NEW j \in i .. m + n, HeldFrom(i, j, x, c)
               PROVE  Allowed(c[i], x)
    BY <1>2 DEF Orderly
  <2>1. CASE i \in 1 .. m
    <3>1. j \in 1 .. m
      <4>1. j \in 1 .. m + n /\ i \in 1 .. m + 1
        BY <1>n, <2>1
      <4> QED
        BY <1>3, <1>6, <4>1
    <3>2. HeldFrom(i, j, x, a) /\ j \in i .. m
      BY <1>2, <1>4, <2>1, <3>1
    <3> QED
      BY <1>2, <2>1, <3>2 DEF Call, Runs, Orderly, m
  <2>2. ASSUME NEW k \in 1 .. n, i = m + k
        PROVE  Allowed(c[i], x)
    <3>1. j - m \in k .. n /\ j - m \in 1 .. n /\ m + (j - m) = j /\ k \in 1 .. n + 1
      BY <1>2, <2>2
    <3>2. HeldFrom(k, j - m, x, b)
      BY <1>5, <2>2, <3>1
    <3> QED
      BY <1>2, <2>2, <3>1, <3>2 DEF Call, Runs, Orderly, n
  <2> QED
    BY <1>3, <2>1, <2>2
<1>9. Complete(c)
  <2> SUFFICES ASSUME NEW x \in Holds, NEW j \in 1 .. m + n, HeldFrom(1, j, x, c)
               PROVE  FALSE
    BY <1>2 DEF Complete, Pending
  <2>1. j \in 1 .. m /\ 1 \in 1 .. m + 1
    <3>1. 1 \in 1 .. m + 1
      BY <1>n
    <3> QED
      BY <1>3, <1>6, <3>1
  <2>2. HeldFrom(1, j, x, a)
    BY <1>4, <2>1
  <2> QED
    BY <2>1, <2>2 DEF Call, Complete, Pending, m
<1> QED
  BY <1>2, <1>7, <1>8, <1>9 DEF Call, Runs, c

(* Nothing in s waits for what comes before x in the order. *)
Over(x, s) == \A i \in 1 .. Len(s) : Allowed(s[i], x) /\ ~Acquires(s[i], x)

LEMMA OverConcat ==
    ASSUME NEW a \in Seq(Steps), NEW b \in Seq(Steps), NEW x, Over(x, a), Over(x, b)
    PROVE  Over(x, a \o b)
<1> DEFINE c == a \o b
           m == Len(a)
           n == Len(b)
<1>1. /\ m \in Nat /\ n \in Nat /\ Len(c) = m + n
      /\ \A i \in 1 .. m : c[i] = a[i]
      /\ \A i \in 1 .. n : c[m + i] = b[i]
  BY ConcatIs
<1>2. /\ \A i \in 1 .. m : Allowed(a[i], x) /\ ~Acquires(a[i], x)
      /\ \A i \in 1 .. n : Allowed(b[i], x) /\ ~Acquires(b[i], x)
  BY DEF Over
<1> HIDE DEF c, m, n
<1>3. SUFFICES ASSUME NEW i \in 1 .. m + n
               PROVE  Allowed(c[i], x) /\ ~Acquires(c[i], x)
  BY <1>1 DEF Over, c
<1>4. CASE i \in 1 .. m
  BY <1>1, <1>2, <1>4
<1>5. CASE i \notin 1 .. m
  <2>1. i - m \in 1 .. n /\ m + (i - m) = i
    BY <1>1, <1>5
  <2>2. c[i] = b[i - m]
    BY <1>1, <2>1
  <2> QED
    BY <1>2, <2>1, <2>2
<1> QED
  BY <1>4, <1>5

LEMMA OneIs ==
    ASSUME NEW o \in Steps
    PROVE  <<o>> \in Seq(Steps) /\ Len(<<o>>) = 1 /\ <<o>>[1] = o
OBVIOUS

LEMMA OpIs ==
    ASSUME NEW k \in Kinds, NEW l \in Locks \cup {"client", "clients", "descriptors"}, Placed(k, l)
    PROVE  Op(k, l) \in Steps /\ Op(k, l).kind = k /\ Op(k, l).on = l
BY DEF Op, Steps, Ops

(* A step that neither takes nor gives. *)
LEMMA OneStep ==
    ASSUME NEW o \in Steps, o.kind \in {"pass", "drain", "send", "poll"}
    PROVE  /\ Call(<<o>>)
           /\ \A x \in Holds : Allowed(o, x) => Over(x, <<o>>)
<1>1. \A x : ~Acquires(o, x) /\ ~Releases(o, x)
  BY DEF Acquires, Releases
<1>2. \A i \in 1 .. Len(<<o>>) : <<o>>[i] = o
  BY OneIs
<1> DEFINE s == <<o>>
<1>3. s \in Seq(Steps)
  BY OneIs
<1> HIDE DEF s
<1>4. \A i \in 1 .. Len(s) : s[i] = o
  BY <1>2 DEF s
<1>5. Len(s) \in Nat
  BY <1>3
<1>6. Matched(s)
  BY <1>1, <1>4 DEF Matched
<1>7. \A x \in Holds, i \in 1 .. Len(s), j \in 1 .. Len(s) : ~HeldFrom(i, j, x, s)
  BY <1>1, <1>4 DEF HeldFrom
<1>8. Orderly(s)
  <2>1. \A i \in 1 .. Len(s) : \A j \in i .. Len(s) : j \in 1 .. Len(s)
    BY <1>5
  <2> QED
    BY <1>7, <2>1 DEF Orderly
<1>9. Complete(s)
  <2>1. \A j \in 1 .. Len(s) : 1 \in 1 .. Len(s)
    BY <1>5
  <2> QED
    BY <1>7, <2>1 DEF Complete, Pending
<1>10. \A x \in Holds : Allowed(o, x) => Over(x, s)
  BY <1>1, <1>4 DEF Over
<1> QED
  BY <1>3, <1>6, <1>8, <1>9, <1>10 DEF Call, Runs, s

(* A section: what is taken first is given last, and what comes between waits  *)
(* only for what is after it in the order.                                     *)
LEMMA Section ==
    ASSUME NEW a \in Steps, NEW z \in Steps, NEW s, s = <<>> \/ Call(s), NEW x \in Holds,
           Acquires(a, x), Releases(z, x), Over(x, s), Allowed(z, x),
           \A y \in Holds : (Acquires(a, y) <=> y = x) /\ (Releases(z, y) <=> y = x),
           \A y \in Holds : ~Acquires(z, y) /\ ~Releases(a, y)
    PROVE  Call(<<a>> \o s \o <<z>>)
<1> DEFINE c == <<a>> \o s \o <<z>>
           n == Len(s)
<1>1. s \in Seq(Steps) /\ n \in Nat
  <2>1. s \in Seq(Steps)
    <3>1. CASE s = <<>>
      BY <3>1
    <3>2. CASE Call(s)
      BY <3>2 DEF Call, Runs
    <3> QED
      BY <3>1, <3>2
  <2> QED
    BY <2>1
<1>2. /\ c \in Seq(Steps) /\ Len(c) = n + 2
      /\ c[1] = a /\ c[n + 2] = z
      /\ \A i \in 1 .. n : c[1 + i] = s[i]
  <2> DEFINE b == <<a>> \o s
  <2>1. /\ b \in Seq(Steps) /\ Len(b) = 1 + n
        /\ b[1] = a /\ \A i \in 1 .. n : b[1 + i] = s[i]
    BY <1>1, OneIs, ConcatIs
  <2>2. c = b \o <<z>>
    OBVIOUS
  <2> HIDE DEF b, n, c
  <2>3. /\ c \in Seq(Steps) /\ Len(c) = (1 + n) + 1
        /\ \A i \in 1 .. 1 + n : c[i] = b[i]
        /\ c[(1 + n) + 1] = z
    <3>1. <<z>> \in Seq(Steps) /\ Len(<<z>>) = 1 /\ <<z>>[1] = z /\ 1 \in 1 .. 1
      BY OneIs
    <3> QED
      BY <2>1, <2>2, <3>1, ConcatIs
  <2>4. (1 + n) + 1 = n + 2 /\ 1 \in 1 .. 1 + n /\ \A i \in 1 .. n : 1 + i \in 1 .. 1 + n
    BY <1>1
  <2> QED
    BY <2>1, <2>3, <2>4
<1>3. /\ \A i \in 1 .. n : Allowed(s[i], x) /\ ~Acquires(s[i], x)
      /\ \A y \in Holds, i \in 1 .. n : Acquires(s[i], y) => \E j \in i + 1 .. n : HeldFrom(i + 1, j, y, s)
      /\ \A y \in Holds, i \in 1 .. n : \A j \in i .. n : HeldFrom(i, j, y, s) => Allowed(s[i], y)
      /\ \A y \in Holds, j \in 1 .. n : ~HeldFrom(1, j, y, s)
  <2>1. CASE s = <<>>
    <3>1. n = 0
      BY <2>1
    <3>2. \A i : i \notin 1 .. n
      BY <3>1
    <3> QED
      BY <3>2
  <2>2. CASE Call(s)
    BY <2>2 DEF Over, Call, Runs, Matched, Orderly, Complete, Pending
  <2> QED
    BY <2>1, <2>2
<1> HIDE DEF c, n
<1>n. n \in Nat
  BY <1>1
<1>4. \A i \in 1 .. n + 2 : i = 1 \/ i = n + 2 \/ \E k \in 1 .. n : i = 1 + k
  <2> SUFFICES ASSUME NEW i \in 1 .. n + 2, i # 1, i # n + 2
               PROVE  \E k \in 1 .. n : i = 1 + k
    OBVIOUS
  <2>1. i - 1 \in 1 .. n /\ i = 1 + (i - 1)
    BY <1>n
  <2> QED
    BY <2>1
<1>5. \A y \in Holds : \A i \in 1 .. n + 1 : \A j \in 1 .. n : HeldFrom(1 + i, 1 + j, y, c) <=> HeldFrom(i, j, y, s)
  <2> SUFFICES ASSUME NEW y \in Holds, NEW i \in 1 .. n + 1, NEW j \in 1 .. n
               PROVE  HeldFrom(1 + i, 1 + j, y, c) <=> HeldFrom(i, j, y, s)
    OBVIOUS
  <2>1. Releases(c[1 + j], y) <=> Releases(s[j], y)
    BY <1>2
  <2>2. ASSUME \A k \in 1 + i .. (1 + j) - 1 : ~Acquires(c[k], y)
        PROVE  \A k \in i .. j - 1 : ~Acquires(s[k], y)
    <3> SUFFICES ASSUME NEW k \in i .. j - 1
                 PROVE  ~Acquires(s[k], y)
      OBVIOUS
    <3>1. 1 + k \in 1 + i .. (1 + j) - 1 /\ k \in 1 .. n
      BY <1>n
    <3> QED
      BY <1>2, <2>2, <3>1
  <2>3. ASSUME \A k \in i .. j - 1 : ~Acquires(s[k], y)
        PROVE  \A k \in 1 + i .. (1 + j) - 1 : ~Acquires(c[k], y)
    <3> SUFFICES ASSUME NEW k \in 1 + i .. (1 + j) - 1
                 PROVE  ~Acquires(c[k], y)
      OBVIOUS
    <3>1. k - 1 \in i .. j - 1 /\ k - 1 \in 1 .. n /\ 1 + (k - 1) = k
      BY <1>n
    <3>2. c[1 + (k - 1)] = s[k - 1]
      BY <1>2, <3>1
    <3> QED
      BY <2>3, <3>1, <3>2
  <2> QED
    BY <2>1, <2>2, <2>3, Zenon DEF HeldFrom
<1>6. \A y \in Holds : \A i \in 1 .. 2 : \A j \in 1 .. n : ~HeldFrom(i, 1 + j, y, c)
  <2> SUFFICES ASSUME NEW y \in Holds, NEW i \in 1 .. 2, NEW j \in 1 .. n, HeldFrom(i, 1 + j, y, c)
               PROVE  FALSE
    OBVIOUS
  <2>1. \A k \in 1 + 1 .. (1 + j) - 1 : k \in i .. (1 + j) - 1
    BY <1>n
  <2>2. HeldFrom(1 + 1, 1 + j, y, c)
    BY <2>1, Zenon DEF HeldFrom
  <2>3. HeldFrom(1, j, y, s)
    BY <1>n, <1>5, <2>2
  <2> QED
    BY <1>3, <2>3
<1>7. \A y \in Holds : \A i \in 1 .. n + 2 : ~HeldFrom(i, 1, y, c)
  BY <1>2 DEF HeldFrom
<1>8. \A y \in Holds : \A i \in 1 .. n + 2 : HeldFrom(i, n + 2, y, c) => y = x /\ i # 1
  <2> SUFFICES ASSUME NEW y \in Holds, NEW i \in 1 .. n + 2, HeldFrom(i, n + 2, y, c)
               PROVE  y = x /\ i # 1
    OBVIOUS
  <2>1. y = x
    BY <1>2 DEF HeldFrom
  <2>2. 1 \in 1 .. (n + 2) - 1
    BY <1>n
  <2> QED
    BY <1>2, <2>1, <2>2 DEF HeldFrom
<1>9. HeldFrom(2, n + 2, x, c)
  <2> SUFFICES ASSUME NEW k \in 2 .. (n + 2) - 1
               PROVE  ~Acquires(c[k], x)
    BY <1>2 DEF HeldFrom
  <2>1. k - 1 \in 1 .. n /\ 1 + (k - 1) = k
    BY <1>n
  <2>2. c[1 + (k - 1)] = s[k - 1]
    BY <1>2, <2>1
  <2> QED
    BY <1>3, <2>1, <2>2
<1>10. Matched(c)
  <2> SUFFICES ASSUME NEW y \in Holds, NEW i \in 1 .. n + 2, Acquires(c[i], y)
               PROVE  \E j \in i + 1 .. n + 2 : HeldFrom(i + 1, j, y, c)
    BY <1>2 DEF Matched
  <2>1. CASE i = 1
    <3>1. y = x
      BY <1>2, <2>1
    <3>2. n + 2 \in i + 1 .. n + 2 /\ i + 1 = 2
      BY <1>n, <2>1
    <3> QED
      BY <1>9, <3>1, <3>2
  <2>2. ASSUME NEW k \in 1 .. n, i = 1 + k
        PROVE  \E j \in i + 1 .. n + 2 : HeldFrom(i + 1, j, y, c)
    <3>1. PICK j \in k + 1 .. n : HeldFrom(k + 1, j, y, s)
      BY <1>2, <1>3, <2>2
    <3>2. 1 + j \in i + 1 .. n + 2 /\ 1 + (k + 1) = i + 1 /\ k + 1 \in 1 .. n + 1 /\ j \in 1 .. n
      BY <1>n, <2>2
    <3>3. HeldFrom(1 + (k + 1), 1 + j, y, c)
      BY <1>5, <3>1, <3>2
    <3> QED
      BY <3>2, <3>3
  <2>3. i # n + 2
    BY <1>2
  <2> QED
    BY <1>4, <2>1, <2>2, <2>3
<1>11. Orderly(c)
  <2> SUFFICES ASSUME NEW y \in Holds, NEW i \in 1 .. n + 2, NEW j \in i .. n + 2, HeldFrom(i, j, y, c)
               PROVE  Allowed(c[i], y)
    BY <1>2 DEF Orderly
  <2>1. j \in 1 .. n + 2 /\ i \in 1 .. n + 2
    BY <1>n
  <2>2. CASE j = n + 2
    <3>1. y = x /\ i # 1
      BY <1>8, <2>2
    <3>2. CASE i = n + 2
      BY <1>2, <3>1, <3>2
    <3>3. ASSUME NEW k \in 1 .. n, i = 1 + k
          PROVE  Allowed(c[i], y)
      BY <1>2, <1>3, <3>1, <3>3
    <3> QED
      BY <1>4, <3>1, <3>2, <3>3
  <2>3. ASSUME NEW m \in 1 .. n, j = 1 + m
        PROVE  Allowed(c[i], y)
    <3>1. i # 1 /\ i # n + 2
      <4>1. 1 \in 1 .. 2
        OBVIOUS
      <4>2. i # n + 2
        BY <1>n, <2>3
      <4> QED
        BY <1>6, <2>3, <4>1, <4>2
    <3>2. PICK k \in 1 .. n : i = 1 + k
      BY <1>4, <2>1, <3>1
    <3>3. m \in k .. n /\ k \in 1 .. n + 1
      BY <1>n, <2>3, <3>2
    <3>4. HeldFrom(k, m, y, s)
      BY <1>5, <2>3, <3>2, <3>3
    <3> QED
      BY <1>2, <1>3, <3>2, <3>3, <3>4
  <2>4. j # 1
    BY <1>7, <2>1
  <2> QED
    BY <1>4, <2>1, <2>2, <2>3, <2>4
<1>12. Complete(c)
  <2> SUFFICES ASSUME NEW y \in Holds, NEW j \in 1 .. n + 2, HeldFrom(1, j, y, c)
               PROVE  FALSE
    BY <1>2 DEF Complete, Pending
  <2>1. 1 \in 1 .. 2 /\ 1 \in 1 .. n + 2
    BY <1>n
  <2> QED
    BY <1>4, <1>6, <1>7, <1>8, <2>1
<1> QED
  BY <1>2, <1>10, <1>11, <1>12 DEF Call, Runs, c
-----------------------------------------------------------------------------
(* The calls of the server keep to the order. *)

Own(l) == [on |-> l, mode |-> "own"]
Read(l) == [on |-> l, mode |-> "read"]

LEMMA HoldIs ==
    /\ \A l \in Locks : Own(l) \in Holds /\ Level(Own(l)) = 2 * Position(l)
    /\ \A l \in RCLs : /\ Read(l) \in Holds /\ Level(Read(l)) = 2 * Position(l) + 1
                       /\ l \in Locks
    /\ \A x \in Holds : x = Own(x.on) \/ x = Read(x.on)
    /\ \A l, m : Own(l).on = l /\ Own(l).mode = "own" /\ Read(l).on = l /\ Read(l).mode = "read" /\ Own(l) # Read(m)
    /\ \A x \in Holds : Level(x) \in 2 .. 7
    /\ \A o : Weight(o) \in 2 .. 7
BY DEF Own, Read, Holds, Level, Weight, Position, Locks, RCLs

LEMMA OpKinds ==
    ASSUME NEW l \in Locks
    PROVE  \A k \in Kinds : Placed(k, l) =>
                              /\ Op(k, l) \in Steps
                              /\ \A x \in Holds :
                                    /\ Acquires(Op(k, l), x) <=> (k = "take" /\ x = Own(l)) \/ (k = "read" /\ x = Read(l))
                                    /\ Releases(Op(k, l), x) <=> (k \in {"give", "write", "keep"} /\ x = Own(l))
                                                                     \/ (k = "unread" /\ x = Read(l))
<1>1. \A k \in Kinds : Placed(k, l) => Op(k, l) \in Steps /\ Op(k, l).kind = k /\ Op(k, l).on = l
  BY OpIs
<1> SUFFICES ASSUME NEW k \in Kinds, Placed(k, l), NEW x \in Holds
             PROVE  /\ Acquires(Op(k, l), x) <=> (k = "take" /\ x = Own(l)) \/ (k = "read" /\ x = Read(l))
                    /\ Releases(Op(k, l), x) <=> (k \in {"give", "write", "keep"} /\ x = Own(l))
                                                     \/ (k = "unread" /\ x = Read(l))
  BY <1>1
<1>2. CASE x = Own(x.on)
  BY <1>1, <1>2, HoldIs DEF Acquires, Releases
<1>3. CASE x = Read(x.on)
  BY <1>1, <1>3, HoldIs DEF Acquires, Releases
<1> QED
  BY <1>2, <1>3, HoldIs

LEMMA PassingIs ==
    ASSUME NEW l \in Locks
    PROVE  /\ Call(Passing(l))
           /\ \A x \in Holds : Level(x) < 2 * Position(l) \/ x = Read(l) => Over(x, Passing(l))
<1>1. Op("pass", l) \in Steps /\ Op("pass", l).kind = "pass" /\ Op("pass", l).on = l
  BY OpIs DEF Placed, Kinds
<1>2. \A x \in Holds : Level(x) < 2 * Position(l) \/ x = Read(l) => Allowed(Op("pass", l), x)
  BY <1>1, HoldIs DEF Allowed, Weight, Position
<1> QED
  BY <1>1, <1>2, OneStep DEF Passing

LEMMA SendIs ==
    ASSUME NEW w \in {"client", "clients", "descriptors"}, NEW k \in {"send", "poll"}
    PROVE  /\ Call(<<Op(k, w)>>)
           /\ \A x \in Holds : Over(x, <<Op(k, w)>>)
<1>1. Op(k, w) \in Steps /\ Op(k, w).kind = k
  BY OpIs DEF Placed, Kinds
<1>2. \A x \in Holds : Allowed(Op(k, w), x)
  BY <1>1 DEF Allowed, Waits
<1> QED
  BY <1>1, <1>2, OneStep

LEMMA DrainIs ==
    /\ Call(<<Op("drain", "bp_lock")>>)
    /\ Over(Own("bp_lock"), <<Op("drain", "bp_lock")>>)
<1>1. /\ Op("drain", "bp_lock") \in Steps /\ Op("drain", "bp_lock").kind = "drain"
      /\ Op("drain", "bp_lock").on = "bp_lock" /\ "bp_lock" \in Locks
  BY OpIs DEF Placed, Kinds, Locks, RCLs
<1>2. Allowed(Op("drain", "bp_lock"), Own("bp_lock"))
  BY <1>1, HoldIs DEF Allowed, Weight, Position
<1> QED
  BY <1>1, <1>2, OneStep, HoldIs

LEMMA WithinIs ==
    ASSUME NEW l \in Locks, NEW s, Call(s), Over(Own(l), s)
    PROVE  Call(Within(l, s))
<1> DEFINE a == Op("take", l)
           z == Op("give", l)
<1>1. /\ Own(l) \in Holds
      /\ a \in Steps /\ \A y \in Holds : (Acquires(a, y) <=> y = Own(l)) /\ ~Releases(a, y)
      /\ z \in Steps /\ \A y \in Holds : (Releases(z, y) <=> y = Own(l)) /\ ~Acquires(z, y)
  BY OpKinds, HoldIs DEF Placed, Kinds
<1>2. Allowed(z, Own(l))
  BY OpIs DEF Placed, Allowed, Waits, Kinds
<1> HIDE DEF a, z
<1>3. Call(<<a>> \o s \o <<z>>)
  BY <1>1, <1>2, Section
<1> QED
  BY <1>3 DEF Within, a, z

LEMMA ReadingIs ==
    ASSUME NEW l \in RCLs, NEW s, Call(s), Over(Read(l), s)
    PROVE  Call(Reading(l, s))
<1> DEFINE a == Op("read", l)
           z == Op("unread", l)
<1>1. /\ Read(l) \in Holds /\ l \in Locks
      /\ a \in Steps /\ \A y \in Holds : (Acquires(a, y) <=> y = Read(l)) /\ ~Releases(a, y)
      /\ z \in Steps /\ \A y \in Holds : (Releases(z, y) <=> y = Read(l)) /\ ~Acquires(z, y)
  BY OpKinds, HoldIs DEF Placed, Kinds
<1>2. Allowed(z, Read(l))
  BY <1>1, OpIs DEF Placed, Allowed, Waits, Kinds
<1> HIDE DEF a, z
<1>3. Call(<<a>> \o s \o <<z>>)
  BY <1>1, <1>2, Section
<1> QED
  BY <1>3 DEF Reading, a, z

(* What a writer does with an RCL; in the order, it makes no difference whether*)
(* it gives it back.                                                           *)
LEMMA OwningIs ==
    ASSUME NEW l \in RCLs, NEW k \in {"write", "keep"}
    PROVE  /\ Call(<<Op("take", l), Op(k, l)>>)
           /\ \A x \in Holds : Level(x) < 2 * Position(l) => Over(x, <<Op("take", l), Op(k, l)>>)
<1> DEFINE a == Op("take", l)
           z == Op(k, l)
<1>1. /\ Own(l) \in Holds /\ l \in Locks
      /\ a \in Steps /\ \A y \in Holds : (Acquires(a, y) <=> y = Own(l)) /\ ~Releases(a, y)
      /\ z \in Steps /\ \A y \in Holds : (Releases(z, y) <=> y = Own(l)) /\ ~Acquires(z, y)
  BY OpKinds, HoldIs DEF Placed, Kinds
<1>2. a.kind = "take" /\ z.kind = k /\ a.on = l /\ z.on = l
  BY <1>1, OpIs DEF Placed, Kinds
<1>3. \A x \in Holds : Level(x) < 2 * Position(l) \/ x = Own(l) => Allowed(z, x)
  BY <1>1, <1>2, HoldIs DEF Allowed, Weight, Position
<1>4. \A x \in Holds : Level(x) < 2 * Position(l) => Allowed(a, x) /\ x # Own(l)
  BY <1>1, <1>2, HoldIs DEF Allowed, Weight, Position
<1> HIDE DEF a, z
<1>5. \A i \in 1 .. Len(<<>>) : FALSE
  OBVIOUS
<1>6. Over(Own(l), <<>>)
  BY <1>5 DEF Over
<1>7. Call(<<a>> \o <<>> \o <<z>>)
  BY <1>1, <1>3, <1>6, Section
<1>8. <<a>> \o <<>> \o <<z>> = <<a, z>>
  <2>1. <<a>> \o <<>> = <<a>>
    BY <1>1, OneIs, ConcatEmptySeq
  <2>2. <<a>> \o <<z>> = <<a, z>>
    <3>1. Len(<<a>> \o <<z>>) = 2 /\ (<<a>> \o <<z>>)[1] = a /\ (<<a>> \o <<z>>)[2] = z
          /\ <<a>> \o <<z>> \in Seq(Steps)
      BY <1>1, OneIs, ConcatIs
    <3>2. /\ <<a, z>> \in Seq(Steps) /\ Len(<<a, z>>) = 2
          /\ <<a, z>>[1] = a /\ <<a, z>>[2] = z
      BY <1>1
    <3> DEFINE u == <<a>> \o <<z>>
               v == <<a, z>>
    <3>3. /\ u \in Seq(Steps) /\ v \in Seq(Steps) /\ Len(u) = 2 /\ Len(v) = 2
          /\ u[1] = v[1] /\ u[2] = v[2]
      BY <3>1, <3>2
    <3> HIDE DEF u, v
    <3>4. \A i \in 1 .. Len(u) : u[i] = v[i]
      BY <3>3
    <3>5. u = v
      BY <3>3, <3>4, SeqEqual
    <3> QED
      BY <3>5 DEF u, v
  <2> QED
    BY <2>1, <2>2
<1>9. ASSUME NEW x \in Holds, Level(x) < 2 * Position(l)
       PROVE  Over(x, <<a, z>>)
  <2>1. \A i \in 1 .. Len(<<a, z>>) : <<a, z>>[i] = a \/ <<a, z>>[i] = z
    OBVIOUS
  <2>2. Allowed(a, x) /\ Allowed(z, x) /\ ~Acquires(a, x) /\ ~Acquires(z, x)
    BY <1>1, <1>3, <1>4, <1>9
  <2> QED
    BY <2>1, <2>2 DEF Over
<1> QED
  BY <1>7, <1>8, <1>9 DEF a, z

LEMMA WritingIs ==
    ASSUME NEW l \in RCLs
    PROVE  /\ Call(Writing(l))
           /\ \A x \in Holds : Level(x) < 2 * Position(l) => Over(x, Writing(l))
BY OwningIs DEF Writing

LEMMA KeepingIs ==
    ASSUME NEW l \in RCLs
    PROVE  Call(<<Op("take", l), Op("keep", l)>>)
BY OwningIs

(* Of the locks of the first two kinds, a thread that has one may ask for the  *)
(* counters of the connections and for the configuration, and write to clients.*)
Early(x) == Level(x) < 6

LEMMA Inner ==
    /\ Call(cm_access) /\ Call(config_value) /\ Call(reply) /\ Call(notice) /\ Call(notices)
    /\ \A x \in Holds : Early(x) =>
           /\ Over(x, cm_access) /\ Over(x, config_value) /\ Over(x, reply)
           /\ Over(x, notice) /\ Over(x, notices)
    /\ Over(Read("cm_lock"), notices)
<1>1. "cm_lock" \in Locks /\ "conf_rcl" \in Locks /\ Position("cm_lock") = 3 /\ Position("conf_rcl") = 3
  BY DEF Locks, RCLs, Position
<1>2. /\ Call(cm_access) /\ Call(config_value)
      /\ \A x \in Holds : Early(x) \/ x = Read("cm_lock") => Over(x, cm_access)
      /\ \A x \in Holds : Early(x) => Over(x, config_value)
  BY <1>1, PassingIs DEF Early, cm_access, config_value
<1> DEFINE all == <<Op("send", "clients")>>
<1>3. /\ Call(reply) /\ \A x \in Holds : Over(x, reply)
      /\ Call(all) /\ \A x \in Holds : Over(x, all)
  BY SendIs DEF reply
<1> HIDE DEF all
<1>4. notice = cm_access \o reply /\ notices = cm_access \o all
  BY DEF notice, notices, all
<1>5. Call(notice) /\ Call(notices)
  BY <1>2, <1>3, <1>4, CallsInARow
<1>6. cm_access \in Seq(Steps) /\ reply \in Seq(Steps) /\ all \in Seq(Steps)
  BY <1>2, <1>3 DEF Call, Runs
<1>7. \A x \in Holds : Early(x) \/ x = Read("cm_lock") => Over(x, notice) /\ Over(x, notices)
  BY <1>2, <1>3, <1>4, <1>6, OverConcat
<1>8. Read("cm_lock") \in Holds
  BY HoldIs DEF RCLs
<1> QED
  BY <1>2, <1>3, <1>5, <1>7, <1>8

LEMMA EarlyLocks ==
    /\ \A l \in {"tm_mutex", "tfm_lock", "tlock", "bp_lock", "hlpasswd_lock"} :
           l \in Locks /\ Own(l) \in Holds /\ Early(Own(l))
    /\ Read("am_rcl") \in Holds /\ Early(Read("am_rcl"))
    /\ {"conf_rcl", "am_rcl", "cm_lock", "mlock", "bp_lock"} = RCLs
<1>1. /\ \A l \in {"tm_mutex", "tfm_lock", "tlock", "bp_lock", "hlpasswd_lock"} : l \in Locks /\ Position(l) \in {1, 2}
      /\ "am_rcl" \in RCLs /\ Position("am_rcl") = 2
  BY DEF Locks, Mutexes, RCLs, Position
<1> QED
  BY <1>1, HoldIs DEF Early, RCLs

LEMMA AccountCalls ==
    /\ Call(am_change) /\ Call(am_commit) /\ Call(am_init)
<1>1. "am_rcl" \in RCLs /\ "am_rcl" \in Locks /\ Position("am_rcl") = 2 /\ Position("hlpasswd_lock") = 1
  BY DEF Locks, RCLs, Position
<1>2. Own("hlpasswd_lock") \in Holds /\ "hlpasswd_lock" \in Locks /\ Level(Own("hlpasswd_lock")) < 2 * Position("am_rcl")
  BY <1>1, EarlyLocks, HoldIs
<1>3. Call(am_change) /\ Over(Own("hlpasswd_lock"), am_change)
  BY <1>1, <1>2, WritingIs DEF am_change
<1>4. Call(am_access) /\ Over(Own("hlpasswd_lock"), am_access)
  BY <1>1, <1>2, PassingIs DEF am_access
<1>5. /\ config_value \in Seq(Steps) /\ am_access \in Seq(Steps) /\ am_change \in Seq(Steps)
      /\ Call(config_value) /\ Over(Own("hlpasswd_lock"), config_value)
  BY <1>3, <1>4, Inner, EarlyLocks DEF Call, Runs
<1>6. /\ Call(config_value \o am_access) /\ Over(Own("hlpasswd_lock"), config_value \o am_access)
      /\ Call(config_value \o am_change) /\ Over(Own("hlpasswd_lock"), config_value \o am_change)
  BY <1>2, <1>3, <1>4, <1>5, CallsInARow, OverConcat
<1>7. Call(am_commit) /\ Call(Within("hlpasswd_lock", config_value \o am_change))
  BY <1>2, <1>6, WithinIs DEF am_commit
<1> QED
  BY <1>3, <1>7, CallsInARow DEF am_init

LEMMA TransferCalls ==
    Call(tfm_remove) /\ Call(tfm_register) /\ Call(tfm_init)
<1>1. Own("tfm_lock") \in Holds /\ "tfm_lock" \in Locks /\ Early(Own("tfm_lock"))
  BY EarlyLocks
<1>2. Call(tfm_remove) /\ Call(tfm_register)
  BY <1>1, Inner, WithinIs DEF tfm_remove, tfm_register
<1>3. Call(config_value \o notices) /\ Over(Own("tfm_lock"), config_value \o notices)
  <2>1. config_value \in Seq(Steps) /\ notices \in Seq(Steps)
    BY Inner DEF Call, Runs
  <2> QED
    BY <1>1, <2>1, Inner, CallsInARow, OverConcat
<1> QED
  BY <1>1, <1>2, <1>3, WithinIs DEF tfm_init

LEMMA OtherCalls ==
    /\ Call(cm_transaction_broadcast) /\ Call(cm_add) /\ Call(cm_remove)
    /\ Call(multiplexer_change) /\ Call(multiplexer_poll) /\ Call(config_init)
    /\ Call(tm_init) /\ Call(f_init) /\ Call(tracker_init) /\ Call(tracker_main)
<1>1. Call(cm_transaction_broadcast)
  BY Inner, EarlyLocks, ReadingIs DEF cm_transaction_broadcast
<1>2. Call(cm_add) /\ Call(cm_remove) /\ Call(multiplexer_change) /\ Call(config_init)
  BY EarlyLocks, WritingIs DEF cm_add, cm_remove, multiplexer_change, config_init
<1>3. Call(multiplexer_poll)
  <2> DEFINE p == <<Op("poll", "descriptors")>>
  <2>1. Call(p) /\ Over(Read("mlock"), p)
    BY SendIs, HoldIs, EarlyLocks
  <2> HIDE DEF p
  <2>2. Call(Reading("mlock", p))
    BY <2>1, EarlyLocks, ReadingIs
  <2> QED
    BY <2>2 DEF multiplexer_poll, p
<1>4. Call(tm_init) /\ Call(tracker_init) /\ Call(tracker_main)
  BY Inner, EarlyLocks, WithinIs DEF tm_init, tracker_init, tracker_main
<1>5. Call(f_init)
  <2> DEFINE d == <<Op("drain", "bp_lock")>>
  <2>1. Call(d) /\ Over(Own("bp_lock"), d)
    BY DrainIs
  <2> HIDE DEF d
  <2>2. d \in Seq(Steps) /\ config_value \in Seq(Steps)
    BY <2>1, Inner DEF Call, Runs
  <2>3. Call(d \o config_value) /\ Over(Own("bp_lock"), d \o config_value)
    BY <2>1, <2>2, Inner, EarlyLocks, CallsInARow, OverConcat
  <2>4. Call(Within("bp_lock", d \o config_value))
    BY <2>3, EarlyLocks, WithinIs
  <2> QED
    BY <2>4 DEF f_init, d
<1> QED
  BY <1>1, <1>2, <1>3, <1>4, <1>5

LEMMA HelperCallsAre ==
    \A t \in ServerThreads : \A s \in CallsOf(t) : Call(s)
<1>1. Call(txn_login)
  <2> DEFINE r == cm_access \o config_value \o reply \o notice
  <2>1. Call(r) /\ Over(Read("am_rcl"), r)
    <3> DEFINE a == cm_access \o config_value
               b == a \o reply
    <3>1. cm_access \in Seq(Steps) /\ config_value \in Seq(Steps) /\ reply \in Seq(Steps) /\ notice \in Seq(Steps)
      BY Inner DEF Call, Runs
    <3>2. /\ Over(Read("am_rcl"), cm_access) /\ Over(Read("am_rcl"), config_value)
          /\ Over(Read("am_rcl"), reply) /\ Over(Read("am_rcl"), notice)
      BY Inner, EarlyLocks
    <3>3. Call(a) /\ Over(Read("am_rcl"), a) /\ a \in Seq(Steps)
      BY <3>1, <3>2, Inner, CallsInARow, OverConcat DEF Call, Runs
    <3>4. r = b \o notice
      OBVIOUS
    <3> HIDE DEF a, r
    <3>5. Call(b) /\ Over(Read("am_rcl"), b) /\ b \in Seq(Steps)
      BY <3>1, <3>2, <3>3, Inner, CallsInARow, OverConcat DEF Call, Runs
    <3> HIDE DEF b
    <3> QED
      BY <3>1, <3>2, <3>4, <3>5, Inner, CallsInARow, OverConcat
  <2> HIDE DEF r
  <2>2. Call(Reading("am_rcl", r))
    BY <2>1, EarlyLocks, ReadingIs
  <2> QED
    BY <2>2 DEF txn_login, r
<1>2. Call(txn_read_account)
  BY Inner, EarlyLocks, ReadingIs DEF txn_read_account
<1>3. Call(txn_create_account)
  BY AccountCalls, CallsInARow DEF txn_create_account
<1>4. Call(ht_control_disconnect)
  <2>1. Call(tfm_purge_uid \o cm_transaction_broadcast)
    BY TransferCalls, OtherCalls, CallsInARow DEF tfm_purge_uid
  <2>2. Call((tfm_purge_uid \o cm_transaction_broadcast) \o cm_remove)
    BY <2>1, OtherCalls, CallsInARow
  <2> QED
    BY <2>2 DEF ht_control_disconnect
<1>5. \A s \in txn_admin_submit : Call(s)
  <2>1. Call(process_user_entry_unknown)
    BY EarlyLocks, KeepingIs DEF process_user_entry_unknown
  <2>2. Call(process_user_entry_unnamed)
    BY <2>1, AccountCalls, CallsInARow DEF process_user_entry_unnamed
  <2> QED
    BY <2>1, <2>2 DEF txn_admin_submit
<1>6. \A s \in HelperCalls \cup ch_main : Call(s)
  BY <1>1, <1>2, <1>3, <1>4, TransferCalls, OtherCalls
     DEF HelperCalls, ht_exec, ch_main, sequester_monitor_thread
<1> QED
  BY <1>5, <1>6 DEF CallsOf

(* A reload: it never takes part in reading an RCL, so that it meets what a    *)
(* reader that it interrupts has begun only where it waits for readers.        *)
NoReads(s) == \A i \in 1 .. Len(s) : s[i].kind # "read"

LEMMA NoReadsConcat ==
    ASSUME NEW a \in Seq(Steps), NEW b \in Seq(Steps), NoReads(a), NoReads(b)
    PROVE  NoReads(a \o b)
<1> DEFINE c == a \o b
           m == Len(a)
           n == Len(b)
<1>1. /\ m \in Nat /\ n \in Nat /\ Len(c) = m + n
      /\ \A i \in 1 .. m : c[i] = a[i]
      /\ \A i \in 1 .. n : c[m + i] = b[i]
  BY ConcatIs
<1>2. /\ \A i \in 1 .. m : a[i].kind # "read"
      /\ \A i \in 1 .. n : b[i].kind # "read"
  BY DEF NoReads
<1> HIDE DEF c, m, n
<1>3. SUFFICES ASSUME NEW i \in 1 .. m + n
               PROVE  c[i].kind # "read"
  BY <1>1 DEF NoReads, c
<1>4. CASE i \in 1 .. m
  BY <1>1, <1>2, <1>4
<1>5. CASE i \notin 1 .. m
  <2>1. i - m \in 1 .. n /\ m + (i - m) = i
    BY <1>1, <1>5
  <2>2. c[i] = b[i - m]
    BY <1>1, <2>1
  <2> QED
    BY <1>2, <2>1, <2>2
<1> QED
  BY <1>4, <1>5

LEMMA NoReadsIn ==
    /\ \A k \in Kinds, l \in Locks \cup {"client", "clients", "descriptors"} :
           k # "read" /\ Placed(k, l) => NoReads(<<Op(k, l)>>)
    /\ \A l \in RCLs : NoReads(Writing(l))
    /\ \A l \in Locks : \A s \in Seq(Steps) : NoReads(s) => NoReads(Within(l, s))
<1>1. ASSUME NEW k \in Kinds, NEW l \in Locks \cup {"client", "clients", "descriptors"}, k # "read", Placed(k, l)
      PROVE  NoReads(<<Op(k, l)>>) /\ <<Op(k, l)>> \in Seq(Steps)
  <2> DEFINE o == Op(k, l)
  <2>1. o \in Steps /\ o.kind # "read"
    BY <1>1, OpIs
  <2> HIDE DEF o
  <2>2. NoReads(<<o>>) /\ <<o>> \in Seq(Steps)
    BY <2>1 DEF NoReads
  <2> QED
    BY <2>2 DEF o
<1>2. \A l \in RCLs : NoReads(Writing(l))
  <2> SUFFICES ASSUME NEW l \in RCLs
               PROVE  NoReads(Writing(l))
    OBVIOUS
  <2> DEFINE a == Op("take", l)
             z == Op("write", l)
  <2>1. a.kind # "read" /\ z.kind # "read"
    BY OpIs DEF Placed, Kinds, Locks
  <2> HIDE DEF a, z
  <2>2. NoReads(<<a, z>>)
    BY <2>1 DEF NoReads
  <2> QED
    BY <2>2 DEF Writing, a, z
<1>3. ASSUME NEW l \in Locks, NEW s \in Seq(Steps), NoReads(s)
      PROVE  NoReads(Within(l, s))
  <2> DEFINE a == <<Op("take", l)>>
             z == <<Op("give", l)>>
  <2>1. a \in Seq(Steps) /\ NoReads(a) /\ z \in Seq(Steps) /\ NoReads(z)
    BY <1>1 DEF Placed, Kinds
  <2> HIDE DEF a, z
  <2>2. a \o s \in Seq(Steps) /\ NoReads(a \o s)
    BY <1>3, <2>1, NoReadsConcat, ConcatIs
  <2>3. NoReads(a \o s \o z)
    BY <2>1, <2>2, NoReadsConcat
  <2> QED
    BY <2>3 DEF Within, a, z
<1> QED
  BY <1>1, <1>2, <1>3

(* A whole call that reads nothing. *)
Change(s) == s \in Seq(Steps) /\ Call(s) /\ NoReads(s)

LEMMA ChangesInARow ==
    ASSUME NEW a, NEW b, Change(a), Change(b)
    PROVE  Change(a \o b)
BY CallsInARow, NoReadsConcat, ConcatIs DEF Change

LEMMA InitCalls ==
    /\ Change(config_init) /\ Change(tm_init) /\ Change(am_init) /\ Change(ch_init)
    /\ Change(f_init) /\ Change(tfm_init) /\ Change(tracker_init)
<1>1. /\ config_value \in Seq(Steps) /\ notices \in Seq(Steps)
      /\ am_change \in Seq(Steps)
      /\ config_init \in Seq(Steps) /\ tm_init \in Seq(Steps) /\ am_init \in Seq(Steps)
      /\ ch_init \in Seq(Steps) /\ f_init \in Seq(Steps) /\ tfm_init \in Seq(Steps)
      /\ tracker_init \in Seq(Steps) /\ cm_access \in Seq(Steps)
  BY Inner, AccountCalls, TransferCalls, OtherCalls DEF Call, Runs, ch_init
<1>2. {"tm_mutex", "hlpasswd_lock", "tfm_lock", "tlock", "conf_rcl", "am_rcl", "cm_lock", "mlock", "bp_lock"} = Locks
  BY DEF Locks, Mutexes, RCLs
<1>3. NoReads(config_value) /\ NoReads(cm_access)
  BY <1>2, NoReadsIn DEF config_value, cm_access, Passing, Kinds, Placed, RCLs, Locks
<1>4. NoReads(notices)
  <2> DEFINE all == <<Op("send", "clients")>>
  <2>1. all \in Seq(Steps) /\ NoReads(all)
    BY SendIs, NoReadsIn DEF Placed, RCLs, Kinds, Call, Runs
  <2> HIDE DEF all
  <2>2. NoReads(cm_access \o all)
    BY <1>1, <1>3, <2>1, NoReadsConcat
  <2> QED
    BY <2>2 DEF notices, all
<1>5. NoReads(config_init) /\ NoReads(ch_init) /\ NoReads(am_change)
  BY <1>2, NoReadsIn DEF RCLs, config_init, ch_init, multiplexer_change, am_change
<1>6. NoReads(tm_init) /\ NoReads(tracker_init)
  BY <1>1, <1>2, <1>3, NoReadsIn DEF tm_init, tracker_init
<1>7. NoReads(am_init)
  <2> DEFINE r == config_value \o am_change
             w == Within("hlpasswd_lock", r)
  <2>0. r \in Seq(Steps) /\ NoReads(r)
    BY <1>1, <1>3, <1>5, NoReadsConcat, ConcatIs
  <2> HIDE DEF r
  <2>1. NoReads(w)
    BY <1>2, <2>0, NoReadsIn
  <2>2. w \in Seq(Steps)
    <3>1. "hlpasswd_lock" \in Locks
      BY <1>2
    <3>2. /\ <<Op("take", "hlpasswd_lock")>> \in Seq(Steps)
          /\ <<Op("give", "hlpasswd_lock")>> \in Seq(Steps)
      BY <3>1, OpIs, OneIs DEF Placed, Kinds
    <3> QED
      BY <2>0, <3>2, ConcatIs DEF Within
  <2> HIDE DEF w
  <2>3. NoReads(am_change \o w)
    BY <1>1, <1>5, <2>1, <2>2, NoReadsConcat
  <2> QED
    BY <2>3 DEF am_init, w, r
<1>8. NoReads(f_init)
  <2> DEFINE d == <<Op("drain", "bp_lock")>>
  <2>1. d \in Seq(Steps) /\ NoReads(d)
    BY <1>2, DrainIs, NoReadsIn DEF Placed, RCLs, Kinds, Call, Runs
  <2> HIDE DEF d
  <2>2. d \o config_value \in Seq(Steps) /\ NoReads(d \o config_value)
    BY <1>1, <1>3, <2>1, NoReadsConcat, ConcatIs
  <2>3. NoReads(Within("bp_lock", d \o config_value))
    BY <1>2, <2>2, NoReadsIn
  <2> QED
    BY <2>3 DEF f_init, d
<1>9. NoReads(tfm_init)
  <2>1. config_value \o notices \in Seq(Steps) /\ NoReads(config_value \o notices)
    BY <1>1, <1>3, <1>4, NoReadsConcat, ConcatIs
  <2> QED
    BY <1>2, <2>1, NoReadsIn DEF tfm_init
<1> QED
  BY <1>1, <1>5, <1>6, <1>7, <1>8, <1>9, AccountCalls, TransferCalls, OtherCalls DEF Change, ch_init

LEMMA ServerInitIs == Change(server_init)
<1> DEFINE a == config_init \o tm_init
           b == a \o am_init
           c == b \o ch_init
           d == c \o f_init
           e == d \o tfm_init
<1>1. server_init = e \o tracker_init
  BY DEF server_init
<1>2. Change(a)
  BY InitCalls, ChangesInARow
<1> HIDE DEF a
<1>3. Change(b)
  BY <1>2, InitCalls, ChangesInARow
<1> HIDE DEF b
<1>4. Change(c)
  BY <1>3, InitCalls, ChangesInARow
<1> HIDE DEF c
<1>5. Change(d)
  BY <1>4, InitCalls, ChangesInARow
<1> HIDE DEF d
<1>6. Change(e)
  BY <1>5, InitCalls, ChangesInARow
<1> HIDE DEF e
<1> QED
  BY <1>1, <1>6, InitCalls, ChangesInARow
-----------------------------------------------------------------------------
(* What a thread has, it gives back in what it has left of its calls, unless it*)
(* is one that has forgotten to.                                               *)

LocksShape ==
    /\ todo \in [ServerThreads -> Seq(Steps)]
    /\ kept \in [ServerThreads -> Seq(Steps)]
    /\ handling \subseteq ServerThreads
    /\ owner \in [Locks -> ServerThreads \cup {None}]
    /\ readers \in [RCLs -> [ServerThreads -> Int]]

Accounts(t) ==
    /\ Runs(todo[t]) /\ Runs(kept[t])
    /\ t \notin handling => kept[t] = <<>>
    /\ t \in handling => NoReads(todo[t])
    /\ t \notin forgotten =>
           \A l \in Locks : owner[l] = t => Pending(Own(l), todo[t]) \/ Pending(Own(l), kept[t])
    /\ \A l \in RCLs : /\ readers[l][t] <= 1
                       /\ readers[l][t] > 0 => Pending(Read(l), todo[t]) \/ Pending(Read(l), kept[t])

LocksInv == LocksShape /\ \A t \in ServerThreads : Accounts(t)

LEMMA EmptyIs ==
    /\ <<>> \in Seq(Steps) /\ Runs(<<>>) /\ NoReads(<<>>)
    /\ \A x : ~Pending(x, <<>>)
<1> DEFINE s == <<>>
<1>1. s \in Seq(Steps) /\ \A i \in 1 .. Len(s) : FALSE
  OBVIOUS
<1> HIDE DEF s
<1>2. Runs(s) /\ NoReads(s) /\ \A x : ~Pending(x, s)
  BY <1>1 DEF Runs, Matched, Orderly, NoReads, Pending
<1> QED
  BY <1>2 DEF s

(* The first step of what is left is done. *)
LEMMA StepDone ==
    ASSUME NEW s, Runs(s), s # <<>>
    PROVE  /\ Runs(Tail(s)) /\ Head(s) \in Steps /\ (NoReads(s) => NoReads(Tail(s)) /\ Head(s).kind # "read")
           /\ \A x \in Holds :
                 /\ Acquires(Head(s), x) => Pending(x, Tail(s)) /\ ~Pending(x, s)
                 /\ Pending(x, s) => Releases(Head(s), x) \/ Pending(x, Tail(s))
                 /\ Pending(x, s) => Allowed(Head(s), x)
<1> DEFINE r == Tail(s)
           n == Len(s)
           o == Head(s)
<1>1. /\ s \in Seq(Steps) /\ n \in Nat /\ n >= 1
      /\ r \in Seq(Steps) /\ Len(r) = n - 1
      /\ \A i \in 1 .. n - 1 : r[i] = s[i + 1]
      /\ o = s[1] /\ o \in Steps
  BY DEF Runs
<1>2. Matched(s) /\ Orderly(s)
  BY DEF Runs
<1> HIDE DEF r, n, o
<1>n. n \in Nat /\ n >= 1
  BY <1>1
<1>3. \A x \in Holds : \A i \in 1 .. n : \A j \in 1 .. n - 1 : HeldFrom(i + 1, j + 1, x, s) <=> HeldFrom(i, j, x, r)
  <2> SUFFICES ASSUME NEW x \in Holds, NEW i \in 1 .. n, NEW j \in 1 .. n - 1
               PROVE  HeldFrom(i + 1, j + 1, x, s) <=> HeldFrom(i, j, x, r)
    OBVIOUS
  <2>1. Releases(s[j + 1], x) <=> Releases(r[j], x)
    BY <1>1
  <2>2. ASSUME \A k \in i + 1 .. (j + 1) - 1 : ~Acquires(s[k], x)
        PROVE  \A k \in i .. j - 1 : ~Acquires(r[k], x)
    <3> SUFFICES ASSUME NEW k \in i .. j - 1
                 PROVE  ~Acquires(r[k], x)
      OBVIOUS
    <3>1. k + 1 \in i + 1 .. (j + 1) - 1 /\ k \in 1 .. n - 1
      BY <1>n
    <3> QED
      BY <1>1, <2>2, <3>1
  <2>3. ASSUME \A k \in i .. j - 1 : ~Acquires(r[k], x)
        PROVE  \A k \in i + 1 .. (j + 1) - 1 : ~Acquires(s[k], x)
    <3> SUFFICES ASSUME NEW k \in i + 1 .. (j + 1) - 1
                 PROVE  ~Acquires(s[k], x)
      OBVIOUS
    <3>1. k - 1 \in i .. j - 1 /\ k - 1 \in 1 .. n - 1 /\ (k - 1) + 1 = k
      BY <1>n
    <3>2. s[(k - 1) + 1] = r[k - 1]
      BY <1>1, <3>1
    <3> QED
      BY <2>3, <3>1, <3>2
  <2> QED
    BY <2>1, <2>2, <2>3, Zenon DEF HeldFrom
<1>4. Matched(r)
  <2> SUFFICES ASSUME NEW x \in Holds, NEW i \in 1 .. n - 1, Acquires(r[i], x)
               PROVE  \E j \in i + 1 .. n - 1 : HeldFrom(i + 1, j, x, r)
    BY <1>1 DEF Matched
  <2>1. i + 1 \in 1 .. n /\ Acquires(s[i + 1], x)
    BY <1>1
  <2>2. PICK j \in (i + 1) + 1 .. n : HeldFrom((i + 1) + 1, j, x, s)
    BY <1>2, <2>1 DEF Matched, n
  <2>3. j - 1 \in i + 1 .. n - 1 /\ j - 1 \in 1 .. n - 1 /\ (j - 1) + 1 = j
    BY <1>n
  <2>4. HeldFrom(i + 1, j - 1, x, r)
    BY <1>3, <2>1, <2>2, <2>3
  <2> QED
    BY <2>3, <2>4
<1>5. Orderly(r)
  <2> SUFFICES ASSUME NEW x \in Holds, NEW i \in 1 .. n - 1, NEW j \in i .. n - 1, HeldFrom(i, j, x, r)
               PROVE  Allowed(r[i], x)
    BY <1>1 DEF Orderly
  <2>1. i + 1 \in 1 .. n /\ j + 1 \in i + 1 .. n /\ j \in 1 .. n - 1 /\ i \in 1 .. n
    BY <1>n
  <2>2. HeldFrom(i + 1, j + 1, x, s)
    BY <1>3, <2>1
  <2>3. Allowed(s[i + 1], x)
    BY <1>2, <2>1, <2>2 DEF Orderly, n
  <2> QED
    BY <1>1, <2>3
<1>6. ASSUME NEW x \in Holds, Acquires(o, x)
      PROVE  Pending(x, r) /\ ~Pending(x, s)
  <2>1. 1 \in 1 .. n /\ Acquires(s[1], x)
    BY <1>1, <1>6
  <2>2. PICK j \in 1 + 1 .. n : HeldFrom(1 + 1, j, x, s)
    BY <1>2, <2>1 DEF Matched, n
  <2>3. j - 1 \in 1 .. n - 1 /\ (j - 1) + 1 = j
    BY <1>n
  <2>4. HeldFrom(1, j - 1, x, r)
    BY <1>3, <2>1, <2>2, <2>3
  <2>5. Pending(x, r)
    BY <1>1, <2>3, <2>4 DEF Pending
  <2>6. ~Pending(x, s)
    <3> SUFFICES ASSUME NEW k \in 1 .. n, HeldFrom(1, k, x, s)
                 PROVE  FALSE
      BY DEF Pending, n
    <3>1. CASE k = 1
      BY <1>1, <1>6, <3>1 DEF HeldFrom, Acquires, Releases
    <3>2. CASE k # 1
      <4>1. 1 \in 1 .. k - 1
        BY <1>n, <3>2
      <4> QED
        BY <2>1, <4>1 DEF HeldFrom
    <3> QED
      BY <3>1, <3>2
  <2> QED
    BY <2>5, <2>6
<1>7. ASSUME NEW x \in Holds, Pending(x, s), ~Releases(o, x)
      PROVE  Pending(x, r)
  <2>1. PICK j \in 1 .. n : HeldFrom(1, j, x, s)
    BY <1>7 DEF Pending, n
  <2>2. j # 1
    BY <1>1, <1>7, <2>1 DEF HeldFrom
  <2>3. j - 1 \in 1 .. n - 1 /\ (j - 1) + 1 = j /\ 1 \in 1 .. n
    BY <1>n, <2>2
  <2>4. HeldFrom(1 + 1, j, x, s)
    <3>1. \A k \in 1 + 1 .. j - 1 : k \in 1 .. j - 1
      BY <1>n
    <3> QED
      BY <2>1, <3>1, Zenon DEF HeldFrom
  <2>5. HeldFrom(1, j - 1, x, r)
    BY <1>3, <2>3, <2>4
  <2> QED
    BY <1>1, <2>3, <2>5 DEF Pending
<1>8. ASSUME NEW x \in Holds, Pending(x, s)
      PROVE  Allowed(o, x)
  <2>1. PICK j \in 1 .. n : HeldFrom(1, j, x, s)
    BY <1>8 DEF Pending, n
  <2>2. 1 \in 1 .. n
    BY <1>n
  <2> QED
    BY <1>1, <1>2, <2>1, <2>2 DEF Orderly, n
<1>9. NoReads(s) => NoReads(r) /\ o.kind # "read"
  <2>1. \A i \in 1 .. n - 1 : i + 1 \in 1 .. n
    BY <1>n
  <2> QED
    BY <1>1, <2>1 DEF NoReads, n
<1> QED
  BY <1>1, <1>4, <1>5, <1>6, <1>7, <1>8, <1>9 DEF Runs, r, o

(* A thread that did not run. *)
LEMMA OthersAccount ==
    ASSUME NEW t \in ServerThreads, Accounts(t), todo'[t] = todo[t], kept'[t] = kept[t],
           t \in handling' <=> t \in handling, t \in forgotten => t \in forgotten',
           \A l \in Locks : owner'[l] = t => owner[l] = t,
           \A l \in RCLs : readers'[l][t] = readers[l][t]
    PROVE  Accounts(t)'
<1>1. Runs(todo'[t]) /\ Runs(kept'[t]) /\ (t \notin handling' => kept'[t] = <<>>) /\ (t \in handling' => NoReads(todo'[t]))
  BY DEF Accounts
<1>2. t \notin forgotten' =>
          \A l \in Locks : owner'[l] = t => Pending(Own(l), todo'[t]) \/ Pending(Own(l), kept'[t])
  BY DEF Accounts
<1>3. \A l \in RCLs : /\ readers'[l][t] <= 1
                      /\ readers'[l][t] > 0 => Pending(Read(l), todo'[t]) \/ Pending(Read(l), kept'[t])
  BY DEF Accounts
<1> QED
  BY <1>1, <1>2, <1>3 DEF Accounts, Locks, Mutexes, RCLs

(* A thread that did one step of its call. *)
LEMMA AccountAfter ==
    ASSUME NEW t \in ServerThreads, Accounts(t), todo[t] # <<>>, todo'[t] = Tail(todo[t]), kept'[t] = kept[t],
           t \in handling' <=> t \in handling, t \in forgotten => t \in forgotten',
           t \notin forgotten' => \A l \in Locks : owner'[l] = t =>
               \/ owner[l] = t /\ ~Releases(Head(todo[t]), Own(l))
               \/ Acquires(Head(todo[t]), Own(l)),
           \A l \in RCLs : readers[l][t] \in Int,
           \A l \in RCLs :
               \/ readers'[l][t] = readers[l][t] /\ ~Releases(Head(todo[t]), Read(l))
               \/ readers'[l][t] = readers[l][t] + 1 /\ Acquires(Head(todo[t]), Read(l))
               \/ readers'[l][t] = readers[l][t] - 1
    PROVE  Accounts(t)'
<1> DEFINE s == todo[t]
           r == Tail(s)
           o == Head(s)
           k == kept[t]
<1>1. /\ Runs(s) /\ Runs(k) /\ (t \notin handling => k = <<>>) /\ (t \in handling => NoReads(s))
      /\ t \notin forgotten => \A l \in Locks : owner[l] = t => Pending(Own(l), s) \/ Pending(Own(l), k)
      /\ \A l \in RCLs : /\ readers[l][t] <= 1
                         /\ readers[l][t] > 0 => Pending(Read(l), s) \/ Pending(Read(l), k)
  BY DEF Accounts
<1>2. /\ Runs(r) /\ (NoReads(s) => NoReads(r) /\ o.kind # "read")
      /\ \A x \in Holds : /\ Acquires(o, x) => Pending(x, r) /\ ~Pending(x, s)
                          /\ Pending(x, s) => Releases(o, x) \/ Pending(x, r)
  BY <1>1, StepDone
<1>3. todo'[t] = r /\ kept'[t] = k
  OBVIOUS
<1>4. t \notin forgotten' => t \notin forgotten /\ \A l \in Locks : owner'[l] = t =>
          (owner[l] = t /\ ~Releases(o, Own(l))) \/ Acquires(o, Own(l))
  OBVIOUS
<1>5. \A l \in RCLs :
          \/ readers'[l][t] = readers[l][t] /\ ~Releases(o, Read(l))
          \/ readers'[l][t] = readers[l][t] + 1 /\ Acquires(o, Read(l))
          \/ readers'[l][t] = readers[l][t] - 1
  OBVIOUS
<1> HIDE DEF s, r, o, k
<1>6. t \notin forgotten' => \A l \in Locks : owner'[l] = t => Pending(Own(l), r) \/ Pending(Own(l), k)
  BY <1>1, <1>2, <1>4, HoldIs
<1>7. ASSUME NEW l \in RCLs
      PROVE  /\ readers'[l][t] <= 1
             /\ readers'[l][t] > 0 => Pending(Read(l), r) \/ Pending(Read(l), k)
  <2>1. Read(l) \in Holds
    BY HoldIs
  <2>2. CASE readers'[l][t] = readers[l][t] /\ ~Releases(o, Read(l))
    BY <1>1, <1>2, <2>1, <2>2
  <2>3. CASE readers'[l][t] = readers[l][t] + 1 /\ Acquires(o, Read(l))
    <3>1. Pending(Read(l), r) /\ ~Pending(Read(l), s)
      BY <1>2, <2>1, <2>3
    <3>2. t \notin handling
      BY <1>1, <1>2, <2>3 DEF Acquires, Read
    <3>3. ~Pending(Read(l), k)
      BY <1>1, <3>2, EmptyIs
    <3>4. ~(readers[l][t] > 0)
      BY <1>1, <3>1, <3>3
    <3> QED
      BY <2>3, <3>1, <3>4
  <2>4. CASE readers'[l][t] = readers[l][t] - 1
    <3>1. readers[l][t] <= 1
      BY <1>1
    <3> QED
      BY <2>4, <3>1
  <2> QED
    BY <1>5, <2>2, <2>3, <2>4
<1> QED
  BY <1>1, <1>2, <1>3, <1>6, <1>7 DEF Accounts, Locks, Mutexes, RCLs

LEMMA Moved ==
    ASSUME LocksInv, NEW t \in ServerThreads, todo[t] # <<>>, todo' = [todo EXCEPT ![t] = Tail(todo[t])],
           UNCHANGED <<kept, handling>>, forgotten \subseteq forgotten',
           owner' \in [Locks -> ServerThreads \cup {None}],
           readers' \in [RCLs -> [ServerThreads -> Int]],
           t \notin forgotten' => \A l \in Locks : owner'[l] = t =>
               \/ owner[l] = t /\ ~Releases(Head(todo[t]), Own(l))
               \/ Acquires(Head(todo[t]), Own(l)),
           \A l \in RCLs :
               \/ readers'[l][t] = readers[l][t] /\ ~Releases(Head(todo[t]), Read(l))
               \/ readers'[l][t] = readers[l][t] + 1 /\ Acquires(Head(todo[t]), Read(l))
               \/ readers'[l][t] = readers[l][t] - 1,
           \A u \in ServerThreads \ {t} : /\ \A l \in Locks : owner'[l] = u => owner[l] = u
                                          /\ \A l \in RCLs : readers'[l][u] = readers[l][u]
    PROVE  LocksInv'
<1>1. todo'[t] = Tail(todo[t]) /\ \A u \in ServerThreads \ {t} : todo'[u] = todo[u]
  BY DEF LocksInv, LocksShape
<1>2. Tail(todo[t]) \in Seq(Steps)
  BY DEF LocksInv, LocksShape
<1>3. LocksShape'
  <2>1. todo' \in [ServerThreads -> Seq(Steps)]
    BY <1>2 DEF LocksInv, LocksShape
  <2> QED
    BY <2>1 DEF LocksInv, LocksShape, ServerThreads, Locks, Mutexes, RCLs, Steps, Placed, Ops, Kinds
<1>4. Accounts(t)'
  <2>1. Accounts(t) /\ \A l \in RCLs : readers[l][t] \in Int
    BY DEF LocksInv, LocksShape
  <2> QED
    BY <1>1, <2>1, AccountAfter
<1>5. ASSUME NEW u \in ServerThreads \ {t}
      PROVE  Accounts(u)'
  <2>1. Accounts(u) /\ todo'[u] = todo[u] /\ kept'[u] = kept[u] /\ (u \in handling' <=> u \in handling)
    BY <1>1, <1>5 DEF LocksInv
  <2> QED
    BY <1>5, <2>1, OthersAccount
<1> QED
  BY <1>3, <1>4, <1>5 DEF LocksInv, ServerThreads

(* A step that leaves every lock alone. *)
LEMMA WaitedStep ==
    ASSUME LocksInv, NEW t \in ServerThreads, todo[t] # <<>>, Done(t),
           UNCHANGED <<kept, handling, owner, readers, forgotten>>,
           Head(todo[t]).kind \in {"pass", "drain", "send", "poll"}
    PROVE  LocksInv'
<1>1. \A x : ~Releases(Head(todo[t]), x)
  BY DEF Releases
<1> QED
  BY <1>1, Moved DEF Done, LocksInv, LocksShape

LEMMA TakeStep ==
    ASSUME LocksInv, NEW t \in ServerThreads, Take(t)
    PROVE  LocksInv'
<1> DEFINE o == Head(todo[t])
<1>1. /\ todo[t] # <<>> /\ o.kind = "take" /\ owner' = [owner EXCEPT ![o.on] = t]
      /\ todo' = [todo EXCEPT ![t] = Tail(todo[t])]
      /\ UNCHANGED <<kept, handling, readers, forgotten>>
  BY DEF Take, Does, Done, On
<1> HIDE DEF o
<1>2. \A l \in Locks : owner'[l] = t => (owner[l] = t /\ ~Releases(o, Own(l))) \/ Acquires(o, Own(l))
  BY <1>1 DEF Acquires, Releases, Own, LocksInv, LocksShape
<1>3. \A l \in RCLs : ~Releases(o, Read(l))
  BY <1>1 DEF Releases, Read
<1>4. /\ owner' \in [Locks -> ServerThreads \cup {None}]
      /\ readers' \in [RCLs -> [ServerThreads -> Int]]
      /\ \A u \in ServerThreads \ {t} : /\ \A l \in Locks : owner'[l] = u => owner[l] = u
                                        /\ \A l \in RCLs : readers'[l][u] = readers[l][u]
  BY <1>1 DEF LocksInv, LocksShape
<1> QED
  BY <1>1, <1>2, <1>3, <1>4, Moved DEF o

LEMMA GiveStep ==
    ASSUME LocksInv, NEW t \in ServerThreads, Give(t) \/ Write(t)
    PROVE  LocksInv'
<1> DEFINE o == Head(todo[t])
<1>1. /\ todo[t] # <<>> /\ o.kind \in {"give", "write"} /\ owner' = [owner EXCEPT ![o.on] = None]
      /\ todo' = [todo EXCEPT ![t] = Tail(todo[t])]
      /\ UNCHANGED <<kept, handling, readers, forgotten>>
  BY DEF Give, Write, Does, Done, On
<1> HIDE DEF o
<1>2. \A u \in ServerThreads : u # None
  BY ServerThreadsAssumption DEF ServerThreads
<1>3. \A l \in Locks : owner'[l] = t => owner[l] = t /\ ~Releases(o, Own(l))
  BY <1>1, <1>2 DEF Releases, Own, LocksInv, LocksShape
<1>4. \A l \in RCLs : ~Releases(o, Read(l))
  BY <1>1 DEF Releases, Read
<1>5. /\ owner' \in [Locks -> ServerThreads \cup {None}]
      /\ readers' \in [RCLs -> [ServerThreads -> Int]]
      /\ \A u \in ServerThreads \ {t} : /\ \A l \in Locks : owner'[l] = u => owner[l] = u
                                        /\ \A l \in RCLs : readers'[l][u] = readers[l][u]
  BY <1>1, <1>2 DEF LocksInv, LocksShape
<1> QED
  BY <1>1, <1>3, <1>4, <1>5, Moved DEF o

(* From here on nothing is said of what the thread owns. *)
LEMMA KeepStep ==
    ASSUME LocksInv, NEW t \in ServerThreads, Keep(t)
    PROVE  LocksInv'
<1> DEFINE o == Head(todo[t])
<1>1. /\ todo[t] # <<>> /\ o.kind = "keep" /\ forgotten' = forgotten \cup {t}
      /\ todo' = [todo EXCEPT ![t] = Tail(todo[t])]
      /\ UNCHANGED <<kept, handling, owner, readers>>
  BY DEF Keep, Does, Done, On
<1> HIDE DEF o
<1>2. \A l \in RCLs : ~Releases(o, Read(l))
  BY <1>1 DEF Releases, Read
<1>3. /\ owner' \in [Locks -> ServerThreads \cup {None}]
      /\ readers' \in [RCLs -> [ServerThreads -> Int]]
      /\ forgotten \subseteq forgotten' /\ t \in forgotten'
  BY <1>1 DEF LocksInv, LocksShape
<1> QED
  BY <1>1, <1>2, <1>3, Moved DEF o

LEMMA ReadLockStep ==
    ASSUME LocksInv, NEW t \in ServerThreads, BeginRead(t)
    PROVE  LocksInv'
<1> DEFINE o == Head(todo[t])
<1>1. /\ todo[t] # <<>> /\ o.kind = "read" /\ readers' = [readers EXCEPT ![o.on][t] = readers[o.on][t] + 1]
      /\ todo' = [todo EXCEPT ![t] = Tail(todo[t])]
      /\ UNCHANGED <<kept, handling, owner, forgotten>>
  BY DEF BeginRead, Does, Done, On
<1> HIDE DEF o
<1>2. \A l \in RCLs : /\ l = o.on => readers'[l][t] = readers[l][t] + 1 /\ Acquires(o, Read(l))
                      /\ l # o.on => readers'[l][t] = readers[l][t] /\ ~Releases(o, Read(l))
  BY <1>1 DEF Acquires, Releases, Read, LocksInv, LocksShape
<1>3. \A l \in Locks : ~Releases(o, Own(l))
  BY <1>1 DEF Releases, Own
<1>4. /\ owner' \in [Locks -> ServerThreads \cup {None}]
      /\ readers' \in [RCLs -> [ServerThreads -> Int]]
      /\ \A u \in ServerThreads \ {t} : /\ \A l \in Locks : owner'[l] = u => owner[l] = u
                                        /\ \A l \in RCLs : readers'[l][u] = readers[l][u]
  <2>1. /\ readers \in [RCLs -> [ServerThreads -> Int]]
        /\ owner \in [Locks -> ServerThreads \cup {None}] /\ owner' = owner
    BY <1>1 DEF LocksInv, LocksShape
  <2>2. CASE o.on \in RCLs
    <3> DEFINE r == [readers[o.on] EXCEPT ![t] = readers[o.on][t] + 1]
    <3>1. readers[o.on] \in [ServerThreads -> Int]
      BY <2>1, <2>2
    <3>2. r \in [ServerThreads -> Int] /\ \A u \in ServerThreads \ {t} : r[u] = readers[o.on][u]
      BY <3>1
    <3>3. readers' = [readers EXCEPT ![o.on] = r]
      BY <1>1, <2>1, <2>2
    <3> HIDE DEF r
    <3> QED
      BY <2>1, <2>2, <3>2, <3>3
  <2>3. CASE o.on \notin RCLs
    <3>1. readers' = readers
      BY <1>1, <2>1, <2>3
    <3> QED
      BY <2>1, <3>1
  <2> QED
    BY <2>2, <2>3
<1> QED
  BY <1>1, <1>2, <1>3, <1>4, Moved DEF o

LEMMA ReadUnlockStep ==
    ASSUME LocksInv, NEW t \in ServerThreads, EndRead(t)
    PROVE  LocksInv'
<1> DEFINE o == Head(todo[t])
<1>1. /\ todo[t] # <<>> /\ o.kind = "unread" /\ readers' = [readers EXCEPT ![o.on][t] = readers[o.on][t] - 1]
      /\ todo' = [todo EXCEPT ![t] = Tail(todo[t])]
      /\ UNCHANGED <<kept, handling, owner, forgotten>>
  BY DEF EndRead, Does, Done, On
<1> HIDE DEF o
<1>2. \A l \in RCLs : /\ l = o.on => readers'[l][t] = readers[l][t] - 1
                      /\ l # o.on => readers'[l][t] = readers[l][t] /\ ~Releases(o, Read(l))
  BY <1>1 DEF Releases, Read, LocksInv, LocksShape
<1>3. \A l \in Locks : ~Releases(o, Own(l))
  BY <1>1 DEF Releases, Own
<1>4. /\ owner' \in [Locks -> ServerThreads \cup {None}]
      /\ readers' \in [RCLs -> [ServerThreads -> Int]]
      /\ \A u \in ServerThreads \ {t} : /\ \A l \in Locks : owner'[l] = u => owner[l] = u
                                        /\ \A l \in RCLs : readers'[l][u] = readers[l][u]
  <2>1. /\ readers \in [RCLs -> [ServerThreads -> Int]]
        /\ owner \in [Locks -> ServerThreads \cup {None}] /\ owner' = owner
    BY <1>1 DEF LocksInv, LocksShape
  <2>2. CASE o.on \in RCLs
    <3> DEFINE r == [readers[o.on] EXCEPT ![t] = readers[o.on][t] - 1]
    <3>1. readers[o.on] \in [ServerThreads -> Int]
      BY <2>1, <2>2
    <3>2. r \in [ServerThreads -> Int] /\ \A u \in ServerThreads \ {t} : r[u] = readers[o.on][u]
      BY <3>1
    <3>3. readers' = [readers EXCEPT ![o.on] = r]
      BY <1>1, <2>1, <2>2
    <3> HIDE DEF r
    <3> QED
      BY <2>1, <2>2, <3>2, <3>3
  <2>3. CASE o.on \notin RCLs
    <3>1. readers' = readers
      BY <1>1, <2>1, <2>3
    <3> QED
      BY <2>1, <3>1
  <2> QED
    BY <2>2, <2>3
<1> QED
  BY <1>1, <1>2, <1>3, <1>4, Moved DEF o

(* A thread that begins or ends something: what it has left of its two calls   *)
(* accounts for the same as before.                                            *)
LEMMA Switched ==
    ASSUME LocksInv, NEW t \in ServerThreads, NEW s, NEW k, todo' = [todo EXCEPT ![t] = s], kept' = [kept EXCEPT ![t] = k],
           handling' \subseteq ServerThreads, UNCHANGED <<owner, readers, forgotten>>,
           Runs(s), Runs(k), t \notin handling' => k = <<>>, t \in handling' => NoReads(s),
           \A u \in ServerThreads \ {t} : u \in handling' <=> u \in handling,
           \A x \in Holds : Pending(x, todo[t]) \/ Pending(x, kept[t]) => Pending(x, s) \/ Pending(x, k)
    PROVE  LocksInv'
<1>1. /\ todo'[t] = s /\ kept'[t] = k
      /\ \A u \in ServerThreads \ {t} : todo'[u] = todo[u] /\ kept'[u] = kept[u]
  BY DEF LocksInv, LocksShape
<1>2. s \in Seq(Steps) /\ k \in Seq(Steps)
  BY DEF Runs
<1>3. LocksShape'
  <2>1. todo' \in [ServerThreads -> Seq(Steps)] /\ kept' \in [ServerThreads -> Seq(Steps)]
    BY <1>2 DEF LocksInv, LocksShape
  <2> QED
    BY <2>1 DEF LocksInv, LocksShape, ServerThreads, Locks, Mutexes, RCLs, Steps, Placed, Ops, Kinds
<1>4. Accounts(t)'
  <2>1. t \notin forgotten' =>
            \A l \in Locks : owner'[l] = t => Pending(Own(l), todo'[t]) \/ Pending(Own(l), kept'[t])
    BY <1>1, HoldIs DEF LocksInv, Accounts
  <2>2. \A l \in RCLs : /\ readers'[l][t] <= 1
                        /\ readers'[l][t] > 0 => Pending(Read(l), todo'[t]) \/ Pending(Read(l), kept'[t])
    BY <1>1, HoldIs DEF LocksInv, Accounts
  <2> QED
    BY <1>1, <2>1, <2>2 DEF Accounts, Locks, Mutexes, RCLs
<1>5. ASSUME NEW u \in ServerThreads \ {t}
      PROVE  Accounts(u)'
  <2>1. /\ Accounts(u) /\ todo'[u] = todo[u] /\ kept'[u] = kept[u] /\ (u \in handling' <=> u \in handling)
        /\ \A l \in Locks : owner'[l] = u => owner[l] = u
        /\ \A l \in RCLs : readers'[l][u] = readers[l][u]
    BY <1>1, <1>5 DEF LocksInv
  <2> QED
    BY <1>5, <2>1, OthersAccount
<1> QED
  BY <1>3, <1>4, <1>5 DEF LocksInv, ServerThreads

LEMMA BeginStep ==
    ASSUME LocksInv, NEW t \in ServerThreads, Begin(t)
    PROVE  LocksInv'
<1>1. PICK p \in CallsOf(t) : todo' = [todo EXCEPT ![t] = p]
  BY DEF Begin
<1>2. /\ todo[t] = <<>> /\ t \notin handling
      /\ UNCHANGED <<kept, handling, owner, readers, forgotten>>
  BY DEF Begin
<1>3. kept[t] = <<>> /\ kept' = [kept EXCEPT ![t] = <<>>]
  BY <1>2 DEF LocksInv, LocksShape, Accounts
<1>4. Runs(p)
  BY HelperCallsAre DEF Call
<1>5. /\ handling' \subseteq ServerThreads /\ t \notin handling'
      /\ \A u \in ServerThreads \ {t} : u \in handling' <=> u \in handling
      /\ \A x \in Holds : ~Pending(x, todo[t]) /\ ~Pending(x, kept[t])
  BY <1>2, <1>3, EmptyIs DEF LocksInv, LocksShape
<1> QED
  BY <1>1, <1>2, <1>3, <1>4, <1>5, EmptyIs, Switched

LEMMA SighupStep ==
    ASSUME LocksInv, NEW t \in ServerThreads, Sighup(t)
    PROVE  LocksInv'
<1>1. /\ t \notin handling /\ handling' = handling \cup {t}
      /\ kept' = [kept EXCEPT ![t] = todo[t]]
      /\ todo' = [todo EXCEPT ![t] = server_init]
      /\ UNCHANGED <<owner, readers, forgotten>>
  BY DEF Sighup
<1>2. Runs(server_init) /\ NoReads(server_init)
  BY ServerInitIs DEF Change, Call
<1>3. /\ Runs(todo[t]) /\ kept[t] = <<>>
      /\ handling' \subseteq ServerThreads /\ t \in handling'
      /\ \A u \in ServerThreads \ {t} : u \in handling' <=> u \in handling
  BY <1>1 DEF LocksInv, LocksShape, Accounts
<1>4. \A x \in Holds : Pending(x, todo[t]) \/ Pending(x, kept[t]) => Pending(x, server_init) \/ Pending(x, todo[t])
  BY <1>3, EmptyIs
<1> QED
  BY <1>1, <1>2, <1>3, <1>4, Switched

LEMMA ReturnStep ==
    ASSUME LocksInv, NEW t \in ServerThreads, Return(t)
    PROVE  LocksInv'
<1>1. /\ todo[t] = <<>> /\ handling' = handling \ {t}
      /\ todo' = [todo EXCEPT ![t] = kept[t]]
      /\ kept' = [kept EXCEPT ![t] = <<>>]
      /\ UNCHANGED <<owner, readers, forgotten>>
  BY DEF Return
<1>2. /\ Runs(kept[t])
      /\ handling' \subseteq ServerThreads /\ t \notin handling'
      /\ \A u \in ServerThreads \ {t} : u \in handling' <=> u \in handling
  BY <1>1 DEF LocksInv, LocksShape, Accounts
<1>3. \A x \in Holds : Pending(x, todo[t]) \/ Pending(x, kept[t]) => Pending(x, kept[t]) \/ Pending(x, <<>>)
  BY <1>1, EmptyIs
<1> QED
  BY <1>1, <1>2, <1>3, EmptyIs, Switched

LEMMA LocksAtFirst ==
    ASSUME LocksInit
    PROVE  LocksInv
<1>1. /\ todo = [t \in ServerThreads |-> <<>>] /\ kept = [t \in ServerThreads |-> <<>>] /\ handling = {}
      /\ owner = [l \in Locks |-> None] /\ readers = [l \in RCLs |-> [t \in ServerThreads |-> 0]]
  BY DEF LocksInit
<1>2. LocksShape
  BY <1>1, EmptyIs DEF LocksShape
<1>3. \A t \in ServerThreads : t # None
  BY ServerThreadsAssumption DEF ServerThreads
<1>4. \A t \in ServerThreads : Accounts(t)
  BY <1>1, <1>3, EmptyIs DEF Accounts
<1> QED
  BY <1>2, <1>4 DEF LocksInv

LEMMA LocksInductive ==
    ASSUME LocksInv, [LocksNext]_locksVars
    PROVE  LocksInv'
<1>1. CASE UNCHANGED locksVars
  <2>1. UNCHANGED <<todo, kept, handling, owner, readers, forgotten>>
    BY <1>1 DEF locksVars
  <2>2. LocksShape'
    BY <2>1 DEF LocksInv, LocksShape, ServerThreads, Locks, Mutexes, RCLs, Steps, Placed, Ops, Kinds
  <2>3. \A t \in ServerThreads : Accounts(t)'
    BY <2>1, OthersAccount DEF LocksInv
  <2> QED
    BY <2>2, <2>3 DEF LocksInv, ServerThreads
<1>2. ASSUME NEW t \in ServerThreads, Proceed(t) \/ Poll(t)
      PROVE  LocksInv'
  <2>1. CASE Pass(t)
    BY <2>1, WaitedStep DEF Pass, Does
  <2>2. CASE Drain(t)
    BY <2>2, WaitedStep DEF Drain, Does
  <2>3. CASE Send(t)
    BY <2>3, WaitedStep DEF Send, Does
  <2>4. CASE Poll(t)
    BY <2>4, WaitedStep DEF Poll, Does
  <2>5. CASE Take(t) \/ Give(t) \/ Write(t)
    BY <2>5, TakeStep, GiveStep
  <2>6. CASE Keep(t) \/ BeginRead(t) \/ EndRead(t) \/ Return(t)
    BY <2>6, KeepStep, ReadLockStep, ReadUnlockStep, ReturnStep
  <2> QED
    BY <1>2, <2>1, <2>2, <2>3, <2>4, <2>5, <2>6 DEF Proceed
<1>3. ASSUME NEW t \in ServerThreads, Begin(t) \/ Sighup(t)
      PROVE  LocksInv'
  BY <1>3, BeginStep, SighupStep
<1> QED
  BY <1>1, <1>2, <1>3 DEF LocksNext

-----------------------------------------------------------------------------
(* Whoever is waited for waits for something further on in the order.          *)
LEMMA WaitsFurther ==
    ASSUME LocksInv, NEW t \in ServerThreads, NEW u \in ServerThreads, u \in WaitsFor(t), WaitsFor(u) # {},
           ~ReadsAgain(u), ~ReloadsInside(u), u \notin forgotten
    PROVE  Weight(Head(todo[t])) < Weight(Head(todo[u]))
<1> DEFINE o == Head(todo[t])
           l == o.on
           p == Head(todo[u])
<1>1. /\ todo[t] # <<>> /\ todo[u] # <<>>
      /\ \/ o.kind \in {"pass", "take", "read"} /\ u = owner[l]
         \/ o.kind \in {"drain", "write", "keep"} /\ readers[l][u] > 0
  BY DEF WaitsFor, On
<1>2. Waits(p)
  BY DEF WaitsFor, On, Waits
<1>3. /\ Runs(todo[t]) /\ Runs(todo[u]) /\ kept[u] = <<>>
      /\ \A k \in Locks : owner[k] = u => Pending(Own(k), todo[u])
      /\ \A k \in RCLs : readers[k][u] > 0 => Pending(Read(k), todo[u])
  BY EmptyIs DEF LocksInv, Accounts, ReloadsInside
<1>4. /\ o \in Steps
      /\ \A x \in Holds : Pending(x, todo[u]) => Allowed(p, x)
  BY <1>1, <1>3, StepDone
<1>5. ~(p.kind = "pass" /\ p.on \in RCLs /\ readers[p.on][u] > 0)
  BY <1>1 DEF ReadsAgain, Does, On
<1> HIDE DEF o, p
<1>6. Placed(o.kind, l)
  BY <1>4 DEF Steps
<1>7. CASE o.kind \in {"pass", "take", "read"} /\ u = owner[l]
  <2>1. l \in Locks
    BY <1>6, <1>7, HoldIs DEF Placed
  <2>2. Allowed(p, Own(l))
    BY <1>3, <1>4, <1>7, <2>1, HoldIs
  <2>3. Level(Own(l)) < Weight(p)
    BY <1>2, <2>2, HoldIs DEF Allowed
  <2>4. Weight(o) = 2 * Position(l)
    BY <1>7 DEF Weight, Position
  <2> QED
    BY <2>1, <2>3, <2>4, HoldIs DEF o, p
<1>8. CASE o.kind \in {"drain", "write", "keep"} /\ readers[l][u] > 0
  <2>1. l \in RCLs
    BY <1>6, <1>8 DEF Placed
  <2>2. Allowed(p, Read(l))
    BY <1>3, <1>4, <1>8, <2>1, HoldIs
  <2>3. Level(Read(l)) < Weight(p)
    BY <1>2, <1>5, <1>8, <2>1, <2>2, HoldIs DEF Allowed
  <2>4. Weight(o) = 2 * Position(l) + 1
    BY <1>8 DEF Weight
  <2> QED
    BY <2>1, <2>3, <2>4, HoldIs DEF o, p
<1> QED
  BY <1>1, <1>7, <1>8 DEF o, p

LEMMA LocksAreInOrder ==
    ASSUME LocksInv
    PROVE  OnlyKnownCycles
<1> SUFFICES ASSUME NEW S \in SUBSET ServerThreads, Circular(S),
                    \A t \in S : ~ReadsAgain(t) /\ ~ReloadsInside(t) /\ t \notin forgotten
             PROVE  FALSE
  BY DEF OnlyKnownCycles
<1> DEFINE W(t) == Weight(Head(todo[t]))
<1>1. S # {} /\ \A t \in S : \E u \in S : u \in WaitsFor(t)
  BY DEF Circular
<1>2. \A t \in S : \A u \in S : u \in WaitsFor(t) => W(t) < W(u)
  <2> SUFFICES ASSUME NEW t \in S, NEW u \in S, u \in WaitsFor(t)
               PROVE  W(t) < W(u)
    OBVIOUS
  <2>1. WaitsFor(u) # {}
    BY <1>1
  <2> QED
    BY <2>1, WaitsFurther
<1>3. \A t \in S : W(t) \in 2 .. 7
  BY HoldIs
<1> HIDE DEF W
<1>4. \A n \in 2 .. 7 : \A t \in S : W(t) # n
  <2>1. \A t \in S : W(t) # 7
    BY <1>1, <1>2, <1>3
  <2>2. \A t \in S : W(t) # 6
    BY <1>1, <1>2, <1>3, <2>1
  <2>3. \A t \in S : W(t) # 5
    BY <1>1, <1>2, <1>3, <2>1, <2>2
  <2>4. \A t \in S : W(t) # 4
    BY <1>1, <1>2, <1>3, <2>1, <2>2, <2>3
  <2>5. \A t \in S : W(t) # 3
    BY <1>1, <1>2, <1>3, <2>1, <2>2, <2>3, <2>4
  <2>6. \A t \in S : W(t) # 2
    BY <1>1, <1>2, <1>3, <2>1, <2>2, <2>3, <2>4, <2>5
  <2> QED
    BY <2>1, <2>2, <2>3, <2>4, <2>5, <2>6
<1> QED
  BY <1>1, <1>3, <1>4

(* OnlyKnownCycles of ServerLocks: however many helpers there are, whichever   *)
(* clients submit accounts or do not read, and however often SIGHUP comes,     *)
(* threads wait for each other in a circle, or for themselves, only where a    *)
(* broadcast reads cm_lock again (ConnectionManager.c:405 and 246), a reload   *)
(* runs inside a call that has locks (main.c:103), or a thread was left with   *)
(* am_rcl by an entry of accounts (transaction_handler.c:1279-1287).           *)
THEOREM LocksAreOrdered == LocksSpec => []OnlyKnownCycles
<1>1. LocksInit => LocksInv
  BY LocksAtFirst
<1>2. LocksInv /\ [LocksNext]_locksVars => LocksInv'
  BY LocksInductive
<1>3. LocksInv => OnlyKnownCycles
  BY LocksAreInOrder
<1> QED
  BY <1>1, <1>2, <1>3, PTL DEF LocksSpec
=============================================================================
