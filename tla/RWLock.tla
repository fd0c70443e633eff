---------------------------- MODULE RWLock ----------------------------
(* What a resource control lock promises its callers (src/RCL.h:3-22): any *)
(* number of readers or one writer, and no reader admitted once a writer   *)
(* has reserved the lock.  No mutexes, no counters, no condition variable. *)
CONSTANT Threads

VARIABLE status     \* what each thread has been granted

Statuses == {"out", "read", "reserved", "write"}

Init == status = [t \in Threads |-> "out"]

Having(S) == {t \in Threads : status[t] \in S}

Move(t, from, to) == /\ status[t] = from
                     /\ status' = [status EXCEPT ![t] = to]

ReadLock(t)    == Having({"reserved", "write"}) = {} /\ Move(t, "out", "read")
ReadUnlock(t)  == Move(t, "read", "out")
Reserve(t)     == Having({"reserved", "write"}) = {} /\ Move(t, "out", "reserved")
Complete(t)    == Having({"read"}) = {} /\ Move(t, "reserved", "write")
WriteUnlock(t) == Move(t, "write", "out")

Next == \E t \in Threads :
          \/ ReadLock(t) \/ ReadUnlock(t)
          \/ Reserve(t) \/ Complete(t) \/ WriteUnlock(t)

Spec == Init /\ [][Next]_status
=============================================================================
