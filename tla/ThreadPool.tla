-------------------------- MODULE ThreadPool ---------------------------
(* The pool of helper threads (src/ThreadManager.c, src/HThread.c) and the  *)
(* message queues it feeds them through (src/MQueue.c): the main thread     *)
(* (src/connection_handler.c) takes a thread for each event and sends it    *)
(* one message; the thread (src/helper_thread.c) handles it and puts itself *)
(* back.  A section of tm_mutex or of a queue's mutex is one step.          *)
EXTENDS Integers, Sequences, SequencesExt, FiniteSets

CONSTANTS
    Threads, NoThread,  \* bound: threads alive at once
    Limits,             \* <<max_inactive_threads, max_active_threads>>
    Environment         \* what may go wrong or change

ASSUME PoolAssumption ==
    /\ IsFiniteSet(Threads) /\ NoThread \notin Threads
    /\ Limits \subseteq (Nat \ {0}) \X (Nat \ {0})
    /\ Environment \subseteq {"reload", "no_more_threads", "spurious_wakeup"}

VARIABLES
    inactive_threads,       \* the stack, its top last
    active_thread_count,
    max_inactive_threads, max_active_threads,
    state,                  \* each thread: what it is doing
    queue,                  \* each thread's message queue
    main,                   \* what the main thread is doing
    taken,                  \* the thread tm_get_thread has returned to it
    event,                  \* the message it is to send
    woken_early,            \* history: some mqueue_recv has returned without one
    fault

counts == <<inactive_threads, active_thread_count>>
limits == <<max_inactive_threads, max_active_threads>>
vars == <<counts, limits, state, queue, main, taken, event, woken_early, fault>>

Events == {"HT_CONTROL_CONNECT", "HT_DATA_CONNECT", "HT_TRANSACTION"}

\* threads that pthread_create may use, and the ones a pool may be filled with
Unborn == {t \in Threads : state[t] = "none"}
Fillings(n) == {s \in [1 .. n -> Unborn] : \A i, j \in 1 .. n : i # j => s[i] # s[j]}
Missing(max) == IF max > Len(inactive_threads) + active_thread_count
                THEN max - Len(inactive_threads) - active_thread_count ELSE 0
\* how many of n threads the system makes
Spawned(n) == IF "no_more_threads" \in Environment THEN 0 .. n ELSE {n}

(* tm_init fills the pool, then ch_main polls.                              *)
Init == \E limit \in Limits, s \in [1 .. Cardinality(Threads) -> Threads] :
          /\ \A t \in Threads : \E i \in DOMAIN s : s[i] = t
          /\ limit[1] <= Cardinality(Threads)
          /\ max_inactive_threads = limit[1]
          /\ max_active_threads = limit[2]
          /\ \E n \in Spawned(limit[1]) : inactive_threads = SubSeq(s, 1, n)
          /\ state = [t \in Threads |->
                        IF t \in Range(inactive_threads) THEN "recv" ELSE "none"]
          /\ active_thread_count = 0
          /\ queue = [t \in Threads |-> <<>>]
          /\ main = "poll"
          /\ taken = NoThread
          /\ event = "none"
          /\ woken_early = FALSE
          /\ fault = "none"

Running == fault = "none"

(* tm_init, on SIGHUP: new limits; a pool that shrank is left as it is.     *)
tm_init == /\ Running /\ "reload" \in Environment
           /\ \E limit \in Limits :
                /\ max_inactive_threads' = limit[1]
                /\ max_active_threads' = limit[2]
                /\ Missing(limit[1]) <= Cardinality(Unborn)
                /\ \E n \in Spawned(Missing(limit[1])) : \E s \in Fillings(n) :
                     /\ inactive_threads' = inactive_threads \o s
                     /\ state' = [t \in Threads |-> IF t \in Range(s) THEN "recv"
                                                                      ELSE state[t]]
           /\ UNCHANGED <<active_thread_count, queue, main, taken, event, fault, woken_early>>
-----------------------------------------------------------------------------
(* ch_main: a connection is accepted or a transaction is there to be read.  *)
Poll == /\ Running /\ main = "poll"
        /\ event' \in Events
        /\ main' = "get"
        /\ UNCHANGED <<counts, limits, state, queue, taken, fault, woken_early>>

\* mutant: the thread is not counted
TakeUncounted(t, pool) == /\ inactive_threads' = pool
                          /\ taken' = t
                          /\ main' = "send"
                          /\ UNCHANGED active_thread_count

Take(t, pool) == /\ inactive_threads' = pool
                 /\ active_thread_count' = active_thread_count + 1
                 /\ taken' = t
                 /\ main' = "send"

AtLimit == active_thread_count >= max_active_threads

(* tm_get_thread: it waits in a loop while all slots are active ...         *)
GetWait == /\ Running /\ main = "get" /\ AtLimit
           /\ main' = "wait"
           /\ UNCHANGED <<counts, limits, state, queue, taken, event, fault, woken_early>>

\* mutant: the thread stays on the stack
GetPooledPeeks == /\ Running /\ main = "get" /\ ~AtLimit
                  /\ inactive_threads # <<>>
                  /\ Take(Last(inactive_threads), inactive_threads)
                  /\ UNCHANGED <<limits, state, queue, event, fault, woken_early>>

\* ... takes the thread returned last, if any is left in the pool ...
GetPooled == /\ Running /\ main = "get" /\ ~AtLimit
             /\ inactive_threads # <<>>
             /\ Take(Last(inactive_threads), Front(inactive_threads))
             /\ UNCHANGED <<limits, state, queue, event, fault, woken_early>>

\* ... or makes one ...
GetCreated == /\ Running /\ main = "get" /\ ~AtLimit
              /\ inactive_threads = <<>>
              /\ \E t \in Unborn : /\ Take(t, <<>>)
                                   /\ state' = [state EXCEPT ![t] = "recv"]
              /\ UNCHANGED <<limits, queue, event, fault, woken_early>>

\* ... or, where none can be made, waits once for one to be returned
GetFails == /\ Running /\ main = "get" /\ ~AtLimit
            /\ inactive_threads = <<>>
            /\ "no_more_threads" \in Environment
            /\ main' = "wait_for_one"
            /\ UNCHANGED <<counts, limits, state, queue, taken, event, fault, woken_early>>

GetReturned == /\ Running /\ main = "one_returned"
               /\ IF inactive_threads # <<>>
                  THEN /\ Take(Last(inactive_threads), Front(inactive_threads))
                       /\ UNCHANGED fault
                  ELSE /\ fault' = "pool_depleted"
                       /\ UNCHANGED <<counts, main, taken>>
               /\ UNCHANGED <<limits, state, queue, event, woken_early>>

\* mutant: no signal
WakeNobody == UNCHANGED main

\* tm_cond's waiter goes on
Wake == main' = CASE main = "wait"         -> "get"
                  [] main = "wait_for_one" -> "one_returned"
                  [] OTHER                 -> main

(* pthread_cond_wait may return without a signal: the first wait of         *)
(* tm_get_thread looks at the count again, the second goes on as if woken.  *)
MainWokenEarly == /\ Running /\ "spurious_wakeup" \in Environment
                  /\ main \in {"wait", "wait_for_one"}
                  /\ Wake
                  /\ UNCHANGED <<counts, limits, state, queue, taken, event, fault, woken_early>>

(* mqueue_send_int, mqueue_send_ptr *)
Send == /\ Running /\ main = "send"
        /\ queue' = [queue EXCEPT ![taken] = Append(@, event)]
        /\ main' = "poll"
        /\ taken' = NoThread
        /\ event' = "none"
        /\ UNCHANGED <<counts, limits, state, fault, woken_early>>
-----------------------------------------------------------------------------
\* a thread in the pool stays there, dead or not
Gone(t) == IF t \in Range(inactive_threads) \cup {taken} THEN "dead" ELSE "none"

(* mqueue_recv in helper_thread, and the switch of ht_exec.                 *)
Receive(t) == /\ Running /\ state[t] = "recv" /\ queue[t] # <<>>
              /\ queue' = [queue EXCEPT ![t] = Tail(@)]
              /\ state' = [state EXCEPT ![t] = Head(queue[t])]
              /\ UNCHANGED <<counts, limits, main, taken, event, fault, woken_early>>

\* ht_data_connect: the transfer is registered and its start awaited
Register(t) == /\ Running /\ state[t] = "HT_DATA_CONNECT"
               /\ state' = [state EXCEPT ![t] = "xfer_wait"]
               /\ UNCHANGED <<counts, limits, queue, main, taken, event, fault, woken_early>>

(* activate_download or activate_upload, of the transfer manager.  It need  *)
(* not come: a transfer that the monitor has dropped (TransferManager.c:250)*)
(* is never started, and its helper waits on.                               *)
Activate(t) == /\ Running /\ state[t] = "xfer_wait" /\ queue[t] = <<>>
               /\ queue' = [queue EXCEPT ![t] = <<"HT_DOWNLOAD">>]
               /\ UNCHANGED <<counts, limits, state, main, taken, event, fault, woken_early>>

StartTransfer(t) == /\ Running /\ state[t] = "xfer_wait" /\ queue[t] # <<>>
                    /\ queue' = [queue EXCEPT ![t] = Tail(@)]
                    /\ state' = [state EXCEPT ![t] = "HT_DOWNLOAD"]
                    /\ UNCHANGED <<counts, limits, main, taken, event, fault, woken_early>>

\* mqueue_recv waits once: an early return leaves message 0, HT_KILL
SpuriousWakeup(t) == /\ Running /\ "spurious_wakeup" \in Environment
                     /\ queue[t] = <<>>
                     /\ \/ /\ state[t] = "recv"
                           /\ state' = [state EXCEPT ![t] = Gone(t)]
                        \/ /\ state[t] = "xfer_wait"
                           /\ state' = [state EXCEPT ![t] = "HT_DOWNLOAD"]
                     /\ woken_early' = TRUE
                     /\ UNCHANGED <<counts, limits, queue, main, taken, event, fault>>

\* mutant: the thread is destroyed and pooled
tm_return_threadDestroyed(t) ==
    /\ Running /\ state[t] \in Events \cup {"HT_DOWNLOAD"}
    /\ state' = [state EXCEPT ![t] = "dead"]
    /\ inactive_threads' = Append(inactive_threads, t)
    /\ active_thread_count' = active_thread_count - 1
    /\ Wake
    /\ UNCHANGED <<limits, queue, taken, event, fault, woken_early>>

(* tm_return_thread, when the message is dealt with.  hthread_destroy sends *)
(* HT_KILL to the thread itself and frees the queue with it inside.         *)
tm_return_thread(t) ==
    /\ Running /\ state[t] \in Events \cup {"HT_DOWNLOAD"}
    /\ IF Len(inactive_threads) >= max_inactive_threads
       THEN /\ state' = [state EXCEPT ![t] = "destroyed"]
            /\ UNCHANGED inactive_threads
       ELSE /\ state' = [state EXCEPT ![t] = "recv"]
            /\ inactive_threads' = Append(inactive_threads, t)
    /\ active_thread_count' = active_thread_count - 1
    /\ Wake
    /\ UNCHANGED <<limits, queue, taken, event, fault, woken_early>>

(* mqueue_recv on the destroyed queue reads a freed node: the HT_KILL that  *)
(* was there, and the thread exits, or whatever is there now.               *)
ReceiveDestroyed(t) ==
    /\ Running /\ state[t] = "destroyed"
    /\ \/ /\ state' = [state EXCEPT ![t] = "none"]
          /\ UNCHANGED fault
       \/ /\ fault' = "use_after_free"
          /\ UNCHANGED state
    /\ UNCHANGED <<counts, limits, queue, main, taken, event, woken_early>>
-----------------------------------------------------------------------------
Main == Poll \/ GetWait \/ GetPooled \/ GetCreated \/ GetFails \/ GetReturned \/ Send

Helper(t) == \/ Receive(t) \/ Register(t) \/ StartTransfer(t)
             \/ tm_return_thread(t) \/ ReceiveDestroyed(t)

Next == \/ Main
        \/ MainWokenEarly
        \/ tm_init
        \/ \E t \in Threads : Helper(t) \/ Activate(t) \/ SpuriousWakeup(t)

Spec == Init /\ [][Next]_vars

\* running threads run on; a transfer may be started or not
FairSpec == Spec /\ WF_vars(Main) /\ \A t \in Threads : WF_vars(Helper(t))
-----------------------------------------------------------------------------
States == Events \cup {"none", "recv", "xfer_wait", "HT_DOWNLOAD", "destroyed", "dead"}

(* The types of the pool's variables and of the threads' states.            *)
TypeOK == /\ inactive_threads \in Seq(Threads)
          /\ active_thread_count \in Nat
          /\ <<max_inactive_threads, max_active_threads>> \in Limits
          /\ state \in [Threads -> States]
          /\ DOMAIN queue = Threads
          /\ main \in {"poll", "get", "wait", "wait_for_one", "one_returned", "send"}
          /\ taken \in Threads \cup {NoThread}
          /\ event \in Events \cup {"none"}
          /\ woken_early \in BOOLEAN

\* threads that were handed to the main thread and have not come back
Out == ({taken} \ {NoThread}) \cup
       {t \in Threads : \/ state[t] \in Events \cup {"xfer_wait", "HT_DOWNLOAD"}
                        \/ state[t] \in {"recv", "dead"} /\ queue[t] # <<>>}

(* active_thread_count is the number of threads out of the pool, which is   *)
(* what the limit in tm_get_thread is about.                                *)
ActiveCounted == active_thread_count = Cardinality(Out)

(* A pooled thread is alive, waits for a message with its queue empty, is   *)
(* in the pool once and has not been handed out.                            *)
PoolIsIdle == /\ IsInjective(inactive_threads)
              /\ ~woken_early => \A t \in Range(inactive_threads) :
                   state[t] = "recv" /\ queue[t] = <<>> /\ t \notin Out

\* the threads whose transfer has not been started, if it ever is
Unstarted == {t \in Threads : state[t] = "xfer_wait" /\ queue[t] = <<>>}

(* A main thread that waits while some thread is out of the pool gets one,  *)
(* under reloads and when no thread can be made, unless it comes to that    *)
(* every thread out of the pool waits for the start of a transfer, which    *)
(* the monitor may have dropped: no signal of tm_cond is lost.              *)
MainGetsThread ==
    main \in {"wait", "wait_for_one"} /\ Out # {}
      ~> \/ main = "send"
         \/ Out # {} /\ Out \subseteq Unstarted
         \/ ~Running \/ woken_early

(* Every message the main thread or the transfer manager has sent is taken  *)
(* up: the queue's owner is there to wait for it, or comes back to wait.    *)
MessagesHandled ==
    \A t \in Threads : queue[t] # <<>> ~> queue[t] = <<>> \/ ~Running \/ woken_early

(* doc/README.config:15: max_active_threads is the "Maximum number of       *)
(* threads to spawn".                                                       *)
SpawnedWithinMaximum ==
    Cardinality(Threads) - Cardinality(Unborn) <= max_active_threads
=============================================================================
