----------------------- MODULE MultiplexerProofs -----------------------
(* What Multiplexer.tla model-checks for three connections, for any finite  *)
(* number of them, any initial room and any width of retfds, and whoever may*)
(* be kicked: a watched connection is in the poll table once and no other   *)
(* is, until a number is given out that somebody still uses; the table never*)
(* outgrows its memory, and the cursor keeps its place in the answer of a   *)
(* poll while entries are removed under it and added ahead of it.           *)
EXTENDS Multiplexer, SequenceTheorems, FiniteSetTheorems, TLAPS

InTable == [fd : Fds, revents : BOOLEAN]

Once == \A i, j \in 1 .. Len(fdtbl) : fdtbl[i].fd = fdtbl[j].fd => i = j

Watched == \A i \in 1 .. Len(fdtbl) :
              fdtbl[i].fd # Listener => conn[fdtbl[i].fd] = "watched"

Listed == \A f \in Conns :
             conn[f] = "watched" => \E i \in 1 .. Len(fdtbl) : fdtbl[i].fd = f

(* The descriptor ch_main has in hand is the one at the cursor. *)
AtCursor == main = "got" => curfd \in 1 .. Len(fdtbl) /\ fdtbl[curfd].fd = got

(* Where the answer of one poll is shared by several calls: entries up to   *)
(* the cursor are done with, but for the one in hand, and as many as retfds *)
(* counts are still ahead; or poll answered -1, and none is.                *)
Behind == \A i \in 1 .. Len(fdtbl) :
             i <= curfd /\ fdtbl[i].revents => \/ fdtbl[i].fd = Listener
                                               \/ main = "got" /\ i = curfd
Ahead == \/ retfds <= Cardinality(Reported)
         \/ Reported = {} /\ main = "scanning"

Walk == /\ main = "scanning" => pcomplete
        /\ main = "polling" => ~pcomplete
        /\ pcomplete => curfd <= Len(fdtbl) /\ Behind /\ Ahead
        /\ pcomplete /\ main = "got" => retfds > 0

(* Doubling gives room. *)
Room == fdtbl_size > 0

IInv == TypeOK /\ Room /\ Once /\ Watched /\ Listed /\ AtCursor /\ Walk
-----------------------------------------------------------------------------
(* Unsigned numbers, and the poll table as a sequence. *)

LEMMA UnsignedIs ==
    ASSUME NEW n \in Int
    PROVE  /\ Unsigned(n) \in 0 .. UIntMax
           /\ n \in 0 .. UIntMax => Unsigned(n) = n
<1>1. UIntMax \in Nat
  BY SizeAssumption
<1> DEFINE d == UIntMax + 1
<1>2. d \in Nat \ {0}
  BY <1>1
<1>3. n % d \in 0 .. d - 1 /\ (n \in 0 .. d - 1 => n % d = n)
  <2> HIDE DEF d
  <2> QED
    BY <1>2
<1> QED
  BY <1>1, <1>3 DEF Unsigned

LEMMA TableTypes ==
    ASSUME TypeOK
    PROVE  /\ fdtbl \in Seq(InTable) /\ Len(fdtbl) \in Nat /\ DOMAIN fdtbl = 1 .. Len(fdtbl)
           /\ \A i \in 1 .. Len(fdtbl) : fdtbl[i] \in InTable /\ fdtbl[i].fd \in Fds
<1>1. fdtbl \in Seq(InTable)
  BY DEF TypeOK, InTable
<1>2. \A i \in 1 .. Len(fdtbl) : fdtbl[i] \in InTable
  BY <1>1, ElementOfSeq
<1> QED
  BY <1>1, <1>2, LenProperties DEF InTable

(* The table without its k-th entry. *)
LEMMA Removed ==
    ASSUME NEW l \in Seq(InTable), NEW k \in 1 .. Len(l)
    PROVE  /\ RemoveAt(l, k) \in Seq(InTable) /\ Len(RemoveAt(l, k)) = Len(l) - 1
           /\ \A j \in 1 .. Len(l) - 1 :
                 RemoveAt(l, k)[j] = IF j < k THEN l[j] ELSE l[j + 1]
<1>1. Len(l) \in Nat /\ \A j \in 1 .. Len(l) : l[j] \in InTable
  BY LenProperties
<1> DEFINE a == SubSeq(l, 1, k - 1)
           b == SubSeq(l, k + 1, Len(l))
<1>2. a \in Seq(InTable) /\ Len(a) = k - 1 /\ \A j \in 1 .. k - 1 : a[j] = l[j]
  BY <1>1, SubSeqProperties
<1>3. /\ b \in Seq(InTable) /\ Len(b) = Len(l) - k
      /\ \A j \in 1 .. Len(l) - k : b[j] = l[k + j]
  <2>1. \A j \in k + 1 .. Len(l) : l[j] \in InTable
    BY <1>1
  <2>2. /\ b \in Seq(InTable)
        /\ Len(b) = IF k + 1 <= Len(l) THEN Len(l) - (k + 1) + 1 ELSE 0
        /\ \A j \in 1 .. Len(l) - (k + 1) + 1 : b[j] = l[k + 1 + j - 1]
    BY <1>1, <2>1, SubSeqProperties
  <2> QED
    BY <1>1, <2>2
<1>4. RemoveAt(l, k) = a \o b
  BY DEF RemoveAt
<1> HIDE DEF a, b
<1>5. /\ a \o b \in Seq(InTable) /\ Len(a \o b) = Len(a) + Len(b)
      /\ \A j \in 1 .. Len(a) + Len(b) :
           (a \o b)[j] = IF j <= Len(a) THEN a[j] ELSE b[j - Len(a)]
  BY <1>2, <1>3, ConcatProperties
<1>6. ASSUME NEW j \in 1 .. Len(l) - 1
      PROVE  (a \o b)[j] = IF j < k THEN l[j] ELSE l[j + 1]
  <2>1. CASE j < k
    BY <1>1, <1>2, <1>3, <1>5, <2>1
  <2>2. CASE j >= k
    <3>1. j - (k - 1) \in 1 .. Len(l) - k /\ k + (j - (k - 1)) = j + 1
      BY <1>1, <2>2
    <3>2. b[j - (k - 1)] = l[j + 1]
      BY <1>3, <3>1
    <3>3. (a \o b)[j] = b[j - Len(a)]
      BY <1>1, <1>2, <1>3, <1>5, <2>2
    <3> QED
      BY <1>2, <2>2, <3>2, <3>3
  <2>3. j < k \/ j >= k
    BY <1>1
  <2> QED
    BY <2>1, <2>2, <2>3
<1> QED
  BY <1>1, <1>2, <1>3, <1>4, <1>5, <1>6

LEMMA ReportedIsFinite ==
    ASSUME TypeOK
    PROVE  IsFiniteSet(Reported) /\ Cardinality(Reported) \in Nat
<1>1. IsFiniteSet(1 .. Len(fdtbl)) /\ Reported \in SUBSET (1 .. Len(fdtbl))
  BY TableTypes, FS_Interval DEF Reported
<1> QED
  BY <1>1, FS_Subset, FS_CardinalityType

(* The table has at most an entry for every connection, and the listener. *)
LEMMA Few ==
    ASSUME IInv
    PROVE  Len(fdtbl) <= UIntMax
<1> DEFINE f == [i \in 1 .. Len(fdtbl) |-> fdtbl[i].fd]
           T == Conns \union {Listener}
<1>1. IsFiniteSet(T) /\ Cardinality(T) = Cardinality(Conns) + 1
  BY ConnsAssumption, FS_AddElement
<1>2. f \in [1 .. Len(fdtbl) -> T]
  BY TableTypes DEF IInv, Fds
<1>3. \A i, j \in DOMAIN f : f[i] = f[j] => i = j
  BY DEF IInv, Once
<1>4. IsInjective(f)
  BY <1>3, Zenon DEF IsInjective
<1>5. f \in Injection(1 .. Len(fdtbl), T)
  BY <1>2, <1>4 DEF Injection
<1>6. Cardinality(1 .. Len(fdtbl)) <= Cardinality(T)
  BY <1>1, <1>5, FS_Injection
<1>7. Len(fdtbl) \in Nat /\ Cardinality(Conns) \in Nat
  BY TableTypes, ConnsAssumption, FS_CardinalityType DEF IInv
<1> QED
  BY <1>1, <1>6, <1>7, FS_Interval, SizeAssumption
-----------------------------------------------------------------------------
(* The steps that leave the table alone. *)

LEMMA Starts ==
    Init => IInv
<1> SUFFICES ASSUME Init PROVE IInv
  OBVIOUS
<1>1. /\ fdtbl = <<Entry(Listener)>> /\ Len(fdtbl) = 1
      /\ fdtbl \in Seq(InTable) /\ fdtbl[1].fd = Listener
  BY DEF Init, Entry, InTable, Fds
<1>2. TypeOK
  <2>1. fdtbl \in Seq([fd : Fds, revents : BOOLEAN])
    BY <1>1 DEF InTable
  <2>2. fdtbl_size \in Nat /\ fdtbl_size >= Len(fdtbl)
    BY <1>1, SizeAssumption DEF Init
  <2>3. conn \in [Conns -> {"none", "hello", "closing", "helper", "served",
                           "reserved", "signalled", "watched"}]
    BY DEF Init
  <2>4. curfd \in Nat /\ retfds \in 0 .. UIntMax
    BY SizeAssumption DEF Init
  <2> QED
    BY <2>1, <2>2, <2>3, <2>4 DEF Init, TypeOK
<1>3. Once /\ Watched /\ Listed
  BY <1>1 DEF Once, Watched, Listed, Init
<1>4. AtCursor /\ Walk /\ Room
  BY SizeAssumption DEF AtCursor, Walk, Room, Init
<1> QED
  BY <1>2, <1>3, <1>4 DEF IInv

(* The table and the connections watched stay: what each conjunct says of   *)
(* them stays.                                                              *)
LEMMA SameTable ==
    ASSUME IInv, UNCHANGED <<fdtbl, fdtbl_size>>,
           \A f \in Conns : conn'[f] = "watched" <=> conn[f] = "watched"
    PROVE  Room' /\ Once' /\ Watched' /\ Listed'
<1>1. Once'
  BY DEF Once, IInv
<1>2. Watched'
  BY TableTypes DEF Watched, IInv, Fds
<1>3. Listed'
  BY DEF Listed, IInv
<1> QED
  BY <1>1, <1>2, <1>3 DEF Room, IInv

LEMMA SameReported ==
    ASSUME UNCHANGED <<fdtbl, curfd>>
    PROVE  Reported' = Reported
BY DEF Reported

(* Nor does the main thread move. *)
LEMMA Elsewhere ==
    ASSUME IInv, TypeOK', UNCHANGED <<fdtbl, fdtbl_size, cursor, main, got>>,
           \A f \in Conns : conn'[f] = "watched" <=> conn[f] = "watched"
    PROVE  IInv'
<1>1. AtCursor'
  BY DEF AtCursor, IInv, cursor
<1>2. Walk'
  BY SameReported DEF Walk, Behind, Ahead, IInv, cursor
<1> QED
  BY <1>1, <1>2, SameTable DEF IInv

LEMMA Outside ==
    ASSUME IInv, \/ Client \/ SignalHandled \/ Reuse
                 \/ \E f \in Conns : \/ Read(f) \/ Reserve(f) \/ Kill(f) \/ SecondClose(f)
                                     \/ Disconnect(f) \/ FailHandshake(f) \/ KickUser(f)
    PROVE  IInv'
<1> USE DEF IInv
<1>1. CASE Client
  <2>1. TypeOK'
    BY <1>1 DEF TypeOK, Client, Arrive, cursor, numbers, Fds
  <2> QED
    BY <1>1, <2>1, Elsewhere DEF Client
<1>2. CASE SignalHandled
  <2>1. TypeOK'
    BY <1>2 DEF TypeOK, SignalHandled, cursor, numbers
  <2> QED
    BY <1>2, <2>1, Elsewhere DEF SignalHandled
<1>3. ASSUME NEW f \in Conns, Read(f)
      PROVE  IInv'
  <2>1. TypeOK'
    BY <1>3 DEF TypeOK, Read, cursor, numbers
  <2> QED
    BY <1>3, <2>1, Elsewhere DEF Read, TypeOK
<1>4. ASSUME NEW f \in Conns, NEW state \in {"none", "closing"}, GiveUp(f, state), conn[f] # "watched"
      PROVE  IInv'
  <2>1. TypeOK'
    BY <1>4 DEF TypeOK, GiveUp, cursor
  <2> QED
    BY <1>4, <2>1, Elsewhere DEF GiveUp, TypeOK
<1>5. ASSUME NEW f \in Conns, Disconnect(f) \/ FailHandshake(f)
      PROVE  IInv'
  <2>1. CASE Disconnect(f)
    BY <1>4, <2>1 DEF Disconnect
  <2>2. CASE FailHandshake(f)
    BY <1>4, <2>2 DEF FailHandshake
  <2> QED
    BY <1>5, <2>1, <2>2
<1>6. ASSUME NEW f \in Conns, SecondClose(f)
      PROVE  IInv'
  <2>1. TypeOK'
    BY <1>6 DEF TypeOK, SecondClose, cursor, numbers
  <2> QED
    BY <1>6, <2>1, Elsewhere DEF SecondClose, TypeOK
<1>7. ASSUME NEW f \in Conns, Reserve(f)
      PROVE  IInv'
  <2>1. TypeOK'
    BY <1>7 DEF TypeOK, Reserve, cursor, numbers
  <2> QED
    BY <1>7, <2>1, Elsewhere DEF Reserve, TypeOK
<1>8. ASSUME NEW f \in Conns, Kill(f)
      PROVE  IInv'
  <2>1. TypeOK'
    BY <1>8 DEF TypeOK, Kill, cursor, numbers
  <2> QED
    BY <1>8, <2>1, Elsewhere DEF Kill, TypeOK
<1>9. ASSUME Reuse \/ \E f \in Conns : KickUser(f)
      PROVE  IInv'
  <2>1. /\ UNCHANGED <<fdtbl, fdtbl_size, cursor, holder, main, got, sig, conn, ready>>
        /\ open' \subseteq open /\ reused' \in BOOLEAN
    BY <1>9 DEF Reuse, KickUser, TypeOK
  <2>2. TypeOK'
    BY <2>1 DEF TypeOK, cursor
  <2> QED
    BY <2>1, <2>2, Elsewhere
<1> QED
  BY <1>1, <1>2, <1>3, <1>5, <1>6, <1>7, <1>8, <1>9

(* The main thread moves on, without an answer of poll coming or going. *)
LEMMA MainMoves ==
    ASSUME IInv, ReadLock \/ EnterPoll \/ ScanEnd \/ Accept
    PROVE  IInv'
<1>1. CASE ReadLock
  <2>1. TypeOK'
    BY <1>1 DEF IInv, TypeOK, ReadLock, cursor, numbers
  <2>2. Room' /\ Once' /\ Watched' /\ Listed'
    BY <1>1, SameTable DEF ReadLock
  <2>3. AtCursor' /\ Walk'
    BY <1>1, SameReported DEF IInv, AtCursor, Walk, Behind, Ahead, ReadLock, cursor
  <2> QED
    BY <2>1, <2>2, <2>3 DEF IInv
<1>2. CASE EnterPoll
  <2>1. TypeOK'
    <3>1. ready' \subseteq Fds
      BY <1>2 DEF IInv, TypeOK, EnterPoll, Invalid, Fds
    <3> QED
      BY <1>2, <3>1 DEF IInv, TypeOK, EnterPoll, cursor, numbers
  <2>2. Room' /\ Once' /\ Watched' /\ Listed'
    BY <1>2, SameTable DEF EnterPoll
  <2>3. AtCursor' /\ Walk'
    BY <1>2, SameReported DEF IInv, AtCursor, Walk, Behind, Ahead, EnterPoll, cursor
  <2> QED
    BY <2>1, <2>2, <2>3 DEF IInv
<1>3. CASE ScanEnd
  <2>1. TypeOK'
    BY <1>3, TableTypes DEF IInv, TypeOK, ScanEnd, numbers
  <2>2. Room' /\ Once' /\ Watched' /\ Listed'
    BY <1>3, SameTable DEF ScanEnd
  <2>3. AtCursor' /\ Walk'
    BY <1>3 DEF AtCursor, Walk, ScanEnd
  <2> QED
    BY <2>1, <2>2, <2>3 DEF IInv
<1>4. CASE Accept
  <2>1. TypeOK'
    BY <1>4 DEF IInv, TypeOK, Accept, cursor, Fds
  <2>2. Room' /\ Once' /\ Watched' /\ Listed'
    BY <1>4, SameTable DEF Accept, IInv, TypeOK
  <2>3. main = "got" /\ fdtbl[curfd].fd = Listener /\ main' = "loop"
    BY <1>4 DEF Accept, IInv, AtCursor
  <2>4. AtCursor'
    BY <2>3 DEF AtCursor
  <2>5. Walk'
    BY <1>4, <2>3, SameReported DEF IInv, Walk, Behind, Ahead, Accept, cursor
  <2> QED
    BY <2>1, <2>2, <2>4, <2>5 DEF IInv
<1> QED
  BY <1>1, <1>2, <1>3, <1>4
-----------------------------------------------------------------------------
(* poll returns. *)

LEMMA PollingReturns ==
    ASSUME IInv, NEW n \in 0 .. UIntMax, NEW readable, PollReturns(n, readable),
           main = "polling", sig' \in BOOLEAN,
           LET hits == {i \in DOMAIN fdtbl : fdtbl[i].fd \in readable} IN
           n <= Cardinality(hits) \/ hits = {}
    PROVE  IInv'
<1>1. /\ fdtbl \in Seq(InTable) /\ Len(fdtbl) \in Nat /\ DOMAIN fdtbl = 1 .. Len(fdtbl)
      /\ \A i \in 1 .. Len(fdtbl) : fdtbl[i] \in InTable /\ fdtbl[i].fd \in Fds
  BY TableTypes DEF IInv
<1> DEFINE e == [i \in 1 .. Len(fdtbl) |->
                   [fdtbl[i] EXCEPT !.revents = fdtbl[i].fd \in readable]]
<1>2. fdtbl' = e
  BY <1>1 DEF PollReturns
<1>3. /\ e \in [1 .. Len(fdtbl) -> InTable]
      /\ \A i \in 1 .. Len(fdtbl) : /\ e[i].fd = fdtbl[i].fd
                                    /\ e[i].revents <=> fdtbl[i].fd \in readable
  <2>1. ASSUME NEW i \in 1 .. Len(fdtbl)
        PROVE  /\ e[i] \in InTable /\ e[i].fd = fdtbl[i].fd
               /\ e[i].revents <=> fdtbl[i].fd \in readable
    <3> DEFINE hit == fdtbl[i].fd \in readable
               r == [fdtbl[i] EXCEPT !.revents = hit]
    <3>1. e[i] = r
      OBVIOUS
    <3>2. /\ r \in InTable /\ r.fd = fdtbl[i].fd
          /\ r.revents = hit
      <4>1. hit \in BOOLEAN
        OBVIOUS
      <4> HIDE DEF hit
      <4> QED
        BY <1>1, <4>1 DEF InTable
    <3> QED
      BY <3>1, <3>2
  <2>2. e \in [1 .. Len(fdtbl) -> InTable]
    <3>1. DOMAIN e = 1 .. Len(fdtbl) /\ e = [i \in 1 .. Len(fdtbl) |-> e[i]]
      OBVIOUS
    <3> HIDE DEF e
    <3> QED
      BY <2>1, <3>1
  <2> QED
    BY <2>1, <2>2
<1> HIDE DEF e
<1>4. /\ fdtbl' \in Seq(InTable) /\ Len(fdtbl') = Len(fdtbl)
      /\ DOMAIN fdtbl' = 1 .. Len(fdtbl)
  <2>1. fdtbl' \in Seq(InTable)
    BY <1>1, <1>2, <1>3, SeqDef
  <2>2. DOMAIN fdtbl' = 1 .. Len(fdtbl) /\ DOMAIN fdtbl' = 1 .. Len(fdtbl')
    BY <1>2, <1>3, <2>1, LenProperties
  <2>3. Len(fdtbl') = Len(fdtbl)
    BY <1>1, <2>1, <2>2, LenProperties
  <2> QED
    BY <2>1, <2>2, <2>3
<1>5. \A i \in 1 .. Len(fdtbl) : fdtbl'[i].fd = fdtbl[i].fd
  BY <1>2, <1>3
<1>hits. \A i \in 1 .. Len(fdtbl) : fdtbl'[i].revents <=> fdtbl[i].fd \in readable
  BY <1>2, <1>3
<1>6. /\ retfds' = n /\ curfd' = 0 /\ pcomplete' = TRUE /\ main' = "scanning"
      /\ UNCHANGED <<fdtbl_size, holder, got, conn, ready, numbers>>
  BY DEF PollReturns
<1>7. TypeOK'
  BY <1>4, <1>6 DEF IInv, TypeOK, InTable, Fds, numbers
<1>8. Room' /\ Once' /\ Watched' /\ Listed'
  <2>1. Once'
    BY <1>4, <1>5 DEF IInv, Once
  <2>2. Watched'
    BY <1>4, <1>5, <1>6 DEF IInv, Watched
  <2>3. Listed'
    BY <1>4, <1>5, <1>6 DEF IInv, Listed
  <2> QED
    BY <1>6, <2>1, <2>2, <2>3 DEF IInv, Room
<1>9. Reported' = {i \in DOMAIN fdtbl : fdtbl[i].fd \in readable}
  <2>1. Reported' = {i \in DOMAIN fdtbl' : i > 0 /\ fdtbl'[i].revents}
    BY <1>6 DEF Reported
  <2>2. \A i \in 1 .. Len(fdtbl) : i > 0
    BY <1>1
  <2> QED
    BY <1>1, <1>4, <1>hits, <2>1, <2>2
<1>10. Walk'
  BY <1>1, <1>4, <1>6, <1>9 DEF Walk, Behind, Ahead
<1>11. AtCursor'
  BY <1>6 DEF AtCursor
<1> QED
  BY <1>7, <1>8, <1>10, <1>11 DEF IInv

LEMMA PollEnds ==
    ASSUME IInv, Polled \/ Interrupted
    PROVE  IInv'
<1> DEFINE readable == ready \cup Invalid
           hits == {i \in DOMAIN fdtbl : fdtbl[i].fd \in readable}
<1>1. CASE Polled
  <2>1. Cardinality(hits) \in 0 .. UIntMax
    <3>1. hits \in SUBSET (1 .. Len(fdtbl)) /\ Len(fdtbl) \in Nat
      BY TableTypes DEF IInv
    <3>2. /\ IsFiniteSet(1 .. Len(fdtbl)) /\ Cardinality(1 .. Len(fdtbl)) = Len(fdtbl)
      <4>1. /\ IsFiniteSet(1 .. Len(fdtbl))
            /\ Cardinality(1 .. Len(fdtbl)) = IF 1 > Len(fdtbl) THEN 0 ELSE Len(fdtbl) - 1 + 1
        BY <3>1, FS_Interval
      <4> QED
        BY <3>1, <4>1
    <3>3. Cardinality(hits) \in Nat /\ Cardinality(hits) <= Len(fdtbl)
      <4> HIDE DEF hits
      <4> QED
        BY <3>1, <3>2, FS_Subset, FS_CardinalityType
    <3> QED
      BY <3>1, <3>3, Few, SizeAssumption
  <2>2. /\ PollReturns(Cardinality(hits), readable)
        /\ main = "polling" /\ sig' \in BOOLEAN
    BY <1>1 DEF Polled, IInv, TypeOK
  <2> QED
    BY <2>1, <2>2, PollingReturns
<1>2. CASE Interrupted
  <2>1. /\ PollReturns(UIntMax, {})
        /\ main = "polling" /\ sig' \in BOOLEAN
    BY <1>2 DEF Interrupted
  <2>2. UIntMax \in 0 .. UIntMax
    BY SizeAssumption
  <2>3. {i \in DOMAIN fdtbl : fdtbl[i].fd \in {}} = {}
    OBVIOUS
  <2> QED
    BY <2>1, <2>2, <2>3, PollingReturns
<1> QED
  BY <1>1, <1>2

(* The next entry reported is the first behind the cursor. *)
LEMMA Delivering ==
    ASSUME IInv, Deliver
    PROVE  IInv'
<1>1. PICK i \in Reported : /\ \A j \in Reported : i <= j
                            /\ got' = fdtbl[i].fd
                            /\ curfd' = i
  BY DEF Deliver
<1>2. /\ main = "scanning" /\ retfds > 0 /\ retfds' = Unsigned(retfds - 1)
      /\ pcomplete' = (retfds' # 0) /\ main' = "got"
      /\ UNCHANGED <<fdtbl, fdtbl_size, holder, sig, conn, ready, numbers>>
  BY DEF Deliver
<1>3. /\ fdtbl \in Seq(InTable) /\ Len(fdtbl) \in Nat /\ DOMAIN fdtbl = 1 .. Len(fdtbl)
      /\ \A k \in 1 .. Len(fdtbl) : fdtbl[k] \in InTable /\ fdtbl[k].fd \in Fds
  BY TableTypes DEF IInv
<1>4. curfd \in Nat /\ retfds \in 0 .. UIntMax /\ UIntMax \in Nat
  BY SizeAssumption DEF IInv, TypeOK
<1>5. i \in 1 .. Len(fdtbl) /\ i > curfd
  BY <1>3 DEF Reported
<1>6. retfds' = retfds - 1
  BY <1>2, <1>4, UnsignedIs
<1>7. TypeOK'
  <2>1. curfd' \in Nat /\ retfds' \in 0 .. UIntMax /\ pcomplete' \in BOOLEAN
    BY <1>1, <1>2, <1>4, <1>5, <1>6
  <2>2. got' \in Fds
    BY <1>1, <1>3, <1>5
  <2> QED
    BY <1>2, <2>1, <2>2 DEF IInv, TypeOK, numbers
<1>8. Room' /\ Once' /\ Watched' /\ Listed'
  BY <1>2, SameTable
<1>9. AtCursor'
  BY <1>1, <1>2, <1>5 DEF AtCursor
<1>10. Reported' = Reported \ {i}
  <2>1. \A j \in 1 .. Len(fdtbl) : j > curfd /\ fdtbl[j].revents => i <= j
    BY <1>1, <1>3 DEF Reported
  <2> QED
    BY <1>1, <1>2, <1>3, <1>4, <1>5, <2>1 DEF Reported
<1>11. Ahead /\ Behind
  BY <1>2 DEF IInv, Walk
<1>12. retfds' <= Cardinality(Reported')
  <2>1. retfds <= Cardinality(Reported)
    BY <1>1, <1>11 DEF Ahead
  <2>2. /\ IsFiniteSet(Reported) /\ Cardinality(Reported) \in Nat
    BY ReportedIsFinite DEF IInv
  <2>3. Cardinality(Reported') = Cardinality(Reported) - 1
    BY <1>1, <1>10, <2>2, FS_RemoveElement
  <2> QED
    BY <1>4, <1>6, <2>1, <2>2, <2>3
<1>13. Behind'
  <2>1. \A j \in 1 .. Len(fdtbl) : j < i /\ fdtbl[j].revents => j <= curfd
    BY <1>1, <1>3, <1>4, <1>5 DEF Reported
  <2> QED
    BY <1>1, <1>2, <1>3, <1>4, <1>5, <1>11, <2>1 DEF Behind
<1>14. Walk'
  <2>1. curfd' <= Len(fdtbl')
    BY <1>1, <1>2, <1>3, <1>5
  <2>2. pcomplete' => retfds' # 0
    BY <1>2, Zenon
  <2>3. retfds' # 0 => retfds' > 0
    BY <1>2, <1>4, <1>6
  <2> QED
    BY <1>2, <1>12, <1>13, <2>1, <2>2, <2>3 DEF Walk, Ahead
<1> QED
  BY <1>7, <1>8, <1>9, <1>14 DEF IInv
-----------------------------------------------------------------------------
(* A connection leaves the table for a helper: it is the entry at the       *)
(* cursor, and the cursor follows.                                          *)

LEMMA Dispatching ==
    ASSUME IInv, Dispatch
    PROVE  IInv'
<1>1. PICK i \in DOMAIN fdtbl : fdtbl[i].fd = got /\ multiplexer_remove(i)
  BY DEF Dispatch
<1> DEFINE n == Len(fdtbl)
           m == fdtbl'
           old(j) == IF j < i THEN j ELSE j + 1
<1>2. /\ fdtbl \in Seq(InTable) /\ n \in Nat /\ DOMAIN fdtbl = 1 .. n
      /\ \A j \in 1 .. n : fdtbl[j] \in InTable /\ fdtbl[j].fd \in Fds
  BY TableTypes DEF IInv
<1>3. /\ main = "got" /\ got \in Conns /\ main' = "loop" /\ got' = None
      /\ conn' = [conn EXCEPT ![got] = "helper"]
      /\ pcomplete' = pcomplete
      /\ UNCHANGED <<sig, ready, holder, numbers>>
  BY <1>1 DEF Dispatch, multiplexer_remove
<1>4. i = curfd /\ i \in 1 .. n /\ fdtbl[i].fd = got
  BY <1>1, <1>2, <1>3 DEF IInv, AtCursor, Once
<1>5. /\ m \in Seq(InTable) /\ Len(m) = n - 1
      /\ \A j \in 1 .. n - 1 : m[j] = IF j < i THEN fdtbl[j] ELSE fdtbl[j + 1]
  <2>1. m = RemoveAt(fdtbl, i)
    BY <1>1 DEF multiplexer_remove
  <2> HIDE DEF m
  <2> QED
    BY <1>2, <1>4, <2>1, Removed
<1>6. DOMAIN m = 1 .. n - 1
  BY <1>5, LenProperties
<1>7. \A j \in 1 .. n - 1 : old(j) \in 1 .. n \ {i} /\ m[j] = fdtbl[old(j)]
  BY <1>2, <1>4, <1>5
<1>8. \A j, k \in 1 .. n - 1 : old(j) = old(k) => j = k
  BY <1>2, <1>4
<1>9. \A k \in 1 .. n : k # i => \E j \in 1 .. n - 1 : old(j) = k
  <2> SUFFICES ASSUME NEW k \in 1 .. n, k # i
               PROVE  \E j \in 1 .. n - 1 : old(j) = k
    OBVIOUS
  <2>1. CASE k < i
    BY <1>2, <1>4, <2>1
  <2>2. CASE k > i
    <3>1. k - 1 \in 1 .. n - 1 /\ old(k - 1) = k
      BY <1>2, <1>4, <2>2
    <3> QED
      BY <3>1
  <2> QED
    BY <1>2, <1>4, <2>1, <2>2
<1> HIDE DEF old
<1>10. Once'
  <2> SUFFICES ASSUME NEW j \in 1 .. n - 1, NEW k \in 1 .. n - 1, m[j].fd = m[k].fd
               PROVE  j = k
    BY <1>5 DEF Once
  <2>1. fdtbl[old(j)].fd = fdtbl[old(k)].fd /\ old(j) \in 1 .. n /\ old(k) \in 1 .. n
    BY <1>7
  <2>2. old(j) = old(k)
    BY <2>1 DEF IInv, Once
  <2> QED
    BY <1>8, <2>2
<1>11. \A j \in 1 .. n - 1 : m[j].fd # got
  <2> SUFFICES ASSUME NEW j \in 1 .. n - 1 PROVE m[j].fd # got
    OBVIOUS
  <2>1. old(j) \in 1 .. n /\ old(j) # i /\ m[j].fd = fdtbl[old(j)].fd
    BY <1>7
  <2> QED
    BY <1>4, <2>1 DEF IInv, Once
<1>12. \A f \in Conns : conn'[f] = IF f = got THEN "helper" ELSE conn[f]
  BY <1>3 DEF IInv, TypeOK
<1>13. Watched'
  <2> SUFFICES ASSUME NEW j \in 1 .. n - 1, m[j].fd # Listener
               PROVE  conn'[m[j].fd] = "watched"
    BY <1>5 DEF Watched
  <2>1. old(j) \in 1 .. n /\ m[j].fd = fdtbl[old(j)].fd
    BY <1>7
  <2>2. conn[m[j].fd] = "watched" /\ m[j].fd \in Conns
    BY <1>2, <2>1 DEF IInv, Watched, Fds
  <2> QED
    BY <1>11, <1>12, <2>2
<1>14. Listed'
  <2> SUFFICES ASSUME NEW f \in Conns, conn'[f] = "watched"
               PROVE  \E j \in 1 .. n - 1 : m[j].fd = f
    BY <1>5 DEF Listed
  <2>1. f # got /\ conn[f] = "watched"
    BY <1>12
  <2>2. PICK k \in 1 .. n : fdtbl[k].fd = f
    BY <2>1 DEF IInv, Listed
  <2>3. k # i
    BY <1>4, <2>1, <2>2
  <2>4. PICK j \in 1 .. n - 1 : old(j) = k
    BY <1>9, <2>3
  <2> QED
    BY <1>7, <2>2, <2>4
<1>15. curfd \in Nat /\ retfds \in 0 .. UIntMax /\ UIntMax \in Nat
       /\ fdtbl_size \in Nat /\ fdtbl_size >= n
  BY SizeAssumption DEF IInv, TypeOK
<1>16. /\ retfds' = IF pcomplete /\ fdtbl[i].revents THEN Unsigned(retfds - 1) ELSE retfds
       /\ curfd' = IF pcomplete /\ curfd > i - 1 THEN curfd - 1 ELSE curfd
       /\ fdtbl_size' = Halved(n - 1)
  BY <1>1 DEF multiplexer_remove
<1>17. /\ retfds' \in 0 .. UIntMax /\ curfd' \in Nat
       /\ fdtbl_size' \in Nat /\ fdtbl_size' >= n - 1 /\ fdtbl_size' > 0
  <2>1. retfds' \in 0 .. UIntMax
    BY <1>15, <1>16, UnsignedIs
  <2>2. curfd' \in Nat
    BY <1>4, <1>15, <1>16
  <2>3. fdtbl_size' \in Nat /\ fdtbl_size' >= n - 1 /\ fdtbl_size' > 0
    BY <1>2, <1>4, <1>15, <1>16, SizeAssumption DEF Halved, IInv, Room
  <2> QED
    BY <2>1, <2>2, <2>3
<1>18. TypeOK'
  <2>1. conn' \in [Conns -> {"none", "hello", "closing", "helper", "served",
                             "reserved", "signalled", "watched"}]
    BY <1>3 DEF IInv, TypeOK
  <2>2. fdtbl' \in Seq([fd : Fds, revents : BOOLEAN]) /\ Len(fdtbl') = n - 1
    BY <1>5 DEF InTable
  <2> QED
    BY <1>3, <1>17, <2>1, <2>2 DEF IInv, TypeOK, numbers
<1>19. ASSUME pcomplete
       PROVE  curfd' <= Len(fdtbl') /\ Behind' /\ Ahead'
  <2>1. curfd' = i - 1 /\ retfds' <= retfds
    <3>1. retfds > 0
      BY <1>3, <1>19 DEF IInv, Walk
    <3>2. Unsigned(retfds - 1) = retfds - 1
      BY <1>15, <3>1, UnsignedIs
    <3> QED
      BY <1>4, <1>15, <1>16, <1>19, <3>2
  <2>2. curfd' <= Len(fdtbl')
    BY <1>2, <1>4, <1>5, <2>1
  <2>3. Behind /\ retfds <= Cardinality(Reported)
    BY <1>3, <1>19 DEF IInv, Walk, Ahead
  <2>4. Behind'
    <3> SUFFICES ASSUME NEW j \in 1 .. n - 1, j <= i - 1, m[j].revents
                 PROVE  m[j].fd = Listener
      BY <1>5, <2>1 DEF Behind
    <3>1. m[j] = fdtbl[j] /\ j \in 1 .. n /\ j <= curfd /\ j # curfd
      BY <1>2, <1>4, <1>5
    <3> QED
      BY <2>3, <3>1 DEF Behind
  <2>5. Cardinality(Reported) <= Cardinality(Reported')
    <3> DEFINE S == Reported
               T == Reported'
               back == [k \in S |-> k - 1]
    <3>1. S = {k \in 1 .. n : k > i /\ fdtbl[k].revents}
      BY <1>2, <1>4 DEF Reported
    <3>2. T = {k \in 1 .. n - 1 : k > i - 1 /\ m[k].revents}
      BY <1>6, <2>1 DEF Reported
    <3>3. IsFiniteSet(T)
      <4>1. IsFiniteSet(1 .. n - 1)
        BY <1>2, FS_Interval
      <4>2. T \in SUBSET (1 .. n - 1)
        BY <3>2
      <4> QED
        BY <4>1, <4>2, FS_Subset
    <3>4. ASSUME NEW k \in S PROVE k - 1 \in T /\ k \in Int
      <4>1. k - 1 \in 1 .. n - 1 /\ k - 1 > i - 1 /\ ~(k - 1 < i) /\ k - 1 + 1 = k
        BY <1>2, <1>4, <3>1
      <4>2. m[k - 1] = fdtbl[k]
        BY <1>5, <4>1
      <4>3. fdtbl[k].revents /\ k \in 1 .. n
        BY <3>1
      <4> QED
        BY <3>2, <4>1, <4>2, <4>3
    <3> HIDE DEF S, T
    <3>5. back \in [S -> T]
      BY <3>4
    <3>6. \A a, b \in DOMAIN back : back[a] = back[b] => a = b
      BY <3>4
    <3>7. IsInjective(back)
      BY <3>6, Zenon DEF IsInjective
    <3>8. back \in Injection(S, T)
      BY <3>5, <3>7 DEF Injection
    <3>9. Cardinality(S) <= Cardinality(T)
      BY <3>3, <3>8, FS_Injection
    <3> QED
      BY <3>9 DEF S, T
  <2>6. retfds' <= Cardinality(Reported')
    <3>1. Cardinality(Reported) \in Nat
      BY ReportedIsFinite DEF IInv
    <3>2. Cardinality(Reported') \in Nat
      <4>1. IsFiniteSet(1 .. n - 1) /\ Reported' \in SUBSET (1 .. n - 1)
        BY <1>2, <1>6, FS_Interval DEF Reported
      <4> QED
        BY <4>1, FS_Subset, FS_CardinalityType
    <3> QED
      BY <1>15, <1>17, <2>1, <2>3, <2>5, <3>1, <3>2
  <2> QED
    BY <2>2, <2>4, <2>6 DEF Ahead
<1>20. Walk' /\ AtCursor'
  BY <1>3, <1>19 DEF Walk, AtCursor
<1> QED
  BY <1>10, <1>13, <1>14, <1>17, <1>18, <1>20 DEF IInv, Room

(* A helper puts a connection back, at the end of the table and with        *)
(* nothing reported: behind what the main thread may still have to walk.    *)
LEMMA Adding ==
    ASSUME IInv, NEW f \in Conns, Add(f)
    PROVE  IInv'
<1> DEFINE n == Len(fdtbl)
           m == fdtbl'
<1>1. /\ fdtbl \in Seq(InTable) /\ n \in Nat /\ DOMAIN fdtbl = 1 .. n
      /\ \A j \in 1 .. n : fdtbl[j] \in InTable /\ fdtbl[j].fd \in Fds
  BY TableTypes DEF IInv
<1>2. Entry(f) \in InTable /\ Entry(f).fd = f /\ ~Entry(f).revents
  BY DEF Entry, InTable, Fds
<1>3. /\ m = Append(fdtbl, Entry(f))
      /\ conn[f] = "signalled" /\ conn' = [conn EXCEPT ![f] = "watched"]
      /\ fdtbl_size' = Doubled /\ holder' = None
      /\ UNCHANGED <<cursor, main, got, sig, ready, numbers>>
      /\ main \notin {"locked", "polling", "scanning"}
  BY DEF Add, Reading
<1>4. /\ m \in Seq(InTable) /\ Len(m) = n + 1 /\ DOMAIN m = 1 .. n + 1
      /\ \A j \in 1 .. n : m[j] = fdtbl[j]
      /\ m[n + 1] = Entry(f)
  <2> HIDE DEF m
  <2> QED
    BY <1>1, <1>2, <1>3, AppendProperties, LenProperties
<1> HIDE DEF m
<1>5. \A g \in Conns : conn'[g] = IF g = f THEN "watched" ELSE conn[g]
  BY <1>3 DEF IInv, TypeOK
<1>6. \A j \in 1 .. n : fdtbl[j].fd # f
  BY <1>3, ConnsAssumption DEF IInv, Watched
<1>7. \A j \in 1 .. n + 1 : j \in 1 .. n \/ j = n + 1
  BY <1>1
<1>8. Once'
  <2> SUFFICES ASSUME NEW j \in 1 .. n + 1, NEW k \in 1 .. n + 1, m[j].fd = m[k].fd
               PROVE  j = k
    BY <1>4 DEF Once, m
  <2>1. CASE j \in 1 .. n /\ k \in 1 .. n
    BY <1>4, <2>1 DEF IInv, Once
  <2>2. CASE j = n + 1 \/ k = n + 1
    BY <1>2, <1>4, <1>6, <1>7, <2>2
  <2> QED
    BY <1>7, <2>1, <2>2
<1>9. Watched'
  <2> SUFFICES ASSUME NEW j \in 1 .. n + 1, m[j].fd # Listener
               PROVE  conn'[m[j].fd] = "watched"
    BY <1>4 DEF Watched, m
  <2>1. CASE j \in 1 .. n
    <3>1. m[j].fd \in Conns /\ conn[m[j].fd] = "watched"
      BY <1>1, <1>4, <2>1 DEF IInv, Watched, Fds
    <3> QED
      BY <1>5, <3>1
  <2>2. CASE j = n + 1
    BY <1>2, <1>4, <1>5, <2>2
  <2> QED
    BY <1>7, <2>1, <2>2
<1>10. Listed'
  <2> SUFFICES ASSUME NEW g \in Conns, conn'[g] = "watched"
               PROVE  \E j \in 1 .. n + 1 : m[j].fd = g
    BY <1>4 DEF Listed, m
  <2>1. CASE g = f
    <3>1. n + 1 \in 1 .. n + 1 /\ m[n + 1].fd = g
      BY <1>1, <1>2, <1>4, <2>1
    <3> QED
      BY <3>1
  <2>2. CASE g # f
    <3>1. PICK j \in 1 .. n : fdtbl[j].fd = g
      BY <1>5, <2>2 DEF IInv, Listed
    <3>2. j \in 1 .. n + 1 /\ m[j].fd = g
      BY <1>1, <1>4, <3>1
    <3> QED
      BY <3>2
  <2> QED
    BY <2>1, <2>2
<1>11. TypeOK' /\ Room'
  <2>1. fdtbl' \in Seq([fd : Fds, revents : BOOLEAN]) /\ Len(fdtbl') = n + 1
    BY <1>4 DEF InTable, m
  <2>2. conn' \in [Conns -> {"none", "hello", "closing", "helper", "served",
                             "reserved", "signalled", "watched"}]
    BY <1>3 DEF IInv, TypeOK
  <2>3. fdtbl_size' \in Nat /\ fdtbl_size' >= n + 1 /\ fdtbl_size' > 0
    <3>1. fdtbl_size \in Nat /\ fdtbl_size >= n /\ fdtbl_size > 0
      BY DEF IInv, TypeOK, Room
    <3>2. /\ fdtbl_size' = IF n = fdtbl_size THEN 2 * fdtbl_size ELSE fdtbl_size
          /\ n \in Nat
      BY <1>1, <1>3 DEF Doubled
    <3> HIDE DEF n
    <3>3. CASE n = fdtbl_size
      BY <3>1, <3>2, <3>3
    <3>4. CASE n < fdtbl_size
      BY <3>1, <3>2, <3>4
    <3> QED
      BY <3>1, <3>2, <3>3, <3>4
  <2> QED
    BY <1>3, <2>1, <2>2, <2>3 DEF IInv, TypeOK, Room, cursor, numbers
<1>12. AtCursor'
  <2> SUFFICES ASSUME main = "got" PROVE curfd \in 1 .. n + 1 /\ m[curfd].fd = got
    BY <1>3, <1>4 DEF AtCursor, cursor, m
  <2>1. curfd \in 1 .. n /\ fdtbl[curfd].fd = got
    BY DEF IInv, AtCursor
  <2> QED
    BY <1>1, <1>4, <2>1
<1>13. Reported' = Reported
  <2>1. \A j \in 1 .. n + 1 : m[j].revents <=> j \in 1 .. n /\ fdtbl[j].revents
    <3> SUFFICES ASSUME NEW j \in 1 .. n + 1
                 PROVE  m[j].revents <=> j \in 1 .. n /\ fdtbl[j].revents
      OBVIOUS
    <3>1. CASE j \in 1 .. n
      BY <1>4, <3>1
    <3>2. CASE j = n + 1
      BY <1>1, <1>2, <1>4, <3>2
    <3> QED
      BY <1>7, <3>1, <3>2
  <2>2. \A j : j \in 1 .. n => j \in 1 .. n + 1
    BY <1>1
  <2>3. Reported' = {j \in 1 .. n + 1 : j > curfd /\ m[j].revents}
    BY <1>3, <1>4 DEF Reported, cursor, m
  <2>4. Reported = {j \in 1 .. n : j > curfd /\ fdtbl[j].revents}
    BY <1>1 DEF Reported
  <2> QED
    BY <2>1, <2>2, <2>3, <2>4
<1>14. Walk'
  <2> SUFFICES ASSUME pcomplete PROVE curfd <= n + 1 /\ Behind' /\ Ahead'
    BY <1>3, <1>4 DEF IInv, Walk, cursor, m
  <2>1. curfd \in Nat /\ curfd <= n /\ Behind /\ Ahead
    BY DEF IInv, TypeOK, Walk
  <2>2. curfd <= n + 1
    BY <1>1, <2>1
  <2>3. Ahead'
    BY <1>3, <1>13, <2>1 DEF Ahead, cursor
  <2>4. Behind'
    <3> SUFFICES ASSUME NEW j \in 1 .. n + 1, j <= curfd, m[j].revents
                 PROVE  m[j].fd = Listener \/ (main = "got" /\ j = curfd)
      BY <1>3, <1>4 DEF Behind, cursor, m
    <3>1. j \in 1 .. n /\ m[j] = fdtbl[j]
      BY <1>1, <1>4, <2>1
    <3> QED
      BY <2>1, <3>1 DEF Behind
  <2> QED
    BY <2>2, <2>3, <2>4
<1> QED
  BY <1>8, <1>9, <1>10, <1>11, <1>12, <1>14 DEF IInv
-----------------------------------------------------------------------------
LEMMA Inductive ==
    ASSUME IInv, [Next]_vars
    PROVE  IInv'
<1>1. CASE Next
  <2>1. CASE Client \/ SignalHandled \/ Reuse
    BY <2>1, Outside
  <2>2. CASE ReadLock \/ EnterPoll \/ ScanEnd \/ Accept
    BY <2>2, MainMoves
  <2>3. CASE Polled \/ Interrupted
    BY <2>3, PollEnds
  <2>4. CASE Deliver
    BY <2>4, Delivering
  <2>5. CASE Dispatch
    BY <2>5, Dispatching
  <2>6. ASSUME NEW f \in Conns, Add(f) PROVE IInv'
    BY <2>6, Adding
  <2>7. ASSUME NEW f \in Conns, \/ Read(f) \/ Reserve(f) \/ Kill(f) \/ SecondClose(f)
                                \/ Disconnect(f) \/ FailHandshake(f) \/ KickUser(f)
        PROVE  IInv'
    BY <2>7, Outside
  <2> QED
    BY <1>1, <2>1, <2>2, <2>3, <2>4, <2>5, <2>6, <2>7 DEF Next, Main, Helper
<1>2. CASE UNCHANGED vars
  <2>1. UNCHANGED <<fdtbl, fdtbl_size, cursor, holder, main, got, sig, conn, ready, numbers>>
    BY <1>2 DEF vars
  <2>2. TypeOK'
    BY <2>1 DEF IInv, TypeOK, cursor, numbers
  <2> QED
    BY <2>1, <2>2, Elsewhere
<1> QED
  BY <1>1, <1>2

(* Every variable keeps its type, retfds its width, and the poll table      *)
(* never outgrows the memory that doubling and halving leave it.            *)
THEOREM TypeCorrect == Spec => []TypeOK
<1>1. IInv => TypeOK
  BY DEF IInv
<1>2. IInv /\ [Next]_vars => IInv'
  BY Inductive
<1> QED
  BY <1>1, <1>2, Starts, PTL DEF Spec

(* The poll table holds each connection at most once, and exactly those no  *)
(* helper has, so that no two helpers read one client's stream - until a    *)
(* number that a kick or a failed handshake closed under its user is given  *)
(* out again.                                                               *)
THEOREM EachHasOneOwner == Spec => []OneOwner
<1>1. IInv => OneOwner
  <2> SUFFICES ASSUME IInv PROVE OneOwner
    OBVIOUS
  <2> DEFINE n == Len(fdtbl)
             fds == [i \in DOMAIN fdtbl |-> fdtbl[i].fd]
  <2>1. DOMAIN fdtbl = 1 .. n /\ \A i \in 1 .. n : fdtbl[i].fd \in Fds
    BY TableTypes DEF IInv
  <2>2. \A i, j \in DOMAIN fds : fds[i] = fds[j] => i = j
    BY <2>1 DEF IInv, Once
  <2>3. IsInjective(fds)
    BY <2>2, Zenon DEF IsInjective
  <2>4. Table = {fdtbl[i].fd : i \in 1 .. n}
    BY <2>1 DEF Table
  <2>5. ASSUME NEW f \in Table, f # Listener PROVE f \in Conns /\ conn[f] = "watched"
    BY <2>1, <2>4, <2>5 DEF IInv, Watched, Fds
  <2>6. ASSUME NEW f \in Conns, conn[f] = "watched" PROVE f \in Table /\ f # Listener
    BY <2>4, <2>6, ConnsAssumption DEF IInv, Listed
  <2>7. Table \ {Listener} = {f \in Conns : conn[f] = "watched"}
    BY <2>5, <2>6
  <2> QED
    BY <2>3, <2>7 DEF OneOwner
<1>2. IInv /\ [Next]_vars => IInv'
  BY Inductive
<1> QED
  BY <1>1, <1>2, Starts, PTL DEF Spec

(* Between two calls that share the answer of one poll, what is still to be *)
(* reported is ahead of the cursor, whatever has been removed or added, and *)
(* is enough for what retfds counts.  Whether all of it is delivered before *)
(* the next poll is another matter: often it is not.                        *)
THEOREM NoneIsPassedOver == Spec => []NonePassedOver
<1>1. IInv => NonePassedOver
  <2> SUFFICES ASSUME IInv, pcomplete, main \in {"loop", "locked"}
               PROVE  /\ retfds <= Cardinality(Reported)
                      /\ \A i \in 1 .. curfd : fdtbl[i].revents => fdtbl[i].fd = Listener
    BY DEF NonePassedOver
  <2>1. curfd \in Nat /\ curfd <= Len(fdtbl) /\ Behind /\ Ahead
    BY DEF IInv, TypeOK, Walk
  <2>2. \A i \in 1 .. curfd : i \in 1 .. Len(fdtbl) /\ i <= curfd
    BY <2>1, TableTypes DEF IInv
  <2> QED
    BY <2>1, <2>2 DEF Behind, Ahead
<1>2. IInv /\ [Next]_vars => IInv'
  BY Inductive
<1> QED
  BY <1>1, <1>2, Starts, PTL DEF Spec
=============================================================================
