---------------------- MODULE AccountManagerProofs ---------------------
(* What AccountManager.tla model-checks for two helpers and two names, for  *)
(* any of them, for every content of the accounts and in every environment: *)
(* am_init reads whole files, and no am_commit that is overtaken by another *)
(* leaves an older copy of the list behind it.                              *)
EXTENDS AccountManager, SequenceTheorems, TLAPS

InList == [name : Names, data : Data \union {Moved}]

(* No two accounts of a list have one name. *)
Unique(list) == \A i, j \in DOMAIN list : list[i].name = list[j].name => i = j

(* hlpasswd_lock, and what its holder may have done to the file. *)
Mutex == /\ hlpasswd_lock = "main" <=> main = "load"
         /\ \A h \in Helpers : hlpasswd_lock = h <=> pc[h] \in {"copy", "flush"}
         /\ \A h \in Helpers : pc[h] = "copy" => file = <<>>
         /\ hlpasswd_lock \in {Nobody, "main"} => file = whole

(* Each name once, in the list and in whatever of it is on its way to the   *)
(* file or back.                                                            *)
OneEach == /\ Unique(accounts) /\ Unique(whole) /\ Unique(lines)
           /\ \A h \in Helpers : pc[h] = "flush" => Unique(file \o out[h])
           /\ main = "load" => \A n \in Names : Find(lines, n) \subseteq Find(whole, n)

Pending == \E h \in Helpers :
    pc[h] \in {"submit", "delete", "add", "am_del_account", "commit", "copy"}

(* UnsavedIsPending all the way through am_init.  A copy on its way to the  *)
(* file has to be the present one: that the file still agrees with the list *)
(* is not enough then, for it is about to be replaced.                      *)
Current(n) ==
    \/ Pending
    \/ main = "reset"
    \/ main = "open" /\ Find(accounts, n) = {}
    \/ main = "load" /\ Find(accounts, n) = {} /\ Find(lines, n) = Find(whole, n)
    \/ main \in {"poll", "fallback"} /\ Find(accounts, n) = {Fallback}
    \/ (\A h \in Helpers : pc[h] # "flush") /\ Find(accounts, n) = Find(whole, n)
    \/ \E h \in Helpers : pc[h] = "flush" /\ Find(file \o out[h], n) = Find(accounts, n)

Saving == fault \/ given_up \/ \A n \in Names : Current(n)

IInv == TypeOK /\ Mutex /\ OneEach /\ Saving
-----------------------------------------------------------------------------
(* The lists. *)

(* What Find finds is at some place of the list. *)
LEMMA Found ==
    ASSUME NEW list \in Seq(InList), NEW n
    PROVE  /\ Find(list, n) = {list[i] : i \in {j \in 1 .. Len(list) : list[j].name = n}}
           /\ Find(list, n) = {} <=> \A i \in 1 .. Len(list) : list[i].name # n
<1>1. Range(list) = {list[i] : i \in 1 .. Len(list)}
  BY RangeEquality
<1> QED
  BY <1>1 DEF Find

(* An account at the end of a list that lacks its name. *)
LEMMA AppendFind ==
    ASSUME NEW list \in Seq(InList), NEW a \in InList
    PROVE  /\ Append(list, a) \in Seq(InList)
           /\ \A n : Find(Append(list, a), n) =
                 IF a.name = n THEN Find(list, n) \union {a} ELSE Find(list, n)
           /\ Unique(list) /\ Find(list, a.name) = {} => Unique(Append(list, a))
<1> DEFINE longer == Append(list, a)
<1>1. /\ longer \in Seq(InList) /\ Len(longer) = Len(list) + 1 /\ Len(list) \in Nat
      /\ \A i \in 1 .. Len(list) : longer[i] = list[i]
      /\ longer[Len(list) + 1] = a
      /\ DOMAIN longer = 1 .. Len(longer) /\ DOMAIN list = 1 .. Len(list)
  BY AppendProperties, LenProperties
<1> HIDE DEF longer
<1>2. Range(longer) = Range(list) \union {a}
  <2>1. Range(longer) = {longer[i] : i \in 1 .. Len(list) + 1}
        /\ Range(list) = {list[i] : i \in 1 .. Len(list)}
    BY <1>1, RangeEquality
  <2> QED
    BY <1>1, <2>1
<1>3. \A n : Find(longer, n) =
         IF a.name = n THEN Find(list, n) \union {a} ELSE Find(list, n)
  BY <1>2 DEF Find
<1>4. ASSUME Unique(list), Find(list, a.name) = {} PROVE Unique(longer)
  <2>1. \A i \in 1 .. Len(list) : list[i].name # a.name
    BY <1>4, Found
  <2> QED
    BY <1>1, <1>4, <2>1 DEF Unique
<1> QED
  BY <1>1, <1>3, <1>4 DEF longer

(* A list without its i-th account. *)
LEMMA Removed ==
    ASSUME NEW list \in Seq(InList), NEW i \in 1 .. Len(list)
    PROVE  /\ RemoveAt(list, i) \in Seq(InList)
           /\ Len(RemoveAt(list, i)) = Len(list) - 1
           /\ \A j \in 1 .. Len(list) - 1 :
                 RemoveAt(list, i)[j] = IF j < i THEN list[j] ELSE list[j + 1]
<1>1. Len(list) \in Nat /\ \A j \in 1 .. Len(list) : list[j] \in InList
  BY LenProperties
<1> DEFINE l == SubSeq(list, 1, i - 1)
           r == SubSeq(list, i + 1, Len(list))
<1>2. l \in Seq(InList) /\ Len(l) = i - 1 /\ \A j \in 1 .. i - 1 : l[j] = list[j]
  BY <1>1, SubSeqProperties
<1>3. /\ r \in Seq(InList) /\ Len(r) = Len(list) - i
      /\ \A j \in 1 .. Len(list) - i : r[j] = list[i + j]
  <2>1. \A j \in i + 1 .. Len(list) : list[j] \in InList
    BY <1>1
  <2>2. /\ r \in Seq(InList)
        /\ Len(r) = IF i + 1 <= Len(list) THEN Len(list) - (i + 1) + 1 ELSE 0
        /\ \A j \in 1 .. Len(list) - (i + 1) + 1 : r[j] = list[i + 1 + j - 1]
    BY <1>1, <2>1, SubSeqProperties
  <2> QED
    BY <1>1, <2>2
<1>4. RemoveAt(list, i) = l \o r
  BY DEF RemoveAt
<1> HIDE DEF l, r
<1>5. /\ l \o r \in Seq(InList) /\ Len(l \o r) = Len(l) + Len(r)
      /\ \A j \in 1 .. Len(l) + Len(r) :
           (l \o r)[j] = IF j <= Len(l) THEN l[j] ELSE r[j - Len(l)]
  BY <1>2, <1>3, ConcatProperties
<1>6. ASSUME NEW j \in 1 .. Len(list) - 1
      PROVE  (l \o r)[j] = IF j < i THEN list[j] ELSE list[j + 1]
  <2>1. CASE j < i
    BY <1>1, <1>2, <1>3, <1>5, <2>1
  <2>2. CASE j >= i
    <3>1. j - (i - 1) \in 1 .. Len(list) - i /\ i + (j - (i - 1)) = j + 1
      BY <1>1, <2>2
    <3>2. r[j - (i - 1)] = list[j + 1]
      BY <1>3, <3>1
    <3>3. (l \o r)[j] = r[j - Len(l)]
      BY <1>1, <1>2, <1>3, <1>5, <2>2
    <3> QED
      BY <1>2, <2>2, <3>2, <3>3
  <2>3. j < i \/ j >= i
    BY <1>1
  <2> QED
    BY <2>1, <2>2, <2>3
<1> QED
  BY <1>1, <1>2, <1>3, <1>4, <1>5, <1>6

LEMMA AddedFind ==
    ASSUME accounts \in Seq(InList), NEW name \in Names, NEW data \in Data
    PROVE  /\ Added(name, data) \in Seq(InList)
           /\ Unique(accounts) => Unique(Added(name, data))
           /\ \A n : Find(Added(name, data), n) =
                 IF n = name /\ Find(accounts, name) = {}
                 THEN {Account(name, data)} ELSE Find(accounts, n)
<1> DEFINE a == Account(name, data)
<1>1. a \in InList /\ a.name = name
  BY DEF InList, Account
<1>2. CASE Find(accounts, name) = {}
  <2>1. Added(name, data) = Append(accounts, a)
    BY <1>2 DEF Added
  <2> QED
    BY <1>1, <1>2, <2>1, AppendFind
<1> QED
  BY <1>2 DEF Added

LEMMA DeletedUnique ==
    ASSUME accounts \in Seq(InList), NEW name
    PROVE  /\ Deleted(name) \in Seq(InList)
           /\ Unique(accounts) => Unique(Deleted(name))
<1> DEFINE i == CHOOSE k \in DOMAIN accounts : accounts[k].name = name
<1> USE LenProperties
<1>1. CASE Find(accounts, name) = {}
  BY <1>1 DEF Deleted
<1>2. CASE Find(accounts, name) # {}
  <2>1. i \in 1 .. Len(accounts)
    BY <1>2, Found
  <2>2. Deleted(name) = RemoveAt(accounts, i)
    BY <1>2 DEF Deleted
  <2> HIDE DEF i
  <2>3. /\ Deleted(name) \in Seq(InList) /\ Len(Deleted(name)) = Len(accounts) - 1
        /\ \A j \in 1 .. Len(accounts) - 1 :
              Deleted(name)[j] = IF j < i THEN accounts[j] ELSE accounts[j + 1]
    BY <2>1, <2>2, Removed
  <2>4. /\ Len(accounts) \in Nat
        /\ DOMAIN accounts = 1 .. Len(accounts)
        /\ DOMAIN Deleted(name) = 1 .. Len(accounts) - 1
    BY <2>3
  <2>5. ASSUME Unique(accounts), NEW j \in 1 .. Len(accounts) - 1,
               NEW k \in 1 .. Len(accounts) - 1,
               Deleted(name)[j].name = Deleted(name)[k].name
        PROVE  j = k
    <3> DEFINE old(m) == IF m < i THEN m ELSE m + 1
    <3>1. old(j) \in 1 .. Len(accounts) /\ old(k) \in 1 .. Len(accounts)
      BY <2>1, <2>4
    <3>2. Deleted(name)[j] = accounts[old(j)] /\ Deleted(name)[k] = accounts[old(k)]
      BY <2>3
    <3>3. old(j) = old(k)
      BY <2>4, <2>5, <3>1, <3>2 DEF Unique
    <3> QED
      BY <2>1, <2>4, <3>3
  <2> QED
    BY <2>3, <2>4, <2>5 DEF Unique
<1> QED
  BY <1>1, <1>2

LEMMA WithUnique ==
    ASSUME accounts \in Seq(InList), NEW name \in Names, NEW data \in Data \union {Moved}
    PROVE  /\ With(name, data) \in Seq(InList)
           /\ Unique(accounts) => Unique(With(name, data))
<1>1. /\ Len(accounts) \in Nat /\ DOMAIN accounts = 1 .. Len(accounts)
      /\ \A i \in 1 .. Len(accounts) : accounts[i] \in InList
  BY LenProperties
<1>2. \A i \in 1 .. Len(accounts) : /\ With(name, data)[i] \in InList
                                    /\ With(name, data)[i].name = accounts[i].name
  BY <1>1 DEF With, Account, InList
<1>3. DOMAIN With(name, data) = 1 .. Len(accounts)
  BY <1>1 DEF With
<1>4. With(name, data) \in [1 .. Len(accounts) -> InList]
  BY <1>1, <1>2 DEF With
<1>5. With(name, data) \in Seq(InList)
  BY <1>1, <1>4, SeqDef
<1>6. Unique(accounts) => Unique(With(name, data))
  BY <1>1, <1>2, <1>3 DEF Unique
<1> QED
  BY <1>5, <1>6

(* A list without its first account. *)
LEMMA TailFind ==
    ASSUME NEW list \in Seq(InList), list # <<>>
    PROVE  /\ Head(list) \in InList /\ Tail(list) \in Seq(InList)
           /\ \A n : Find(list, n) = IF Head(list).name = n
                 THEN Find(Tail(list), n) \union {Head(list)} ELSE Find(Tail(list), n)
           /\ Unique(list) => /\ Unique(Tail(list))
                              /\ Find(Tail(list), Head(list).name) = {}
<1> DEFINE rest == Tail(list)
<1>1. /\ Head(list) \in InList /\ rest \in Seq(InList) /\ Len(rest) = Len(list) - 1
      /\ \A i \in 1 .. Len(rest) : rest[i] = list[i + 1]
      /\ Head(list) = list[1] /\ Len(list) \in Nat \ {0}
      /\ DOMAIN list = 1 .. Len(list) /\ DOMAIN rest = 1 .. Len(rest)
  BY HeadTailProperties, LenProperties, EmptySeq
<1> HIDE DEF rest
<1>2. Range(list) = Range(rest) \union {Head(list)}
  <2>1. Range(list) = {list[i] : i \in 1 .. Len(list)}
        /\ Range(rest) = {rest[i] : i \in 1 .. Len(list) - 1}
    BY <1>1, RangeEquality
  <2>2. \A i \in 1 .. Len(list) : i = 1 \/ (i - 1 \in 1 .. Len(list) - 1 /\ rest[i - 1] = list[i])
    BY <1>1
  <2>3. \A i \in 1 .. Len(list) - 1 : i + 1 \in 1 .. Len(list) /\ rest[i] = list[i + 1]
    BY <1>1
  <2>4. 1 \in 1 .. Len(list)
    BY <1>1
  <2> QED
    BY <1>1, <2>1, <2>2, <2>3, <2>4
<1>3. \A n : Find(list, n) = IF Head(list).name = n
         THEN Find(rest, n) \union {Head(list)} ELSE Find(rest, n)
  BY <1>2 DEF Find
<1>4. ASSUME Unique(list) PROVE Unique(rest) /\ Find(rest, Head(list).name) = {}
  <2>1. \A i, j \in 1 .. Len(rest) : rest[i].name = rest[j].name => i = j
    <3> SUFFICES ASSUME NEW i \in 1 .. Len(rest), NEW j \in 1 .. Len(rest), rest[i].name = rest[j].name
                 PROVE  i = j
      OBVIOUS
    <3>1. /\ i + 1 \in DOMAIN list /\ j + 1 \in DOMAIN list
          /\ rest[i] = list[i + 1] /\ rest[j] = list[j + 1]
      BY <1>1
    <3>2. i + 1 = j + 1
      BY <1>4, <3>1 DEF Unique
    <3> QED
      BY <3>2
  <2>2. \A i \in 1 .. Len(rest) : rest[i].name # Head(list).name
    <3> SUFFICES ASSUME NEW i \in 1 .. Len(rest), rest[i].name = Head(list).name
                 PROVE  FALSE
      OBVIOUS
    <3>1. /\ 1 \in DOMAIN list /\ i + 1 \in DOMAIN list
          /\ rest[i] = list[i + 1] /\ Head(list) = list[1] /\ i + 1 # 1
      BY <1>1
    <3> QED
      BY <1>4, <3>1 DEF Unique
  <2> QED
    BY <1>1, <2>1, <2>2, Found DEF Unique
<1> QED
  BY <1>1, <1>3, <1>4 DEF rest

(* A piece of the copy reaches the file: together they stay what they were. *)
LEMMA Flushed ==
    ASSUME NEW S, NEW l \in Seq(S), NEW o \in Seq(S), o # <<>>
    PROVE  Append(l, Head(o)) \o Tail(o) = l \o o
<1>1. /\ Head(o) \in S /\ Tail(o) \in Seq(S) /\ Head(o) = o[1]
      /\ Len(Tail(o)) = Len(o) - 1 /\ Len(o) \in Nat \ {0}
      /\ \A i \in 1 .. Len(Tail(o)) : Tail(o)[i] = o[i + 1]
  BY HeadTailProperties, LenProperties, EmptySeq
<1>2. <<Head(o)>> \in Seq(S) /\ Len(<<Head(o)>>) = 1 /\ <<Head(o)>>[1] = o[1]
  BY <1>1
<1>3. <<Head(o)>> \o Tail(o) = o
  <2> DEFINE h == <<Head(o)>>
             t == Tail(o)
  <2>1. h \in Seq(S) /\ t \in Seq(S) /\ Len(h) = 1 /\ h[1] = o[1]
        /\ Len(t) = Len(o) - 1 /\ \A i \in 1 .. Len(t) : t[i] = o[i + 1]
    BY <1>1, <1>2
  <2> HIDE DEF h, t
  <2>2. /\ h \o t \in Seq(S) /\ Len(h \o t) = Len(h) + Len(t)
        /\ \A i \in 1 .. Len(h) + Len(t) :
             (h \o t)[i] = IF i <= Len(h) THEN h[i] ELSE t[i - Len(h)]
    <3>1. h \in Seq(S) /\ t \in Seq(S)
      BY <2>1
    <3> QED
      BY <3>1, ConcatProperties
  <2>3. ASSUME NEW i \in 1 .. Len(o) PROVE (h \o t)[i] = o[i]
    <3>1. CASE i = 1
      <4>1. 1 \in 1 .. Len(h) + Len(t) /\ 1 <= Len(h)
        BY <1>1, <2>1
      <4>2. (h \o t)[1] = h[1]
        BY <2>2, <4>1
      <4> QED
        BY <2>1, <3>1, <4>2
    <3>2. CASE i > 1
      <4>1. i - 1 \in 1 .. Len(t) /\ (i - 1) + 1 = i /\ i - Len(h) = i - 1
        BY <1>1, <2>1, <3>2
      <4>2. t[i - 1] = o[i]
        BY <2>1, <4>1
      <4>3. i \in 1 .. Len(h) + Len(t) /\ ~(i <= Len(h))
        BY <1>1, <2>1, <3>2
      <4>4. (h \o t)[i] = t[i - Len(h)]
        BY <2>2, <4>3
      <4> QED
        BY <4>1, <4>2, <4>4
    <3>3. i = 1 \/ i > 1
      BY <1>1
    <3> QED
      BY <3>1, <3>2, <3>3
  <2>4. Len(h \o t) = Len(o)
    BY <1>1, <2>1, <2>2
  <2>5. h \o t = o
    BY <1>1, <2>2, <2>3, <2>4, SeqEqual
  <2> QED
    BY <2>5 DEF h, t
<1>4. Append(l, Head(o)) = l \o <<Head(o)>>
  BY <1>1, AppendIsConcat
<1>5. (l \o <<Head(o)>>) \o Tail(o) = l \o (<<Head(o)>> \o Tail(o))
  BY <1>1, <1>2, ConcatAssociative
<1> QED
  BY <1>3, <1>4, <1>5
-----------------------------------------------------------------------------
(* The types. *)

LEMMA EntriesNat == MaxEntries \in Nat
BY AccountAssumption, Zenon

LEMMA InitType == Init => TypeOK
<1> SUFFICES ASSUME Init PROVE TypeOK
  OBVIOUS
<1>1. Fallback \in Accounts
  BY AccountAssumption DEF Fallback, Account, Accounts
<1>2. <<>> \in Seq(Accounts) /\ <<>> \in Seq(InList) /\ <<Fallback>> \in Seq(Accounts)
  BY <1>1
<1>3. NoEntry \in [from : Names, to : Names, data : Data \union {Moved}]
  BY AccountAssumption DEF NoEntry
<1>4. /\ pc \in [Helpers -> {"idle"}] /\ entries \in [Helpers -> 0 .. MaxEntries]
      /\ entry \in [Helpers -> [from : Names, to : Names, data : Data \union {Moved}]]
      /\ out \in [Helpers -> Seq(Accounts)]
  <2>1. 0 \in 0 .. MaxEntries
    BY EntriesNat
  <2> QED
    BY <1>2, <1>3, <2>1 DEF Init
<1>5. {file, whole, lines} \subseteq Seq(Accounts) /\ accounts \in Seq(InList)
  BY <1>2 DEF Init
<1> QED
  BY <1>4, <1>5 DEF Init, TypeOK, InList

LEMMA NextType == TypeOK /\ Next => TypeOK'
<1> SUFFICES ASSUME TypeOK, Next PROVE TypeOK'
  OBVIOUS
<1> USE DEF table, disk, boot, locals, At, Goto
<1>1. accounts \in Seq(InList)
  BY DEF TypeOK, InList
<1>2. <<>> \in Seq(Accounts) /\ <<>> \in Seq(InList)
  BY EmptySeq
<1>3. NoEntry \in [from : Names, to : Names, data : Data \union {Moved}]
  BY AccountAssumption DEF NoEntry
<1>4. \A name \in Names, data \in Data : Added(name, data) \in Seq(InList)
  BY <1>1, AddedFind
<1>5. \A name \in Names : Deleted(name) \in Seq(InList)
  BY <1>1, DeletedUnique
<1>6. \A name \in Names, data \in Data \union {Moved} : With(name, data) \in Seq(InList)
  BY <1>1, WithUnique
<1>7. CASE Hangup
  BY <1>7 DEF Hangup, TypeOK
<1>8. CASE Reset
  BY <1>2, <1>8 DEF Reset, TypeOK, InList
<1>9. CASE Open
  BY <1>9 DEF Open, TypeOK
<1>10. CASE process_hlpasswd
  <2>1. Head(lines) \in Accounts /\ Tail(lines) \in Seq(Accounts)
    BY <1>10, HeadTailProperties DEF process_hlpasswd, TypeOK
  <2>2. accounts' \in Seq(InList)
    BY <1>4, <1>10, <2>1 DEF process_hlpasswd, Accounts
  <2> QED
    BY <1>10, <2>1, <2>2 DEF process_hlpasswd, TypeOK, InList
<1>11. CASE Loaded
  BY <1>11 DEF Loaded, TypeOK
<1>12. CASE FallBack
  <2>1. accounts' \in Seq(InList)
    BY <1>4, <1>12, AccountAssumption DEF FallBack
  <2> QED
    BY <1>12, <2>1 DEF FallBack, TypeOK, InList
<1>13. CASE Crash
  <2>1. /\ pc' \in [Helpers -> {"idle"}] /\ entries' \in [Helpers -> 0 .. MaxEntries]
        /\ entry' \in [Helpers -> [from : Names, to : Names, data : Data \union {Moved}]]
        /\ out' \in [Helpers -> Seq(Accounts)]
    <3>1. 0 \in 0 .. MaxEntries
      BY EntriesNat
    <3> QED
      BY <1>2, <1>3, <1>13, <3>1 DEF Crash
  <2>2. {file', whole', lines'} \subseteq Seq(Accounts) /\ accounts' \in Seq(InList)
    BY <1>2, <1>13 DEF Crash, TypeOK
  <2> QED
    BY <1>13, <2>1, <2>2 DEF Crash, TypeOK, InList
<1>14. ASSUME NEW h \in Helpers, NEW new, new \in Seq(InList), Change(h, new)
       PROVE  TypeOK'
  BY <1>14 DEF Change, TypeOK, InList
<1>15. ASSUME NEW h \in Helpers, Call(h) PROVE TypeOK'
  <2>1. CASE txn_create_account(h)
    BY <1>4, <1>14, <2>1 DEF txn_create_account
  <2>2. CASE txn_delete_account(h)
    BY <1>5, <1>14, <2>2 DEF txn_delete_account
  <2>3. CASE txn_modify_account(h)
    <3>1. PICK name \in Names, data \in Data :
             /\ fault' = \E a \in Find(accounts, name) : a.data = Moved
             /\ accounts' = IF fault' THEN accounts ELSE With(name, data)
      BY <2>3 DEF txn_modify_account
    <3>2. accounts' \in Seq(InList) /\ fault' \in BOOLEAN
      BY <1>1, <1>6, <3>1
    <3> QED
      BY <2>3, <3>2 DEF txn_modify_account, TypeOK, InList
  <2>4. CASE txn_admin_submit(h)
    <3>1. entries' \in [Helpers -> 0 .. MaxEntries]
      BY <2>4 DEF txn_admin_submit, TypeOK
    <3>2. pc' = [pc EXCEPT ![h] = "submit"]
          /\ UNCHANGED <<table, disk, boot, entry, out, fault, given_up>>
      BY <2>4 DEF txn_admin_submit
    <3> QED
      BY <3>1, <3>2 DEF TypeOK
  <2> QED
    BY <1>15, <2>1, <2>2, <2>3, <2>4 DEF Call
<1>16. ASSUME NEW h \in Helpers, Next_entry(h)
       PROVE  entries' \in [Helpers -> 0 .. MaxEntries]
  <2>1. entries[h] \in 0 .. MaxEntries /\ entries[h] > 0
    BY <1>16 DEF Next_entry, More, TypeOK
  <2>2. entries' = [entries EXCEPT ![h] = entries[h] - 1]
    BY <1>16 DEF Next_entry
  <2>3. entries[h] - 1 \in 0 .. MaxEntries /\ entries \in [Helpers -> 0 .. MaxEntries]
    BY <2>1, EntriesNat DEF TypeOK
  <2> QED
    BY <2>2, <2>3
<1>17. ASSUME NEW h \in Helpers, EntryOfTwo(h) PROVE TypeOK'
  <2>1. PICK from, to \in Names, given \in Data \union {Moved} :
           \/ /\ am_rcl' = h /\ Goto(h, "idle") /\ given_up' = TRUE
              /\ UNCHANGED <<accounts, entry>>
           \/ \E a \in Find(accounts, from) :
              /\ entry' = [entry EXCEPT ![h] = [from |-> from, to |-> to,
                    data |-> IF given # Moved THEN given ELSE a.data]]
              /\ accounts' = IF given # Moved THEN accounts ELSE With(from, Moved)
              /\ Goto(h, "delete")
              /\ UNCHANGED <<am_rcl, given_up>>
    BY <1>17 DEF EntryOfTwo
  <2>2. Find(accounts, from) \subseteq InList
    <3>1. \A i \in 1 .. Len(accounts) : accounts[i] \in InList
      BY <1>1, LenProperties
    <3> QED
      BY <1>1, <3>1, RangeOfSeq DEF Find
  <2>3. entry' \in [Helpers -> [from : Names, to : Names, data : Data \union {Moved}]]
    <3> DEFINE Entry == [from : Names, to : Names, data : Data \union {Moved}]
    <3>1. entry \in [Helpers -> Entry]
      BY DEF TypeOK
    <3>2. ASSUME NEW a \in Find(accounts, from),
                 NEW e, e = [from |-> from, to |-> to,
                             data |-> IF given # Moved THEN given ELSE a.data]
          PROVE  e \in Entry
      <4>1. a.data \in Data \union {Moved}
        BY <2>2, <3>2 DEF InList
      <4> QED
        BY <3>2, <4>1
    <3> HIDE DEF Entry
    <3>3. entry' = entry \/ \E e \in Entry : entry' = [entry EXCEPT ![h] = e]
      BY <2>1, <3>2
    <3>4. entry' \in [Helpers -> Entry]
      BY <3>1, <3>3
    <3> QED
      BY <3>4 DEF Entry
  <2>4. accounts' \in Seq(InList)
    BY <1>1, <1>6, <2>1
  <2>5. /\ pc' \in [Helpers -> {"idle", "submit", "delete", "add", "am_del_account",
                                "commit", "copy", "flush"}]
        /\ am_rcl' \in Helpers \union {Nobody} /\ given_up' \in BOOLEAN
    BY <2>1 DEF TypeOK
  <2>6. entries' \in [Helpers -> 0 .. MaxEntries] /\ UNCHANGED <<disk, boot, out, fault>>
    BY <1>16, <1>17 DEF EntryOfTwo
  <2> QED
    BY <2>3, <2>4, <2>5, <2>6 DEF TypeOK, InList
<1>18. ASSUME NEW h \in Helpers, process_user_entry(h) PROVE TypeOK'
  <2>1. CASE EntryOfOne(h)
    <3>1. accounts' \in Seq(InList)
      BY <1>4, <1>5, <2>1 DEF EntryOfOne
    <3>2. entries' \in [Helpers -> 0 .. MaxEntries]
      BY <1>16, <2>1 DEF EntryOfOne
    <3> QED
      BY <2>1, <3>1, <3>2 DEF EntryOfOne, TypeOK, InList
  <2>2. CASE DeleteSource(h)
    <3>1. accounts' \in Seq(InList)
      BY <1>5, <2>2 DEF DeleteSource, TypeOK
    <3> QED
      BY <2>2, <3>1 DEF DeleteSource, TypeOK, InList
  <2>3. CASE AddRenamed(h)
    <3>1. entry[h].to \in Names /\ entry[h].data \in Data \union {Moved}
      BY DEF TypeOK
    <3>2. fault' \in BOOLEAN /\ accounts' \in Seq(InList)
      BY <1>1, <1>4, <2>3, <3>1 DEF AddRenamed
    <3> QED
      BY <1>3, <2>3, <3>2 DEF AddRenamed, TypeOK, InList
  <2>4. CASE EntryWithoutName(h)
    <3>1. entries' \in [Helpers -> 0 .. MaxEntries]
      BY <1>16, <2>4 DEF EntryWithoutName
    <3> QED
      BY <2>4, <3>1 DEF EntryWithoutName, TypeOK
  <2>5. CASE MalformedEntry(h)
    <3>1. entries' \in [Helpers -> 0 .. MaxEntries]
      BY <1>16, <2>5 DEF MalformedEntry
    <3> QED
      BY <2>5, <3>1 DEF MalformedEntry, TypeOK
  <2> QED
    BY <1>17, <1>18, <2>1, <2>2, <2>3, <2>4, <2>5 DEF process_user_entry
<1>19. ASSUME NEW h \in Helpers, Submitted(h) PROVE TypeOK'
  <2>1. entries' \in [Helpers -> 0 .. MaxEntries]
    <3>1. 0 \in 0 .. MaxEntries
      BY EntriesNat
    <3> QED
      BY <1>19, <3>1 DEF Submitted, TypeOK
  <2>2. pc' = [pc EXCEPT ![h] = "commit"]
        /\ UNCHANGED <<table, disk, boot, entry, out, fault, given_up>>
    BY <1>19 DEF Submitted
  <2> QED
    BY <2>1, <2>2 DEF TypeOK
<1>20. ASSUME NEW h \in Helpers, am_commit(h) PROVE TypeOK'
  <2>1. CASE Truncate(h)
    BY <1>2, <2>1 DEF Truncate, TypeOK
  <2>2. CASE write_account(h)
    <3>1. /\ fault' = \E i \in DOMAIN accounts : accounts[i].data = Moved
          /\ out' = [out EXCEPT ![h] = IF fault' THEN <<>> ELSE accounts]
      BY <2>2 DEF write_account
    <3>2. fault' \in BOOLEAN
      BY <3>1
    <3>3. ASSUME ~fault' PROVE accounts \in Seq(Accounts)
      <4>1. \A i \in 1 .. Len(accounts) : accounts[i] \in InList /\ accounts[i].data # Moved
        BY <1>1, <3>1, <3>3, LenProperties
      <4>2. \A i \in 1 .. Len(accounts) : accounts[i] \in Accounts
        BY <4>1 DEF InList, Accounts
      <4> QED
        <5>1. accounts \in [1 .. Len(accounts) -> Accounts] /\ Len(accounts) \in Nat
          BY <1>1, <4>2, LenProperties
        <5> QED
          BY <5>1, SeqDef
    <3>4. out' \in [Helpers -> Seq(Accounts)]
      BY <1>2, <3>1, <3>3 DEF TypeOK
    <3> QED
      BY <2>2, <3>2, <3>4 DEF write_account, TypeOK
  <2>3. CASE Flush(h)
    <3>1. out[h] \in Seq(Accounts) /\ out[h] # <<>>
      BY <2>3 DEF Flush, TypeOK
    <3>2. Head(out[h]) \in Accounts /\ Tail(out[h]) \in Seq(Accounts)
      BY <3>1, HeadTailProperties
    <3>3. file' \in Seq(Accounts)
      BY <2>3, <3>2, AppendProperties DEF Flush, TypeOK
    <3>4. out' \in [Helpers -> Seq(Accounts)]
      BY <2>3, <3>2 DEF Flush, TypeOK
    <3> QED
      BY <2>3, <3>3, <3>4 DEF Flush, TypeOK
  <2>4. CASE Close(h)
    BY <2>4 DEF Close, TypeOK
  <2> QED
    BY <1>20, <2>1, <2>2, <2>3, <2>4 DEF am_commit
<1> QED
  BY <1>7, <1>8, <1>9, <1>10, <1>11, <1>12, <1>13, <1>15, <1>18, <1>19, <1>20 DEF Next, am_init
-----------------------------------------------------------------------------
(* The steps. *)

Invs == Mutex /\ OneEach /\ Saving

(* A helper that goes on with its transaction has still to save, so that    *)
(* nothing more is asked of what it does to the list.                       *)
LEMMA StaysPending ==
    ASSUME TypeOK, Invs, NEW h \in Helpers,
           NEW there \in {"submit", "delete", "add", "am_del_account", "commit"},
           pc[h] \notin {"copy", "flush"}, pc' = [pc EXCEPT ![h] = there],
           UNCHANGED <<hlpasswd_lock, file, whole, main, lines, out>>,
           Unique(accounts')
    PROVE  Invs'
<1>1. pc'[h] = there /\ \A x \in Helpers : x # h => pc'[x] = pc[x]
  BY DEF TypeOK
<1>2. Mutex'
  BY <1>1 DEF Mutex, Invs
<1>3. OneEach'
  BY <1>1 DEF OneEach, Find, Invs
<1>4. Pending'
  BY <1>1 DEF Pending
<1>5. Saving'
  BY <1>4 DEF Saving, Current
<1> QED
  BY <1>2, <1>3, <1>5 DEF Invs

(* One that ends without saving says so. *)
LEMMA GivesUp ==
    ASSUME TypeOK, Invs, NEW h \in Helpers,
           pc[h] \notin {"copy", "flush"}, pc' = [pc EXCEPT ![h] = "idle"],
           given_up' = TRUE,
           UNCHANGED <<accounts, hlpasswd_lock, file, whole, main, lines, out>>
    PROVE  Invs'
<1>1. pc'[h] = "idle" /\ \A x \in Helpers : x # h => pc'[x] = pc[x]
  BY DEF TypeOK
<1>2. Mutex'
  BY <1>1 DEF Mutex, Invs
<1>3. OneEach'
  BY <1>1 DEF OneEach, Find, Invs
<1> QED
  BY <1>2, <1>3 DEF Saving, Invs

LEMMA TransactionStep ==
    ASSUME TypeOK, Invs, NEW h \in Helpers,
           Call(h) \/ process_user_entry(h) \/ Submitted(h)
    PROVE  Invs'
<1> USE DEF table, disk, boot, locals, At, Goto
<1>1. accounts \in Seq(InList) /\ Unique(accounts)
  BY DEF TypeOK, InList, Invs, OneEach
<1>2. \A name \in Names, data \in Data : Unique(Added(name, data))
  BY <1>1, AddedFind
<1>3. \A name : Unique(Deleted(name))
  BY <1>1, DeletedUnique
<1>4. \A name \in Names, data \in Data \union {Moved} : Unique(With(name, data))
  BY <1>1, WithUnique
<1>5. ASSUME NEW new, Unique(new), Change(h, new) PROVE Invs'
  <2>1. /\ pc[h] \notin {"copy", "flush"} /\ pc' = [pc EXCEPT ![h] = "commit"]
        /\ UNCHANGED <<hlpasswd_lock, file, whole, main, lines, out>>
        /\ Unique(accounts')
    BY <1>5 DEF Change
  <2> QED
    BY <2>1, StaysPending
<1>6. CASE Call(h)
  <2>1. CASE txn_create_account(h)
    BY <1>2, <1>5, <2>1 DEF txn_create_account
  <2>2. CASE txn_delete_account(h)
    BY <1>3, <1>5, <2>2 DEF txn_delete_account
  <2>3. CASE txn_modify_account(h)
    <3>1. /\ pc[h] \notin {"copy", "flush"} /\ pc' = [pc EXCEPT ![h] = "commit"]
          /\ UNCHANGED <<hlpasswd_lock, file, whole, main, lines, out>>
          /\ Unique(accounts')
      BY <1>1, <1>4, <2>3 DEF txn_modify_account
    <3> QED
      BY <3>1, StaysPending
  <2>4. CASE txn_admin_submit(h)
    <3>1. /\ pc[h] \notin {"copy", "flush"} /\ pc' = [pc EXCEPT ![h] = "submit"]
          /\ UNCHANGED <<hlpasswd_lock, file, whole, main, lines, out>>
          /\ Unique(accounts')
      BY <1>1, <2>4 DEF txn_admin_submit
    <3> QED
      BY <3>1, StaysPending
  <2> QED
    BY <1>6, <2>1, <2>2, <2>3, <2>4 DEF Call
<1>7. pc[h] = "submit" => pc = [pc EXCEPT ![h] = "submit"]
  BY DEF TypeOK
<1>8. CASE EntryOfOne(h)
  <2>1. /\ pc[h] \notin {"copy", "flush"} /\ pc' = [pc EXCEPT ![h] = "submit"]
        /\ UNCHANGED <<hlpasswd_lock, file, whole, main, lines, out>>
        /\ Unique(accounts')
    BY <1>2, <1>3, <1>7, <1>8 DEF EntryOfOne, Next_entry
  <2> QED
    BY <2>1, StaysPending
<1>9. CASE EntryOfTwo(h)
  <2>1. /\ pc[h] \notin {"copy", "flush"}
        /\ UNCHANGED <<hlpasswd_lock, file, whole, main, lines, out>>
        /\ \/ pc' = [pc EXCEPT ![h] = "idle"] /\ given_up' = TRUE /\ UNCHANGED accounts
           \/ pc' = [pc EXCEPT ![h] = "delete"] /\ Unique(accounts')
    BY <1>1, <1>4, <1>9 DEF EntryOfTwo, Next_entry
  <2> QED
    BY <2>1, StaysPending, GivesUp
<1>10. CASE DeleteSource(h)
  <2>1. /\ pc[h] \notin {"copy", "flush"} /\ pc' = [pc EXCEPT ![h] = "add"]
        /\ UNCHANGED <<hlpasswd_lock, file, whole, main, lines, out>>
        /\ Unique(accounts')
    BY <1>3, <1>10 DEF DeleteSource
  <2> QED
    BY <2>1, StaysPending
<1>11. CASE AddRenamed(h)
  <2>1. entry[h].to \in Names /\ entry[h].data \in Data \union {Moved}
    BY DEF TypeOK
  <2>2. /\ pc[h] \notin {"copy", "flush"} /\ pc' = [pc EXCEPT ![h] = "submit"]
        /\ UNCHANGED <<hlpasswd_lock, file, whole, main, lines, out>>
        /\ Unique(accounts')
    BY <1>1, <1>2, <1>11, <2>1 DEF AddRenamed
  <2> QED
    BY <2>2, StaysPending
<1>12. CASE EntryWithoutName(h)
  <2>1. /\ pc[h] \notin {"copy", "flush"} /\ pc' = [pc EXCEPT ![h] = "am_del_account"]
        /\ UNCHANGED <<hlpasswd_lock, file, whole, main, lines, out>>
        /\ Unique(accounts')
    BY <1>1, <1>12 DEF EntryWithoutName, Next_entry
  <2> QED
    BY <2>1, StaysPending
<1>13. CASE MalformedEntry(h)
  <2>1. /\ pc[h] \notin {"copy", "flush"} /\ pc' = [pc EXCEPT ![h] = "idle"]
        /\ given_up' = TRUE
        /\ UNCHANGED <<accounts, hlpasswd_lock, file, whole, main, lines, out>>
    BY <1>13 DEF MalformedEntry, Next_entry
  <2> QED
    BY <2>1, GivesUp
<1>14. CASE Submitted(h)
  <2>1. /\ pc[h] \notin {"copy", "flush"} /\ pc' = [pc EXCEPT ![h] = "commit"]
        /\ UNCHANGED <<hlpasswd_lock, file, whole, main, lines, out>>
        /\ Unique(accounts')
    BY <1>1, <1>14 DEF Submitted
  <2> QED
    BY <2>1, StaysPending
<1> QED
  BY <1>6, <1>8, <1>9, <1>10, <1>11, <1>12, <1>13, <1>14 DEF process_user_entry

(* What is on its way to the file or in it has each name once. *)
LEMMA FileUnique ==
    ASSUME TypeOK, Mutex, OneEach
    PROVE  Unique(file)
<1>1. CASE hlpasswd_lock \in {Nobody, "main"}
  BY <1>1 DEF Mutex, OneEach
<1>2. ASSUME NEW h \in Helpers, pc[h] = "copy" PROVE Unique(file)
  <2>1. file = <<>>
    BY <1>2 DEF Mutex
  <2> QED
    BY <2>1 DEF Unique
<1>3. ASSUME NEW h \in Helpers, pc[h] = "flush" PROVE Unique(file)
  <2>1. file \in Seq(Accounts) /\ out[h] \in Seq(Accounts) /\ Unique(file \o out[h])
    BY <1>3 DEF TypeOK, OneEach
  <2>2. /\ \A i \in 1 .. Len(file) : (file \o out[h])[i] = file[i]
        /\ 1 .. Len(file) \subseteq DOMAIN (file \o out[h])
        /\ DOMAIN file = 1 .. Len(file)
    <3>1. /\ file \o out[h] \in Seq(Accounts)
          /\ Len(file \o out[h]) = Len(file) + Len(out[h])
          /\ \A i \in 1 .. Len(file) + Len(out[h]) : (file \o out[h])[i] =
                IF i <= Len(file) THEN file[i] ELSE out[h][i - Len(file)]
      BY <2>1, ConcatProperties
    <3>2. /\ Len(file) \in Nat /\ Len(out[h]) \in Nat /\ DOMAIN file = 1 .. Len(file)
          /\ DOMAIN (file \o out[h]) = 1 .. Len(file) + Len(out[h])
      BY <2>1, <3>1, LenProperties
    <3> QED
      BY <3>1, <3>2
  <2> QED
    BY <2>1, <2>2 DEF Unique
<1>4. hlpasswd_lock \in Helpers => \E h \in Helpers : pc[h] \in {"copy", "flush"}
  BY DEF Mutex
<1> QED
  BY <1>1, <1>2, <1>3, <1>4 DEF TypeOK

(* What am_init does, with nobody else at the file. *)
LEMMA ReadLine ==
    ASSUME TypeOK, Invs, process_hlpasswd
    PROVE  Invs'
<1> DEFINE a == Head(lines)
<1>1. /\ main = "load" /\ lines \in Seq(InList) /\ lines # <<>>
      /\ accounts' = Added(a.name, a.data) /\ lines' = Tail(lines)
      /\ UNCHANGED <<hlpasswd_lock, file, whole, main, pc, out, fault, given_up>>
  <2>1. lines \in Seq(InList)
    BY SeqMonotonic DEF TypeOK, Accounts, InList
  <2> QED
    BY <2>1 DEF process_hlpasswd, disk, locals
<1>2. accounts \in Seq(InList) /\ Unique(accounts) /\ Unique(lines) /\ Unique(whole)
      /\ \A n \in Names : Find(lines, n) \subseteq Find(whole, n)
  BY <1>1 DEF TypeOK, InList, Invs, OneEach
<1>3. a \in Accounts /\ a.name \in Names /\ a.data \in Data /\ Account(a.name, a.data) = a
  <2>1. a \in Accounts
    BY <1>1, HeadTailProperties DEF TypeOK
  <2> HIDE DEF a
  <2> QED
    BY <2>1 DEF Accounts, Account
<1>4. /\ Unique(Tail(lines)) /\ Find(Tail(lines), a.name) = {}
      /\ \A n : Find(lines, n) = IF a.name = n THEN Find(Tail(lines), n) \union {a}
                                               ELSE Find(Tail(lines), n)
  BY <1>1, <1>2, TailFind
<1>5. /\ Unique(accounts')
      /\ \A n : Find(accounts', n) = IF n = a.name /\ Find(accounts, n) = {}
                                     THEN {a} ELSE Find(accounts, n)
  BY <1>1, <1>2, <1>3, AddedFind
<1> HIDE DEF a
<1>6. Mutex'
  BY <1>1 DEF Mutex, Invs
<1>7. OneEach'
  <2>1. \A n \in Names : Find(lines', n) \subseteq Find(whole', n)
    BY <1>1, <1>2, <1>4 DEF Find
  <2> QED
    BY <1>1, <1>2, <1>4, <1>5, <2>1 DEF OneEach, Invs
<1>8. \A h \in Helpers : pc[h] \notin {"copy", "flush"}
  BY <1>1, AccountAssumption DEF Mutex, Invs
<1>9. ASSUME NEW n \in Names, Current(n) PROVE Current(n)'
  <2>1. CASE Pending
    BY <1>1, <2>1 DEF Pending, Current
  <2>2. CASE Find(accounts, n) = {} /\ Find(lines, n) = Find(whole, n)
    <3>1. CASE n = a.name
      <4>1. Find(accounts', n) = Find(whole', n)
        BY <1>1, <1>4, <1>5, <2>2, <3>1
      <4> QED
        BY <1>1, <1>8, <4>1 DEF Current
    <3>2. CASE n # a.name
      <4>1. Find(accounts', n) = {} /\ Find(lines', n) = Find(whole', n)
        BY <1>1, <1>4, <1>5, <2>2, <3>2
      <4> QED
        BY <1>1, <4>1 DEF Current
    <3> QED
      BY <3>1, <3>2
  <2>3. CASE Find(accounts, n) = Find(whole, n)
    <3>1. Find(accounts', n) = Find(whole', n)
      BY <1>1, <1>2, <1>4, <1>5, <2>3
    <3> QED
      BY <1>1, <1>8, <3>1 DEF Current
  <2> QED
    BY <1>1, <1>8, <1>9, <2>1, <2>2, <2>3 DEF Current
<1>10. Saving'
  BY <1>1, <1>9 DEF Saving, Invs
<1> QED
  BY <1>6, <1>7, <1>10 DEF Invs

LEMMA MainStep ==
    ASSUME TypeOK, Invs, Hangup \/ am_init
    PROVE  Invs'
<1> USE DEF table, disk, boot, locals
<1>0. accounts \in Seq(InList)
  BY DEF TypeOK, InList
<1>1. CASE Hangup
  <2>1. Mutex' /\ OneEach'
    BY <1>1 DEF Hangup, Mutex, OneEach, Find, Invs
  <2>2. Saving'
    BY <1>1 DEF Hangup, Saving, Current
  <2> QED
    BY <2>1, <2>2 DEF Invs
<1>2. CASE Reset
  <2>1. main' = "open" /\ accounts' = <<>> /\ Unique(<<>>)
        /\ \A n : Find(accounts', n) = {}
    BY <1>2 DEF Reset, Unique, Find, Range
  <2>2. Mutex'
    BY <1>2 DEF Reset, Mutex, Invs
  <2>3. OneEach'
    BY <1>2, <2>1 DEF Reset, OneEach, Find, Invs
  <2>4. Saving'
    BY <2>1 DEF Saving, Current
  <2> QED
    BY <2>2, <2>3, <2>4 DEF Invs
<1>3. CASE Open
  <2>1. CASE main' = "fallback"
    <3>1. /\ main = "open" /\ given_up'
          /\ UNCHANGED <<accounts, hlpasswd_lock, file, whole, lines, pc, out>>
      BY <1>3, <2>1 DEF Open
    <3>2. Mutex' /\ OneEach'
      BY <2>1, <3>1 DEF Mutex, OneEach, Invs
    <3> QED
      BY <3>1, <3>2 DEF Saving, Invs
  <2>2. CASE main' # "fallback"
    <3>1. /\ main = "open" /\ main' = "load" /\ hlpasswd_lock = Nobody
          /\ hlpasswd_lock' = "main" /\ lines' = file
          /\ UNCHANGED <<accounts, file, whole, pc, out, fault, given_up>>
      BY <1>3, <2>2 DEF Open, Free
    <3>2. file = whole /\ \A h \in Helpers : pc[h] \notin {"copy", "flush"}
      BY <3>1, AccountAssumption DEF Mutex, Invs
    <3>3. Mutex'
      BY <3>1, <3>2, AccountAssumption DEF Mutex
    <3>4. OneEach'
      BY <3>1, <3>2 DEF OneEach, Invs
    <3>5. ASSUME NEW n \in Names, Current(n) PROVE Current(n)'
      <4>1. CASE Pending
        BY <3>1, <4>1 DEF Pending, Current
      <4>2. CASE Find(accounts, n) \in {{}, Find(whole, n)}
        BY <3>1, <3>2, <4>2 DEF Current, Find
      <4> QED
        BY <3>1, <3>2, <3>5, <4>1, <4>2 DEF Current
    <3>6. Saving'
      BY <3>1, <3>5 DEF Saving, Invs
    <3> QED
      BY <3>3, <3>4, <3>6 DEF Invs
  <2> QED
    BY <2>1, <2>2
<1>4. CASE process_hlpasswd
  BY <1>4, ReadLine
<1>5. CASE Loaded
  <2>1. /\ main = "load" /\ main' \in {"fallback", "poll"} /\ lines = <<>>
        /\ hlpasswd_lock' = Nobody
        /\ UNCHANGED <<accounts, file, whole, lines, pc, out, fault, given_up>>
    BY <1>5 DEF Loaded
  <2>2. file = whole /\ \A h \in Helpers : pc[h] \notin {"copy", "flush"}
    BY <2>1, AccountAssumption DEF Mutex, Invs
  <2>3. Mutex'
    BY <2>1, <2>2, AccountAssumption DEF Mutex
  <2>4. OneEach'
    BY <2>1, <2>2 DEF OneEach, Invs
  <2>5. \A n : Find(lines, n) = {}
    BY <2>1 DEF Find, Range
  <2>6. ASSUME NEW n \in Names, Current(n) PROVE Current(n)'
    <3>1. CASE Pending
      BY <2>1, <3>1 DEF Pending, Current
    <3>2. CASE Find(accounts, n) = Find(whole, n)
      BY <2>1, <2>2, <3>2 DEF Current, Find
    <3> QED
      BY <2>1, <2>2, <2>5, <2>6, <3>1, <3>2 DEF Current
  <2>7. Saving'
    BY <2>1, <2>6 DEF Saving, Invs
  <2> QED
    BY <2>3, <2>4, <2>7 DEF Invs
<1>6. CASE FallBack
  <2>1. /\ main = "fallback" /\ main' = "poll" /\ accounts' = Added(Admin, FullAccess)
        /\ UNCHANGED <<hlpasswd_lock, file, whole, lines, pc, out, fault, given_up>>
    BY <1>6 DEF FallBack
  <2>2. /\ Unique(accounts) => Unique(accounts')
        /\ \A n : Find(accounts', n) = IF n = Admin /\ Find(accounts, Admin) = {}
                                       THEN {Fallback} ELSE Find(accounts, n)
    BY <1>0, <2>1, AccountAssumption, AddedFind DEF Fallback
  <2>3. Mutex' /\ OneEach'
    BY <2>1, <2>2 DEF Mutex, OneEach, Invs
  <2>4. ASSUME NEW n \in Names, Current(n) PROVE Current(n)'
    <3>1. CASE Pending
      BY <2>1, <3>1 DEF Pending, Current
    <3>2. CASE Find(accounts', n) = {Fallback}
      BY <2>1, <3>2 DEF Current
    <3>3. CASE Find(accounts', n) = Find(accounts, n)
      BY <2>1, <2>4, <3>3 DEF Current, Find, Pending
    <3> QED
      BY <2>2, <3>1, <3>2, <3>3
  <2>5. Saving'
    BY <2>1, <2>4 DEF Saving, Invs
  <2> QED
    BY <2>3, <2>5 DEF Invs
<1> QED
  BY <1>1, <1>2, <1>3, <1>4, <1>5, <1>6 DEF am_init

(* What is on the disk is read again. *)
LEMMA CrashStep ==
    ASSUME TypeOK, Invs, Crash
    PROVE  Invs'
<1>1. Unique(file) /\ Unique(<<>>)
  BY FileUnique DEF Invs, Unique
<1>2. Mutex'
  BY AccountAssumption DEF Crash, Mutex
<1>3. OneEach'
  BY <1>1 DEF Crash, OneEach
<1>4. Saving'
  BY DEF Crash, Saving, Current
<1> QED
  BY <1>2, <1>3, <1>4 DEF Invs

(* am_commit, which holds hlpasswd_lock from the moment it empties the file *)
(* to the moment it has written it.                                         *)
LEMMA CopyStep ==
    ASSUME TypeOK, Invs, NEW h \in Helpers, Truncate(h) \/ write_account(h)
    PROVE  Invs'
<1> USE DEF table, disk, boot, locals, At, Goto
<1>1. CASE Truncate(h) /\ pc'[h] = "idle"
  <2>1. /\ pc[h] \notin {"copy", "flush"} /\ pc' = [pc EXCEPT ![h] = "idle"]
        /\ given_up' = TRUE
        /\ UNCHANGED <<accounts, hlpasswd_lock, file, whole, main, lines, out>>
    BY <1>1 DEF Truncate, TypeOK
  <2> QED
    BY <2>1, GivesUp
<1>2. CASE Truncate(h) /\ pc'[h] # "idle"
  <2>1. /\ pc[h] = "commit" /\ pc' = [pc EXCEPT ![h] = "copy"]
        /\ hlpasswd_lock = Nobody /\ hlpasswd_lock' = h /\ file' = <<>>
        /\ UNCHANGED <<accounts, whole, main, lines, out>>
    BY <1>2 DEF Truncate, TypeOK, Free
  <2>2. /\ pc'[h] = "copy" /\ \A x \in Helpers : x # h => pc'[x] = pc[x]
        /\ main # "load"
        /\ \A x \in Helpers : pc[x] \notin {"copy", "flush"}
    BY <2>1, AccountAssumption DEF TypeOK, Mutex, Invs
  <2>3. Mutex'
    BY <2>1, <2>2, AccountAssumption DEF Mutex
  <2>4. OneEach'
    BY <2>1, <2>2 DEF OneEach, Invs
  <2>5. Saving'
    BY <2>2 DEF Saving, Current, Pending
  <2> QED
    BY <2>3, <2>4, <2>5 DEF Invs
<1>3. CASE write_account(h)
  <2>1. /\ pc[h] = "copy" /\ pc' = [pc EXCEPT ![h] = "flush"]
        /\ out' = [out EXCEPT ![h] = IF fault' THEN <<>> ELSE accounts]
        /\ UNCHANGED <<accounts, hlpasswd_lock, file, whole, main, lines>>
    BY <1>3 DEF write_account
  <2>2. /\ pc'[h] = "flush" /\ \A x \in Helpers : x # h => pc'[x] = pc[x]
        /\ hlpasswd_lock = h /\ file = <<>> /\ main # "load"
        /\ \A x \in Helpers : x # h => pc[x] \notin {"copy", "flush"}
    BY <2>1, AccountAssumption DEF TypeOK, Mutex, Invs
  <2>3. out'[h] = IF fault' THEN <<>> ELSE accounts
    BY <2>1 DEF TypeOK
  <2>4. file' \o out'[h] = IF fault' THEN <<>> ELSE accounts
    <3>1. accounts \in Seq(InList) /\ <<>> \in Seq(InList)
      BY EmptySeq DEF TypeOK, InList
    <3> QED
      BY <2>1, <2>2, <2>3, <3>1, ConcatEmptySeq
  <2>5. Mutex'
    BY <2>1, <2>2 DEF Mutex, Invs
  <2>6. OneEach'
    <3>1. Unique(file' \o out'[h])
      BY <2>4 DEF OneEach, Invs, Unique
    <3> QED
      BY <2>1, <2>2, <3>1 DEF OneEach, Invs
  <2>7. Saving'
    BY <2>1, <2>2, <2>4 DEF Saving, Current
  <2> QED
    BY <2>5, <2>6, <2>7 DEF Invs
<1> QED
  BY <1>1, <1>2, <1>3

LEMMA WriteStep ==
    ASSUME TypeOK, Invs, NEW h \in Helpers, Flush(h) \/ Close(h)
    PROVE  Invs'
<1> USE DEF table, disk, boot, locals, At, Goto
<1>1. /\ pc[h] = "flush" /\ hlpasswd_lock = h /\ main # "load"
      /\ \A x \in Helpers : x # h => pc[x] \notin {"copy", "flush"}
  BY AccountAssumption DEF Flush, Close, Mutex, Invs
<1>2. file \in Seq(Accounts) /\ out[h] \in Seq(Accounts)
  BY DEF TypeOK
<1>3. CASE Flush(h)
  <2>1. /\ file' = Append(file, Head(out[h])) /\ out[h] # <<>>
        /\ out' = [out EXCEPT ![h] = Tail(out[h])]
        /\ UNCHANGED <<accounts, hlpasswd_lock, whole, main, lines, pc, fault, given_up>>
    BY <1>3 DEF Flush
  <2>2. file' \o out'[h] = file \o out[h]
    <3>1. out'[h] = Tail(out[h])
      BY <2>1 DEF TypeOK
    <3> QED
      BY <1>2, <2>1, <3>1, Flushed
  <2>3. Mutex'
    BY <1>1, <2>1, AccountAssumption DEF Mutex, Invs
  <2>4. OneEach'
    BY <1>1, <2>1, <2>2 DEF OneEach, Invs
  <2>5. ASSUME NEW n \in Names, Current(n) PROVE Current(n)'
    <3>1. CASE Pending
      BY <2>1, <3>1 DEF Pending, Current
    <3>2. CASE Find(file \o out[h], n) = Find(accounts, n)
      <4>1. Find(file' \o out'[h], n) = Find(accounts', n)
        BY <2>1, <2>2, <3>2
      <4> QED
        BY <1>1, <2>1, <4>1 DEF Current
    <3>3. CASE main = "reset" \/ (main = "open" /\ Find(accounts, n) = {})
               \/ (main \in {"poll", "fallback"} /\ Find(accounts, n) = {Fallback})
      BY <2>1, <3>3 DEF Current
    <3>4. (\E x \in Helpers : /\ pc[x] = "flush"
                              /\ Find(file \o out[x], n) = Find(accounts, n))
          => Find(file \o out[h], n) = Find(accounts, n)
      BY <1>1
    <3>5. ~(\A x \in Helpers : pc[x] # "flush") /\ main # "load"
      BY <1>1
    <3>6. \/ Pending
          \/ main = "reset" \/ (main = "open" /\ Find(accounts, n) = {})
          \/ main \in {"poll", "fallback"} /\ Find(accounts, n) = {Fallback}
          \/ Find(file \o out[h], n) = Find(accounts, n)
      BY <2>5, <3>4, <3>5 DEF Current
    <3> QED
      BY <3>1, <3>2, <3>3, <3>6
  <2>6. Saving'
    BY <2>1, <2>5 DEF Saving, Invs
  <2> QED
    BY <2>3, <2>4, <2>6 DEF Invs
<1>4. CASE Close(h)
  <2>1. /\ out[h] = <<>> /\ whole' = file /\ hlpasswd_lock' = Nobody
        /\ pc' = [pc EXCEPT ![h] = "idle"]
        /\ UNCHANGED <<accounts, file, main, lines, out, fault, given_up>>
    BY <1>4 DEF Close
  <2>2. /\ pc'[h] = "idle" /\ \A x \in Helpers : x # h => pc'[x] = pc[x]
        /\ \A x \in Helpers : pc'[x] \notin {"copy", "flush"}
    BY <1>1, <2>1 DEF TypeOK
  <2>3. file \o out[h] = file
    BY <1>2, <2>1, ConcatEmptySeq
  <2>4. Mutex'
    BY <1>1, <2>1, <2>2, AccountAssumption DEF Mutex
  <2>5. OneEach'
    BY <1>1, <2>1, <2>2, <2>3 DEF OneEach, Invs
  <2>6. ASSUME NEW n \in Names, Current(n) PROVE Current(n)'
    <3>1. CASE Pending
      BY <1>1, <2>1, <2>2, <3>1 DEF Pending, Current
    <3>2. CASE Find(file, n) = Find(accounts, n)
      BY <2>1, <2>2, <3>2 DEF Current
    <3>3. CASE main = "reset" \/ (main = "open" /\ Find(accounts, n) = {})
               \/ (main \in {"poll", "fallback"} /\ Find(accounts, n) = {Fallback})
      BY <2>1, <3>3 DEF Current
    <3>4. (\E x \in Helpers : /\ pc[x] = "flush"
                              /\ Find(file \o out[x], n) = Find(accounts, n))
          => Find(file, n) = Find(accounts, n)
      BY <1>1, <2>3
    <3>5. ~(\A x \in Helpers : pc[x] # "flush") /\ main # "load"
      BY <1>1
    <3>6. \/ Pending
          \/ main = "reset" \/ (main = "open" /\ Find(accounts, n) = {})
          \/ main \in {"poll", "fallback"} /\ Find(accounts, n) = {Fallback}
          \/ Find(file, n) = Find(accounts, n)
      BY <2>6, <3>4, <3>5 DEF Current
    <3> QED
      BY <3>1, <3>2, <3>3, <3>6
  <2>7. Saving'
    BY <2>1, <2>6 DEF Saving, Invs
  <2> QED
    BY <2>4, <2>5, <2>7 DEF Invs
<1> QED
  BY <1>3, <1>4
-----------------------------------------------------------------------------
LEMMA InitInvs == Init => Invs
<1> SUFFICES ASSUME Init PROVE Invs
  OBVIOUS
<1>1. Mutex
  BY AccountAssumption DEF Init, Mutex
<1>2. OneEach
  <2>1. Unique(<<>>) /\ Unique(<<Fallback>>)
    BY DEF Unique
  <2> QED
    BY <2>1 DEF Init, OneEach
<1>3. Saving
  BY DEF Init, Saving, Current
<1> QED
  BY <1>1, <1>2, <1>3 DEF Invs

(* The values of the variables are what the code's types allow, and a       *)
(* helper counts no more entries than its transaction has.                  *)
THEOREM TypeCorrect == Spec => []TypeOK
<1>1. TypeOK /\ UNCHANGED vars => TypeOK'
  BY DEF TypeOK, vars, table, disk, boot, locals
<1> QED
  BY <1>1, InitType, NextType, PTL DEF Spec

LEMMA Inductive == Spec => [](TypeOK /\ Invs)
<1>1. TypeOK /\ Invs /\ Next => Invs'
  BY TransactionStep, MainStep, CrashStep, CopyStep, WriteStep DEF Next, am_commit
<1>2. TypeOK /\ Invs /\ UNCHANGED vars => TypeOK' /\ Invs'
  <2> SUFFICES ASSUME TypeOK, Invs, UNCHANGED vars PROVE TypeOK' /\ Invs'
    OBVIOUS
  <2> USE DEF vars, table, disk, boot, locals
  <2>1. TypeOK'
    BY DEF TypeOK
  <2>2. Mutex' /\ OneEach'
    BY DEF Mutex, OneEach, Find, Invs
  <2>3. Saving'
    BY DEF Saving, Current, Pending, Find, Invs
  <2> QED
    BY <2>1, <2>2, <2>3 DEF Invs
<1> QED
  BY <1>1, <1>2, InitType, NextType, InitInvs, PTL DEF Spec

(* am_init never has a file in its hands that am_commit is writing          *)
(* (AccountManager.c:126-133 and 285-304).                                  *)
THEOREM WholeFileLoaded == Spec => []LoadsWholeFile
<1>1. Invs => LoadsWholeFile
  BY DEF Invs, Mutex, LoadsWholeFile
<1> QED
  BY <1>1, Inductive, PTL

(* However many am_commits overtake each other and whatever am_init reads   *)
(* in between, an account that is not in hlpasswd as it is in the list has  *)
(* a helper that is still to write it (AccountManager.c:285-304).           *)
THEOREM NothingUnsaved == Spec => []UnsavedIsPending
<1>1. Invs => UnsavedIsPending
  <2> SUFFICES ASSUME Invs, ~fault, ~given_up, main = "poll", NEW n \in Names
               PROVE  \/ Find(accounts, n) \in {Find(whole, n), {Fallback}}
                      \/ BeingWritten(n)
    BY DEF UnsavedIsPending
  <2>1. Current(n)
    BY DEF Invs, Saving
  <2> QED
    BY <2>1 DEF Current, Pending, BeingWritten
<1> QED
  BY <1>1, Inductive, PTL
=============================================================================
