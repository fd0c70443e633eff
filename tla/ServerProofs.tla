---------------------------- MODULE ServerProofs ----------------------------
(* Theorems about the parts of the server whose models are short: the          *)
(* identifiers of transfers (IDMUse), a reload of the configuration (Reload),  *)
(* uploads and listings of folders (Files), and the hash tables (Collection).  *)
(* The four share no variable.                                                 *)
EXTENDS IDMUse, IDMProofs, Reload, Files, Collection, FiniteSetTheorems

-----------------------------------------------------------------------------
(* IDMUse.  No identifier is free and taken, and the only one that idm_return  *)
(* ever loses is the one past a first interval of several, for every range.    *)

IInv == Ordered(tfm_idm) /\ out \subseteq Int /\ NeverTakenTwice

LEMMA Starts ==
    Init => IInv
<1> SUFFICES ASSUME Init PROVE IInv
  OBVIOUS
<1> DEFINE iv == Node(Base, Base + Size)
<1>1. iv \in Interval /\ iv.start <= iv.end
  BY RangeAssumption DEF Node, Interval
<1> HIDE DEF iv
<1>2. tfm_idm = <<iv>>
  BY DEF Init, idm_create, iv
<1>3. Ordered(tfm_idm)
  BY <1>1, <1>2 DEF Ordered
<1> QED
  BY <1>3 DEF Init, IInv, NeverTakenTwice

LEMMA Getting ==
    ASSUME IInv, Get
    PROVE  IInv' /\ Lost' = Lost
<1>1. /\ idm_index(tfm_idm) \in Free(tfm_idm)
      /\ Ordered(tfm_idm')
      /\ Free(tfm_idm') = Free(tfm_idm) \ {idm_index(tfm_idm)}
  BY GetList DEF IInv, Get
<1>2. out' = out \union {idm_index(tfm_idm)}
  BY DEF Get
<1>3. idm_index(tfm_idm) \in Int
  BY <1>1, FreeIs DEF IInv
<1>4. /\ out' \subseteq Int
      /\ Free(tfm_idm') \intersect out' = {}
  BY <1>1, <1>2, <1>3 DEF IInv, NeverTakenTwice
<1>5. Free(tfm_idm') \union out' = Free(tfm_idm) \union out
  BY <1>1, <1>2
<1>6. IInv'
  BY <1>1, <1>4 DEF IInv, NeverTakenTwice, Ordered, Free
<1>7. Lost' = Lost
  BY <1>5 DEF Lost, Free, All
<1> QED
  BY <1>6, <1>7

LEMMA Returning ==
    ASSUME IInv, NEW index \in out, tfm_idm' = idm_return(tfm_idm, index),
           out' = out \ {index}
    PROVE  IInv' /\ LosesPastTheHead
<1>1. index \in Int /\ index \notin Free(tfm_idm)
  BY DEF IInv, NeverTakenTwice
<1>2. Back(tfm_idm, index, tfm_idm')
  BY <1>1, ReturnList DEF IInv
<1>3. Ordered(tfm_idm')
  BY <1>2 DEF Back, IInv
<1>4. Free(tfm_idm') \subseteq Free(tfm_idm) \union {index}
  BY <1>2 DEF Back
<1>5. Free(tfm_idm') \intersect out' = {} /\ out' \subseteq Int
  BY <1>4 DEF IInv, NeverTakenTwice
<1>6. IInv'
  BY <1>3, <1>5 DEF IInv, NeverTakenTwice, Ordered, Free
<1>7. CASE Free(tfm_idm') = Free(tfm_idm) \union {index}
  <2>1. Free(tfm_idm') \union out' = Free(tfm_idm) \union out
    BY <1>7
  <2>2. Lost' = Lost
    BY <2>1 DEF Lost, Free, All
  <2> QED
    BY <1>6, <2>2 DEF LosesPastTheHead
<1>8. CASE /\ Free(tfm_idm') = Free(tfm_idm)
           /\ Len(tfm_idm) > 1 /\ index = tfm_idm[1].end + 1
  <2>1. Lost' = All \ (Free(tfm_idm) \union (out \ {index}))
    BY <1>8 DEF Lost, Free, All
  <2>2. \A x \in Lost' \ Lost : x = index
    BY <2>1 DEF Lost
  <2> QED
    BY <1>6, <1>8, <2>2 DEF LosesPastTheHead
<1> QED
  BY <1>2, <1>7, <1>8 DEF Back

LEMMA Inductive ==
    ASSUME IInv, [Next]_vars
    PROVE  IInv' /\ [LosesPastTheHead]_vars
<1>1. CASE Get
  BY <1>1, Getting DEF LosesPastTheHead
<1>2. CASE Return
  <2>1. PICK index \in out : /\ tfm_idm' = idm_return(tfm_idm, index)
                             /\ out' = out \ {index}
    BY <1>2 DEF Return
  <2> QED
    BY <2>1, Returning
<1>3. CASE UNCHANGED vars
  BY <1>3 DEF vars, IInv, NeverTakenTwice, Ordered, Free, Lost, All
<1> QED
  BY <1>1, <1>2, <1>3 DEF Next

(* No identifier is ever free and taken at once, so that idm_get (which     *)
(* takes the first of the list) never gives a transfer the identifier       *)
(* another one lives under in ttbl, whatever the order of the returns.      *)
THEOREM NotTakenTwice == Spec => []NeverTakenTwice
<1>1. IInv => NeverTakenTwice
  BY DEF IInv
<1>2. IInv /\ [Next]_vars => IInv'
  BY Inductive
<1> QED
  BY <1>1, <1>2, Starts, PTL DEF Spec

(* Every identifier that idm_return takes goes back on the list, but one    *)
(* just past the first interval of several (src/IDM.c:91-116).              *)
THEOREM OnlyOneLost == Spec => OnlyLostPastTheHead
<1>1. IInv /\ [Next]_vars => IInv'
  BY Inductive
<1>2. IInv /\ [Next]_vars => [LosesPastTheHead]_vars
  BY Inductive
<1> QED
  BY <1>1, <1>2, Starts, PTL DEF Spec, OnlyLostPastTheHead

-----------------------------------------------------------------------------
(* Reload.  A manager follows the last file, or some reload is still to come   *)
(* to it and will read both of its values from that file.                      *)

(* The functions that server_init calls before m. *)
Before(m) == CASE m = "tm" -> {"config"}
               [] m = "f" -> {"config", "tm", "ch"}
               [] m = "tfm" -> {"config", "tm", "ch", "f"}
               [] m = "tracker" -> {"config", "tm", "ch", "f", "tfm"}

(* A thread has the lock of a manager only in its function, and has it when    *)
(* it has read something there.                                                *)
HandInv == \A t \in Threads :
    /\ stage[t] \in {"idle", "config"} => hand[t] = None
    /\ stage[t] \in Locked /\ hand[t] # None => owner[stage[t]] = t
    /\ \A m \in Locked : owner[m] = t => stage[t] = m

Refreshes(t, m) == \/ stage[t] \in Before(m)
                   \/ stage[t] = m /\ hand[t] \in {None, conf_table}

(* What the tracker's list has so far is the beginning of what it will be. *)
ListBegun == /\ Len(tlist) <= Len(conf_table.trackers)
             /\ \A i \in 1 .. Len(tlist) : tlist[i] = conf_table.trackers[i]

TrackerRefreshes(t) ==
    \/ stage[t] \in Before("tracker")
    \/ /\ stage[t] = "tracker"
       /\ owner["tracker"] = t => hand[t] = None /\ ListBegun

TrackerFollows ==
    /\ tlist = conf_table.trackers
    /\ tlist # <<>> /\ conf_table.name # None => server_name = conf_table.name

ManagerInv(m) == \/ Follows(m) /\ \A t \in Threads : stage[t] # m
                 \/ \E t \in Threads : Refreshes(t, m)
ManagersInv == \A m \in {"tm", "f", "tfm"} : ManagerInv(m)
TrackerInv == TrackerFollows \/ \E t \in Threads : TrackerRefreshes(t)

ReloadInv == ReloadTypeOK /\ HandInv /\ ManagersInv /\ TrackerInv

LEMMA AfterIs ==
    /\ After("config") = "tm" /\ After("tm") = "ch" /\ After("ch") = "f"
    /\ After("f") = "tfm" /\ After("tfm") = "tracker" /\ After("tracker") = "idle"
<1> DEFINE Place(m) == CHOOSE k \in DOMAIN Inits : Inits[k] = m
<1>1. /\ Place("config") = 1 /\ Place("tm") = 2 /\ Place("ch") = 3
      /\ Place("f") = 4 /\ Place("tfm") = 5
  BY DEF Inits
<1> QED
  BY <1>1 DEF After, Inits

LEMMA ReloadStages ==
    /\ Range(Inits) = {"config", "tm", "ch", "f", "tfm", "tracker"}
    /\ Managers = {"tm", "ch", "f", "tfm"}
    /\ Locked = {"tm", "f", "tfm", "tracker"}
<1>1. DOMAIN Inits = {1, 2, 3, 4, 5, 6}
  BY DEF Inits
<1> QED
  BY <1>1 DEF Inits, Range, Managers, Locked

LEMMA ConfigsAre ==
    \A c \in Configs \cup {Defaults} :
        c.trackers \in Seq(UNION {Range(d.trackers) : d \in Configs \cup {Defaults}})
<1> SUFFICES ASSUME NEW c \in Configs \cup {Defaults}
             PROVE  c.trackers \in Seq(UNION {Range(d.trackers) : d \in Configs \cup {Defaults}})
  OBVIOUS
<1>1. c.trackers \in Seq(Range(c.trackers))
  BY ConfigsAssumption
<1>2. Range(c.trackers) \subseteq UNION {Range(d.trackers) : d \in Configs \cup {Defaults}}
  OBVIOUS
<1> QED
  BY <1>1, <1>2, SeqDef

LEMMA ReloadStarts ==
    ASSUME ReloadInit
    PROVE  ReloadInv
<1>1. ReloadTypeOK
  <2>1. stage \in [Threads -> Range(Inits) \cup {"idle"}]
    BY DEF ReloadInit
  <2>2. hups \in 0 .. MaxHups
    BY BoundAssumption DEF ReloadInit
  <2>3. setting \in [Managers -> (Configs \cup {Defaults}) \X (Configs \cup {Defaults})]
    BY DEF ReloadInit
  <2>4. tlist \in Seq(UNION {Range(c.trackers) : c \in Configs \cup {Defaults}})
    BY EmptySeq DEF ReloadInit
  <2> QED
    BY <2>1, <2>2, <2>3, <2>4 DEF ReloadInit, ReloadTypeOK
<1>2. HandInv
  BY ReloadStages, NoneAssumption DEF ReloadInit, HandInv
<1>3. ManagersInv
  BY ReloadStages DEF ReloadInit, ManagersInv, ManagerInv, Follows
<1>4. TrackerInv
  BY ConfigsAssumption DEF ReloadInit, TrackerInv, TrackerFollows
<1> QED
  BY <1>1, <1>2, <1>3, <1>4 DEF ReloadInv

LEMMA ReloadBegins ==
    ASSUME ReloadInv, NEW t \in Threads, Sighup(t)
    PROVE  ReloadInv'
<1> USE ReloadStages DEF ReloadInv, Sighup, Goes, Idle, tracker, addpath
<1>1. ReloadTypeOK'
  BY BoundAssumption DEF ReloadTypeOK
<1>2. HandInv'
  BY NoneAssumption DEF ReloadTypeOK, HandInv
<1>3. ManagersInv'
  <2> SUFFICES ASSUME NEW m \in {"tm", "f", "tfm"}
               PROVE  ManagerInv(m)'
    BY DEF ManagersInv
  <2>1. Refreshes(t, m)'
    BY DEF ReloadTypeOK, Refreshes, Before
  <2> QED
    BY <2>1 DEF ManagerInv
<1>4. TrackerInv'
  <2>1. TrackerRefreshes(t)'
    BY DEF ReloadTypeOK, TrackerRefreshes, Before
  <2> QED
    BY <2>1 DEF TrackerInv
<1> QED
  BY <1>1, <1>2, <1>3, <1>4

LEMMA config_initStep ==
    ASSUME ReloadInv, NEW t \in Threads, config_init(t)
    PROVE  ReloadInv'
<1> USE ReloadStages, AfterIs DEF ReloadInv, config_init, Goes, tracker, addpath
<1>1. ReloadTypeOK'
  BY DEF ReloadTypeOK
<1>2. HandInv'
  BY NoneAssumption DEF ReloadTypeOK, HandInv
<1>3. ManagersInv'
  <2> SUFFICES ASSUME NEW m \in {"tm", "f", "tfm"}
               PROVE  ManagerInv(m)'
    BY DEF ManagersInv
  <2>1. Refreshes(t, m)'
    BY DEF ReloadTypeOK, Refreshes, Before, HandInv
  <2> QED
    BY <2>1 DEF ManagerInv
<1>4. TrackerInv'
  <2>1. TrackerRefreshes(t)'
    BY DEF ReloadTypeOK, TrackerRefreshes, Before
  <2> QED
    BY <2>1 DEF TrackerInv
<1> QED
  BY <1>1, <1>2, <1>3, <1>4

LEMMA LockStep ==
    ASSUME ReloadInv, NEW t \in Threads, Lock(t)
    PROVE  ReloadInv'
<1> USE ReloadStages DEF ReloadInv, Lock, tracker, addpath
<1>1. ReloadTypeOK'
  BY DEF ReloadTypeOK
<1>2. HandInv'
  BY NoneAssumption DEF ReloadTypeOK, HandInv
<1>3. ManagersInv'
  BY DEF ManagersInv, ManagerInv, Follows, Refreshes
<1>4. TrackerInv'
  <2>1. \A u \in Threads : TrackerRefreshes(u) => TrackerRefreshes(u)'
    BY DEF ReloadTypeOK, TrackerRefreshes, ListBegun
  <2> QED
    BY <2>1 DEF TrackerInv, TrackerFollows
<1> QED
  BY <1>1, <1>2, <1>3, <1>4

(* At its first value a thread that has the lock of its manager begins to      *)
(* follow the file that is there.                                              *)
LEMMA ReadFirstStep ==
    ASSUME ReloadInv, NEW t \in Threads, ReadFirst(t)
    PROVE  ReloadInv'
<1> USE ReloadStages DEF ReloadInv, ReadFirst, tracker, addpath
<1>1. ReloadTypeOK'
  BY DEF ReloadTypeOK
<1>2. HandInv'
  BY DEF ReloadTypeOK, HandInv
<1>3. ManagersInv'
  <2> SUFFICES ASSUME NEW m \in {"tm", "f", "tfm"}
               PROVE  ManagerInv(m)'
    BY DEF ManagersInv
  <2>1. Follows(m) => Follows(m)'
    BY DEF Follows
  <2>2. \A u \in Threads : Refreshes(u, m) => Refreshes(u, m)'
    BY DEF ReloadTypeOK, Refreshes
  <2> QED
    BY <2>1, <2>2 DEF ManagersInv, ManagerInv
<1>4. TrackerInv'
  <2>1. \A u \in Threads : TrackerRefreshes(u) => TrackerRefreshes(u)'
    BY DEF ReloadTypeOK, TrackerRefreshes, ListBegun
  <2> QED
    BY <2>1 DEF TrackerInv, TrackerFollows
<1> QED
  BY <1>1, <1>2, <1>3, <1>4

(* A thread that stores an old first value is not the one that refreshes the   *)
(* manager, and the one that does has not got the lock yet.                    *)
LEMMA ReadSecondStep ==
    ASSUME ReloadInv, NEW t \in Threads, ReadSecond(t)
    PROVE  ReloadInv'
<1> USE ReloadStages, AfterIs DEF ReloadInv, ReadSecond, Goes, tracker, addpath
<1>1. /\ stage[t] \in Managers
      /\ stage' = [stage EXCEPT ![t] = After(stage[t])]
      /\ After(stage[t]) \in {"ch", "f", "tfm", "tracker"}
  BY DEF ReloadTypeOK
<1>2. ReloadTypeOK'
  <2>1. hand[t] \in Configs \cup {Defaults}
    BY DEF ReloadTypeOK
  <2>2. setting' \in [Managers -> (Configs \cup {Defaults}) \X (Configs \cup {Defaults})]
    BY <1>1, <2>1 DEF ReloadTypeOK
  <2>3. /\ stage' \in [Threads -> Range(Inits) \cup {"idle"}]
        /\ hand' \in [Threads -> Configs \cup {Defaults, None}]
        /\ owner' \in [Locked -> Threads \cup {None}]
    BY <1>1 DEF ReloadTypeOK
  <2> QED
    BY <2>2, <2>3 DEF ReloadTypeOK
<1>3. HandInv'
  BY <1>1, NoneAssumption DEF ReloadTypeOK, HandInv
<1>4. ManagersInv'
  <2> SUFFICES ASSUME NEW m \in {"tm", "f", "tfm"}
               PROVE  ManagerInv(m)'
    BY DEF ManagersInv
  <2>1. CASE stage[t] # m
    <3>1. Follows(m) => Follows(m)'
      BY <2>1 DEF ReloadTypeOK, Follows
    <3>2. \A u \in Threads : Refreshes(u, m) => Refreshes(u, m)'
      BY <1>1, <2>1 DEF ReloadTypeOK, Refreshes, Before
    <3>3. stage'[t] = m => Refreshes(t, m)'
      BY <2>1 DEF ReloadTypeOK, Refreshes
    <3> QED
      BY <1>1, <3>1, <3>2, <3>3 DEF ManagersInv, ManagerInv, ReloadTypeOK
  <2>2. CASE stage[t] = m /\ hand[t] = conf_table
    <3>1. Follows(m)'
      BY <2>2 DEF ReloadTypeOK, Follows
    <3>2. \A u \in Threads : stage'[u] = m => Refreshes(u, m)'
      BY <1>1, <2>2 DEF ReloadTypeOK, HandInv, Refreshes
    <3> QED
      BY <3>1, <3>2 DEF ManagerInv
  <2>3. CASE stage[t] = m /\ hand[t] # conf_table
    <3>1. PICK u \in Threads : Refreshes(u, m)
      BY <2>3 DEF ManagersInv, ManagerInv
    <3>2. u # t
      BY <2>3, <3>1 DEF Refreshes, Before
    <3>3. Refreshes(u, m)'
      BY <3>1, <3>2 DEF ReloadTypeOK, Refreshes
    <3> QED
      BY <3>3 DEF ManagerInv
  <2> QED
    BY <2>1, <2>2, <2>3
<1>5. TrackerInv'
  <2>1. TrackerFollows => TrackerFollows'
    BY DEF TrackerFollows
  <2>2. \A u \in Threads : TrackerRefreshes(u) => TrackerRefreshes(u)'
    <3>1. /\ owner'["tracker"] = owner["tracker"] /\ owner["tracker"] # t
          /\ stage'[t] \in Before("tracker") \cup {"tracker"}
      BY <1>1 DEF ReloadTypeOK, HandInv, Before
    <3>2. \A u \in Threads \ {t} : stage'[u] = stage[u] /\ hand'[u] = hand[u]
      BY <1>1 DEF ReloadTypeOK
    <3> QED
      BY <3>1, <3>2 DEF TrackerRefreshes, ListBegun
  <2> QED
    BY <2>1, <2>2 DEF TrackerInv
<1> HIDE DEF ReadSecond
<1> QED
  BY <1>2, <1>3, <1>4, <1>5

LEMMA AddpathStep ==
    ASSUME ReloadInv, f_addpath
    PROVE  ReloadInv'
<1>1. /\ UNCHANGED <<conf_table, stage, hand, owner, setting, tlist, server_name, server_desc>>
      /\ UNCHANGED <<tthread_active, tthread, hups>>
      /\ path' \in {path, "whole", "broken"}
  BY DEF f_addpath, ReadLength, CopyPath, AppendName, tracker
<1> QED
  BY <1>1 DEF ReloadInv, ReloadTypeOK, HandInv, ManagersInv, ManagerInv, Follows, Refreshes,
              TrackerInv, TrackerFollows, TrackerRefreshes, ListBegun

LEMMA trackerSettings ==
    ASSUME ReloadInv, NEW t \in Threads,
           stage[t] = "tracker", UNCHANGED <<conf_table, setting>>,
           \A u \in Threads \ {t} : stage'[u] = stage[u] /\ hand'[u] = hand[u],
           stage'[t] \in {"tracker", "idle"}
    PROVE  ManagersInv'
<1> SUFFICES ASSUME NEW m \in {"tm", "f", "tfm"}
             PROVE  ManagerInv(m)'
  BY DEF ManagersInv
<1>1. Follows(m) => Follows(m)'
  BY DEF Follows
<1>2. \A u \in Threads : Refreshes(u, m) => u # t /\ Refreshes(u, m)'
  BY DEF Refreshes, Before
<1>3. \A u \in Threads : stage'[u] = m => stage[u] = m
  OBVIOUS
<1> QED
  BY <1>1, <1>2, <1>3 DEF ReloadInv, ManagersInv, ManagerInv

LEMMA tlist_clearStep ==
    ASSUME ReloadInv, NEW t \in Threads, tlist_clear(t)
    PROVE  ReloadInv'
<1> USE ReloadStages DEF tlist_clear, addpath
<1>1. ReloadTypeOK'
  BY EmptySeq DEF ReloadInv, ReloadTypeOK
<1>2. HandInv'
  BY NoneAssumption DEF ReloadInv, ReloadTypeOK, HandInv
<1>3. ManagersInv'
  BY trackerSettings
<1>4. TrackerInv'
  <2>1. conf_table.trackers \in Seq(Range(conf_table.trackers))
    BY ConfigsAssumption DEF ReloadInv, ReloadTypeOK
  <2>2. Len(conf_table.trackers) \in Nat
    BY <2>1, LenProperties
  <2>3. ListBegun'
    BY <2>2 DEF ListBegun
  <2>4. hand[t] = None
    BY NoneAssumption DEF ReloadInv, ReloadTypeOK, HandInv
  <2>5. TrackerRefreshes(t)'
    BY <2>3, <2>4 DEF TrackerRefreshes
  <2> QED
    BY <2>5 DEF TrackerInv
<1> HIDE DEF tlist_clear
<1> QED
  BY <1>1, <1>2, <1>3, <1>4 DEF ReloadInv

(* A file that was read while the list was being made leaves it a mixture of   *)
(* two, but then the thread that read the file is still to come.               *)
LEMMA tlist_addStep ==
    ASSUME ReloadInv, NEW t \in Threads, tlist_add(t)
    PROVE  ReloadInv'
<1> USE ReloadStages DEF tlist_add, HasTlock, addpath
<1> DEFINE Hosts == UNION {Range(c.trackers) : c \in Configs \cup {Defaults}}
<1> HIDE DEF Hosts
<1>1. /\ tlist \in Seq(Hosts) /\ conf_table.trackers \in Seq(Hosts)
      /\ Len(tlist) \in Nat /\ Len(conf_table.trackers) \in Nat
  BY ConfigsAre, LenProperties DEF Hosts, ReloadInv, ReloadTypeOK
<1>2. /\ Len(tlist) + 1 \in 1 .. Len(conf_table.trackers)
      /\ conf_table.trackers[Len(tlist) + 1] \in Hosts
  BY <1>1, ElementOfSeq
<1>3. /\ tlist' \in Seq(Hosts)
      /\ Len(tlist') = Len(tlist) + 1
      /\ \A i \in 1 .. Len(tlist) : tlist'[i] = tlist[i]
      /\ tlist'[Len(tlist) + 1] = conf_table.trackers[Len(tlist) + 1]
  BY <1>1, <1>2
<1>4. ReloadTypeOK'
  BY <1>3 DEF Hosts, ReloadInv, ReloadTypeOK
<1>5. HandInv'
  BY DEF ReloadInv, HandInv
<1>6. ManagersInv'
  BY trackerSettings
<1>7. TrackerInv'
  <2>1. ~TrackerFollows
    BY <1>1 DEF TrackerFollows
  <2>2. PICK u \in Threads : TrackerRefreshes(u)
    BY <2>1 DEF ReloadInv, TrackerInv
  <2>3. ListBegun => ListBegun'
    <3> SUFFICES ASSUME ListBegun
                 PROVE  ListBegun'
      OBVIOUS
    <3>1. \A i \in 1 .. Len(tlist') : i \in 1 .. Len(tlist) \/ i = Len(tlist) + 1
      BY <1>1, <1>3
    <3> QED
      BY <1>1, <1>2, <1>3, <3>1 DEF ListBegun
  <2>4. TrackerRefreshes(u)'
    BY <2>2, <2>3 DEF TrackerRefreshes
  <2> QED
    BY <2>4 DEF TrackerInv
<1> HIDE DEF tlist_add
<1> QED
  BY <1>4, <1>5, <1>6, <1>7 DEF ReloadInv

LEMMA ReadNameStep ==
    ASSUME ReloadInv, NEW t \in Threads, ReadName(t)
    PROVE  ReloadInv'
<1> USE ReloadStages, AfterIs DEF ReadName, HasTlock, Unlock, Goes, addpath
<1>1. ReloadTypeOK'
  <2>1. conf_table.name # None => conf_table.name \in {c.name : c \in Configs \cup {Defaults}}
    BY DEF ReloadInv, ReloadTypeOK
  <2>2. server_name' \in {c.name : c \in Configs \cup {Defaults}} \cup {None}
    <3>1. server_name' = server_name \/ (conf_table.name # None /\ server_name' = conf_table.name)
      OBVIOUS
    <3> QED
      BY <2>1, <3>1 DEF ReloadInv, ReloadTypeOK
  <2>3. /\ stage' \in [Threads -> Range(Inits) \cup {"idle"}]
        /\ hand' \in [Threads -> Configs \cup {Defaults, None}]
        /\ owner' \in [Locked -> Threads \cup {None}]
    <3>1. CASE /\ stage' = [stage EXCEPT ![t] = "idle"]
               /\ hand' = [hand EXCEPT ![t] = None]
               /\ owner' = [owner EXCEPT !["tracker"] = None]
      BY <3>1 DEF ReloadInv, ReloadTypeOK
    <3>2. CASE stage' = stage /\ owner' = owner /\ hand' = [hand EXCEPT ![t] = conf_table]
      BY <3>2 DEF ReloadInv, ReloadTypeOK
    <3> QED
      BY <3>1, <3>2
  <2> QED
    BY <2>2, <2>3 DEF ReloadInv, ReloadTypeOK
<1>2. HandInv'
  <2>1. CASE /\ stage' = [stage EXCEPT ![t] = "idle"]
             /\ hand' = [hand EXCEPT ![t] = None]
             /\ owner' = [owner EXCEPT !["tracker"] = None]
    BY <2>1, NoneAssumption DEF ReloadInv, ReloadTypeOK, HandInv
  <2>2. CASE /\ stage' = stage /\ owner' = owner
             /\ hand' = [hand EXCEPT ![t] = conf_table]
    <3>1. \A u \in Threads \ {t} : hand'[u] = hand[u]
      BY <2>2 DEF ReloadInv, ReloadTypeOK
    <3>2. stage'[t] = "tracker" /\ owner'["tracker"] = t
      BY <2>2
    <3> HIDE DEF ReadName
    <3> QED
      BY <2>2, <3>1, <3>2 DEF ReloadInv, HandInv
  <2> QED
    BY <2>1, <2>2
<1>3. /\ \A u \in Threads \ {t} : stage'[u] = stage[u] /\ hand'[u] = hand[u]
      /\ stage'[t] \in {"tracker", "idle"}
  BY DEF ReloadInv, ReloadTypeOK
<1>4. ManagersInv'
  BY <1>3, trackerSettings
<1>5. TrackerFollows => TrackerFollows'
  BY DEF TrackerFollows
<1>6. TrackerRefreshes(t) => TrackerFollows'
  <2> SUFFICES ASSUME ListBegun
               PROVE  TrackerFollows'
    BY DEF TrackerRefreshes, Before
  <2> DEFINE Hosts == UNION {Range(c.trackers) : c \in Configs \cup {Defaults}}
  <2> HIDE DEF Hosts
  <2>1. tlist \in Seq(Hosts) /\ conf_table.trackers \in Seq(Hosts)
    BY ConfigsAre DEF Hosts, ReloadInv, ReloadTypeOK
  <2>2. Len(tlist) \in Nat /\ Len(conf_table.trackers) \in Nat
    BY <2>1, LenProperties
  <2>3. Len(tlist) = Len(conf_table.trackers)
    BY <2>2 DEF ListBegun
  <2>4. \A i \in 1 .. Len(tlist) : tlist[i] = conf_table.trackers[i]
    BY DEF ListBegun
  <2>5. tlist = conf_table.trackers
    BY <2>1, <2>3, <2>4, SeqEqual
  <2> QED
    BY <2>5 DEF TrackerFollows
<1>7. \A u \in Threads \ {t} : TrackerRefreshes(u) => TrackerRefreshes(u)'
  <2>1. owner'["tracker"] \in {t, None}
    BY DEF ReloadInv, ReloadTypeOK
  <2> QED
    BY <1>3, <2>1, NoneAssumption DEF TrackerRefreshes
<1>8. TrackerInv'
  BY <1>5, <1>6, <1>7 DEF ReloadInv, TrackerInv
<1> HIDE DEF ReadName
<1> QED
  BY <1>1, <1>2, <1>4, <1>8 DEF ReloadInv

LEMMA SpawnStep ==
    ASSUME ReloadInv, NEW t \in Threads, Spawn(t)
    PROVE  ReloadInv'
<1> USE ReloadStages, AfterIs DEF Spawn, HasTlock, Unlock, Goes, addpath
<1>1. ReloadTypeOK'
  <2>1. conf_table.description \in {c.description : c \in Configs \cup {Defaults}}
    BY DEF ReloadInv, ReloadTypeOK
  <2> QED
    BY <2>1 DEF ReloadInv, ReloadTypeOK
<1>2. HandInv'
  BY NoneAssumption DEF ReloadInv, ReloadTypeOK, HandInv
<1>3. /\ \A u \in Threads \ {t} : stage'[u] = stage[u] /\ hand'[u] = hand[u]
      /\ stage'[t] = "idle"
      /\ owner'["tracker"] = None
  BY DEF ReloadInv, ReloadTypeOK
<1>4. ManagersInv'
  BY <1>3, trackerSettings
<1>5. TrackerInv'
  <2>1. TrackerFollows => TrackerFollows'
    BY DEF TrackerFollows
  <2>2. ~TrackerRefreshes(t)
    BY DEF TrackerRefreshes, Before
  <2>3. \A u \in Threads \ {t} : TrackerRefreshes(u) => TrackerRefreshes(u)'
    BY <1>3, NoneAssumption DEF TrackerRefreshes
  <2> QED
    BY <2>1, <2>2, <2>3 DEF ReloadInv, TrackerInv
<1> HIDE DEF Spawn
<1> QED
  BY <1>1, <1>2, <1>4, <1>5 DEF ReloadInv

LEMMA tracker_mainStep ==
    ASSUME ReloadInv, tracker_main
    PROVE  ReloadInv'
<1>1. /\ UNCHANGED <<conf_table, stage, hand, owner, setting, tlist, server_name, server_desc>>
      /\ UNCHANGED <<tthread_active, path, hups>>
      /\ tthread' \in {tthread, "ended"}
  BY DEF tracker_main, addpath
<1> QED
  BY <1>1 DEF ReloadInv, ReloadTypeOK, HandInv, ManagersInv, ManagerInv, Follows, Refreshes,
              TrackerInv, TrackerFollows, TrackerRefreshes, ListBegun

LEMMA ReloadInductive ==
    ASSUME ReloadInv, [ReloadNext]_reloadVars
    PROVE  ReloadInv'
<1>1. ASSUME NEW t \in Threads, Sighup(t) \/ Step(t)
      PROVE  ReloadInv'
  BY <1>1, ReloadBegins, config_initStep, LockStep, ReadFirstStep, ReadSecondStep, tlist_clearStep,
     tlist_addStep, ReadNameStep, SpawnStep DEF Step
<1>2. CASE UNCHANGED reloadVars
  BY <1>2 DEF reloadVars, addpath, tracker, ReloadInv, ReloadTypeOK, HandInv, ManagersInv, ManagerInv,
              Follows, Refreshes, TrackerInv, TrackerFollows, TrackerRefreshes, ListBegun
<1> QED
  BY <1>1, <1>2, AddpathStep, tracker_mainStep DEF ReloadNext

(* When no reload is going on, each manager that reads under its lock has the  *)
(* values of the last file, and the tracker its list and its name, however     *)
(* many reloads have overlapped, in any threads and over any files.            *)
THEOREM LastFileIsFollowed ==
    ReloadSpec => []SettingsFollow
<1>1. ReloadInv => SettingsFollow
  <2> SUFFICES ASSUME ReloadInv, Quiet
               PROVE  /\ \A m \in {"tm", "f", "tfm"} : Follows(m)
                      /\ TrackerFollows
    BY DEF SettingsFollow, TrackerFollows
  <2>1. \A t \in Threads : stage[t] = "idle"
    BY DEF Quiet, Idle
  <2> QED
    BY <2>1 DEF ReloadInv, ManagersInv, ManagerInv, Refreshes, Before, TrackerInv, TrackerRefreshes
<1>2. ReloadInit => ReloadInv
  BY ReloadStarts
<1>3. ReloadInv /\ [ReloadNext]_reloadVars => ReloadInv'
  BY ReloadInductive
<1> QED
  BY <1>1, <1>2, <1>3, PTL DEF ReloadSpec

-----------------------------------------------------------------------------
(* Files.  What an upload that is in the table writes nobody else in the table *)
(* writes, and it writes it from the beginning.                                *)

(* As in the runs: users name files by their names, not by those of uploads.   *)
NamedAreFinal == \A p \in Named : ~p.partial

Points == {"idle", "resume", "add", "open", "write", "unlink", "remove", "clear", "list", "read"}

FilesShape ==
    /\ folder \in BOOLEAN
    /\ files \subseteq File
    /\ pc \in [Helpers -> Points]
    /\ upload \in [Helpers -> [name : Names \cup {NoName}, mode : BOOLEAN,
                               offset : 0 .. FileSize, pos : 0 .. FileSize]]
    /\ ttbl \subseteq Helpers
    /\ listing \in [Helpers -> [unread : SUBSET Paths, entries : SUBSET Paths, room : Nat]]
    /\ seen \in [Helpers -> [stays : SUBSET Paths, grown : BOOLEAN]]
    /\ IsFiniteSet(Present(files))

UploadInv ==
    /\ \A h \in ttbl : pc[h] \in {"open", "write", "unlink", "remove"}
    /\ \A g, h \in ttbl : upload[g].name = upload[h].name => g = h
    /\ \A h \in Helpers : pc[h] \in {"resume", "add", "open"} => upload[h].pos = 0
    /\ \A h \in Helpers : pc[h] \notin {"idle", "clear", "list", "read"} => upload[h].name \in Names

Published(f) == \E n \in Names : Final(n) \in f.paths
Finishing(n) == \E g \in ttbl : pc[g] = "unlink" /\ upload[g].name = n

(* A file that is not spoiled has no holes, all that its writer has written,   *)
(* and both names only between link and unlink.                                *)
Sound(f) ==
    /\ \A h \in f.writers : h \in ttbl /\ 0 .. upload[h].pos - 1 \subseteq f.pieces
    /\ \A k \in f.pieces : 0 .. k \subseteq f.pieces
    /\ \A n \in Names : Partial(n) \in f.paths =>
           /\ Published(f) => Finishing(n)
           /\ \A h \in ttbl : pc[h] = "write" /\ upload[h].name = n => h \in f.writers
    /\ Published(f) => f.pieces = Pieces

FileOK(f) ==
    /\ \A x, y \in Names : Partial(x) \in f.paths /\ Partial(y) \in f.paths => x = y
    /\ \A h \in f.writers : /\ pc[h] = "write"
                            /\ \A x \in Names : Partial(x) \in f.paths => x = upload[h].name
    /\ ~f.spoiled => Sound(f)

(* A path leads to one file. *)
Apart(fs) == \A f, g \in fs : \A p : p \in f.paths /\ p \in g.paths => f = g

WholeInv == Apart(files) /\ \A f \in files : FileOK(f)

(* What the count had room for. *)
Counted(h, C) ==
    /\ IsFiniteSet(C) /\ Cardinality(C) = listing[h].room
    /\ Present(files) \cup listing[h].entries \cup listing[h].unread \subseteq C

ListerOK(h) ==
    /\ seen[h].stays \subseteq Present(files)
    /\ pc[h] = "list" => listing[h].entries = {}
    /\ ~seen[h].grown =>
           /\ \E C \in SUBSET Paths : Counted(h, C)
           /\ pc[h] = "read" => seen[h].stays \subseteq listing[h].unread \cup listing[h].entries

ListInv == \A h \in Helpers :
    /\ pc[h] \notin {"clear", "list", "read"} => listing[h] = NoListing
    /\ pc[h] \in {"list", "read"} => ListerOK(h)

FolderInv == FilesShape /\ UploadInv /\ WholeInv /\ ListInv
-----------------------------------------------------------------------------
LEMMA PathKinds ==
    /\ \A x, y \in Names : /\ Partial(x) = Partial(y) => x = y
                           /\ Final(x) # Partial(y)
                           /\ Partial(x) \in Paths /\ Final(x) \in Paths
    /\ \A p \in Paths : ~p.partial => \A x \in Names : p # Partial(x)
BY DEF Partial, Final, Paths

LEMMA AtIs ==
    ASSUME NEW p, Exists(p)
    PROVE  At(p) \in files /\ p \in At(p).paths
<1>1. \E f \in files : p \in f.paths
  BY DEF Exists, Present
<1> QED
  BY <1>1 DEF At

(* The length of a file without holes is the number of its pieces. *)
LEMMA LengthIs ==
    ASSUME NEW f \in File
    PROVE  /\ Length(f) \in 0 .. FileSize
           /\ (\A k \in f.pieces : 0 .. k \subseteq f.pieces) => 0 .. Length(f) - 1 \subseteq f.pieces
<1>1. f.pieces \subseteq 0 .. FileSize - 1 /\ FileSize \in Nat
  BY SizeAssumption DEF File, Pieces
<1>2. CASE f.pieces = {}
  BY <1>1, <1>2 DEF Length
<1>3. CASE f.pieces # {}
  <2> DEFINE Above == {n \in Nat : \A k \in f.pieces : k < n}
  <2>1. FileSize \in Above
    BY <1>1
  <2>2. PICK n \in Above : \A m \in Above : n <= m
    BY <2>1, Least
  <2>3. n # 0
    BY <1>1, <1>3
  <2>4. n - 1 \notin Above
    BY <2>2, <2>3
  <2>5. PICK k \in f.pieces : ~(k < n - 1)
    BY <2>3, <2>4
  <2>6. k = n - 1 /\ \A j \in f.pieces : j <= k
    BY <1>1, <2>2, <2>5
  <2> DEFINE Top(m) == \A j \in f.pieces : j <= m
  <2>7. \A m \in f.pieces : Top(m) => m = k
    BY <1>1, <2>6
  <2>8. (CHOOSE m \in f.pieces : Top(m)) = k
    BY <2>5, <2>6, <2>7
  <2>9. Length(f) = 1 + k
    BY <1>3, <2>8 DEF Length
  <2> HIDE DEF Above, Top
  <2> QED
    BY <1>1, <2>5, <2>9
<1> QED
  BY <1>2, <1>3

LEMMA PresentIs ==
    ASSUME NEW fs
    PROVE  \A p : p \in Present(fs) <=> \E f \in fs : p \in f.paths
BY DEF Present

(* The system's calls, for what is in the folder afterwards. *)
LEMMA UnlinkedIs ==
    ASSUME NEW fs, fs \subseteq File, NEW p
    PROVE  /\ Unlinked(p, fs) \subseteq File
           /\ Present(Unlinked(p, fs)) = Present(fs) \ {p}
           /\ Apart(fs) => Apart(Unlinked(p, fs))
<1> DEFINE U(f) == [f EXCEPT !.paths = @ \ {p}]
<1>1. \A f \in fs : U(f).paths = f.paths \ {p} /\ U(f) \in File
  BY DEF File
<1>2. Unlinked(p, fs) = {U(f) : f \in fs}
  BY DEF Unlinked
<1> HIDE DEF U
<1>3. \A r : r \in Present(Unlinked(p, fs)) <=> r \in Present(fs) \ {p}
  BY <1>1, <1>2, PresentIs
<1>4. Apart(fs) => Apart(Unlinked(p, fs))
  BY <1>1, <1>2 DEF Apart
<1> QED
  BY <1>1, <1>2, <1>3, <1>4

LEMMA LinkedIs ==
    ASSUME NEW fs, fs \subseteq File, NEW p, NEW q \in Paths
    PROVE  /\ Linked(p, q, fs) \subseteq File
           /\ Present(Linked(p, q, fs)) \subseteq Present(fs) \cup {q}
           /\ Present(fs) \subseteq Present(Linked(p, q, fs))
           /\ Apart(fs) /\ q \notin Present(fs) => Apart(Linked(p, q, fs))
<1> DEFINE Relinked(f) == [f EXCEPT !.paths = IF p \in @ THEN @ \cup {q} ELSE @]
<1>1. \A f \in fs : /\ Relinked(f).paths = IF p \in f.paths THEN f.paths \cup {q} ELSE f.paths
                    /\ Relinked(f) \in File
  BY DEF File
<1>2. Linked(p, q, fs) = {Relinked(f) : f \in fs}
  BY DEF Linked
<1> HIDE DEF Relinked
<1>3. \A f \in fs : \A r : r \in Relinked(f).paths <=> r \in f.paths \/ (r = q /\ p \in f.paths)
  BY <1>1
<1>4. \A r : /\ r \in Present(Linked(p, q, fs)) => r \in Present(fs) \cup {q}
             /\ r \in Present(fs) => r \in Present(Linked(p, q, fs))
  BY <1>2, <1>3, PresentIs
<1>5. ASSUME Apart(fs), q \notin Present(fs)
      PROVE  Apart(Linked(p, q, fs))
  <2> SUFFICES ASSUME NEW f \in fs, NEW g \in fs, NEW r, r \in Relinked(f).paths, r \in Relinked(g).paths
               PROVE  f = g
    BY <1>2 DEF Apart
  <2>1. CASE r = q
    <3>1. p \in f.paths /\ p \in g.paths
      BY <1>3, <1>5, <2>1, PresentIs
    <3> QED
      BY <1>5, <3>1 DEF Apart
  <2>2. CASE r # q
    <3>1. r \in f.paths /\ r \in g.paths
      BY <1>3, <2>2
    <3> QED
      BY <1>5, <3>1 DEF Apart
  <2> QED
    BY <2>1, <2>2
<1> QED
  BY <1>1, <1>2, <1>4, <1>5

LEMMA ClosedIs ==
    ASSUME NEW fs, fs \subseteq File, NEW h
    PROVE  /\ Closed(h, fs) \subseteq File
           /\ Present(Closed(h, fs)) = Present(fs)
           /\ Apart(fs) => Apart(Closed(h, fs))
<1> DEFINE C(f) == [f EXCEPT !.writers = @ \ {h}]
<1>1. \A f \in fs : C(f).paths = f.paths /\ C(f) \in File
  BY DEF File
<1>2. Closed(h, fs) = {C(f) : f \in fs}
  BY DEF Closed
<1> HIDE DEF C
<1>3. \A r : r \in Present(Closed(h, fs)) <=> r \in Present(fs)
  BY <1>1, <1>2, PresentIs
<1>4. Apart(fs) => Apart(Closed(h, fs))
  BY <1>1, <1>2 DEF Apart
<1> QED
  BY <1>1, <1>2, <1>3, <1>4

LEMMA BecomesIs ==
    ASSUME NEW fs, fs \subseteq File, Becomes(fs)
    PROVE  /\ files' \subseteq fs
           /\ Present(files)' = Present(fs)
           /\ Apart(fs) => Apart(files)'
           /\ IsFiniteSet(Present(fs)) => IsFiniteSet(Present(files)')
<1>1. files' = {f \in fs : f.paths # {} \/ f.writers # {}}
  BY DEF Becomes
<1>2. Present(files') = Present(fs)
  <2>1. \A r : r \in Present(files') <=> r \in Present(fs)
    BY <1>1, PresentIs
  <2> QED
    BY <2>1
<1>3. Present(files)' = Present(files')
  BY DEF Present
<1>4. Apart(fs) => Apart(files)'
  BY <1>1 DEF Apart
<1> QED
  BY <1>1, <1>2, <1>3, <1>4

LEMMA NoPresent ==
    ASSUME Present(files)' = Present(files), UNCHANGED seen, FolderInv,
           NEW h \in Helpers,
           \A g \in Helpers \ {h} : pc'[g] = pc[g] /\ listing'[g] = listing[g],
           pc[h] \notin {"list", "read"}, pc'[h] \notin {"list", "read"},
           pc'[h] # "clear" => listing'[h] = NoListing
    PROVE  ListInv'
<1> SUFFICES ASSUME NEW g \in Helpers
             PROVE  /\ pc'[g] \notin {"clear", "list", "read"} => listing'[g] = NoListing
                    /\ pc'[g] \in {"list", "read"} => ListerOK(g)'
  BY DEF ListInv, NoListing
<1>1. CASE g = h
  BY <1>1
<1>2. CASE g # h /\ pc[g] \in {"list", "read"}
  <2>1. ListerOK(g)
    BY <1>2 DEF FolderInv, ListInv
  <2>2. \A C : Counted(g, C) => Counted(g, C)'
    BY <1>2 DEF Counted
  <2>3. (\E C \in SUBSET Paths : Counted(g, C)) => (\E C \in SUBSET Paths : Counted(g, C)')
    BY <2>2
  <2> QED
    BY <1>2, <2>1, <2>3 DEF ListerOK, Paths
<1>3. CASE g # h /\ pc[g] \notin {"list", "read"}
  BY <1>3 DEF FolderInv, ListInv
<1> QED
  BY <1>1, <1>2, <1>3

LEMMA ListersLook ==
    ASSUME NEW fs, fs \subseteq File, Becomes(fs), FolderInv,
           NEW h \in Helpers,
           \A g \in Helpers \ {h} : pc'[g] = pc[g] /\ listing'[g] = listing[g],
           pc[h] \notin {"list", "read"}, pc'[h] \notin {"list", "read"},
           pc'[h] # "clear" => listing'[h] = NoListing
    PROVE  ListInv'
<1> SUFFICES ASSUME NEW g \in Helpers
             PROVE  /\ pc'[g] \notin {"clear", "list", "read"} => listing'[g] = NoListing
                    /\ pc'[g] \in {"list", "read"} => ListerOK(g)'
  BY DEF ListInv, NoListing
<1>1. CASE g = h
  BY <1>1
<1>2. CASE g # h /\ pc[g] \in {"list", "read"}
  <2>1. ListerOK(g)
    BY <1>2 DEF FolderInv, ListInv
  <2>2. seen'[g] = [stays |-> seen[g].stays \cap Present(fs),
                    grown |-> seen[g].grown \/ ~(Present(fs) \subseteq Present(files))]
    BY <1>2 DEF Becomes
  <2>3. Present(files)' = Present(fs)
    BY BecomesIs
  <2>4. /\ seen'[g].stays \subseteq Present(files)'
        /\ seen'[g].stays \subseteq seen[g].stays
        /\ ~seen'[g].grown => ~seen[g].grown /\ Present(files)' \subseteq Present(files)
    <3> DEFINE left == seen[g].stays \cap Present(fs)
               more == seen[g].grown \/ ~(Present(fs) \subseteq Present(files))
    <3>1. seen'[g].stays = left /\ seen'[g].grown = more
      <4> HIDE DEF left, more
      <4>1. seen'[g] = [stays |-> left, grown |-> more]
        BY <2>2 DEF left, more
      <4> QED
        BY <4>1
    <3>2. Present(files)' = Present(files')
      BY DEF Present
    <3> HIDE DEF Present
    <3> QED
      BY <2>3, <3>1, <3>2
  <2>5. ASSUME ~seen'[g].grown
        PROVE  \E C \in SUBSET Paths : Counted(g, C)'
    <3>1. PICK C \in SUBSET Paths : Counted(g, C)
      BY <2>1, <2>4, <2>5 DEF ListerOK
    <3>2. Counted(g, C)'
      BY <1>2, <2>4, <2>5, <3>1 DEF Counted
    <3> QED
      BY <3>1, <3>2
  <2> QED
    BY <1>2, <2>1, <2>4, <2>5 DEF ListerOK, Paths
<1>3. CASE g # h /\ pc[g] \notin {"list", "read"}
  BY <1>3 DEF FolderInv, ListInv
<1> QED
  BY <1>1, <1>2, <1>3

LEMMA SeenShape ==
    ASSUME NEW fs, fs \subseteq File, Becomes(fs), FilesShape
    PROVE  /\ seen' \in [Helpers -> [stays : SUBSET Paths, grown : BOOLEAN]]
           /\ files' \subseteq File
<1>1. seen' = [h \in Helpers |->
                   IF pc[h] \in {"list", "read"}
                   THEN [stays |-> seen[h].stays \cap Present(fs),
                         grown |-> seen[h].grown \/ ~(Present(fs) \subseteq Present(files))]
                   ELSE seen[h]]
  BY DEF Becomes
<1>2. \A h \in Helpers : /\ seen[h].stays \subseteq Paths
                         /\ seen[h] \in [stays : SUBSET Paths, grown : BOOLEAN]
  BY DEF FilesShape
<1>3. \A h \in Helpers : seen'[h] \in [stays : SUBSET Paths, grown : BOOLEAN]
  <2> SUFFICES ASSUME NEW h \in Helpers
               PROVE  seen'[h] \in [stays : SUBSET Paths, grown : BOOLEAN]
    OBVIOUS
  <2>1. CASE pc[h] \in {"list", "read"}
    <3>1. seen'[h] = [stays |-> seen[h].stays \cap Present(fs),
                      grown |-> seen[h].grown \/ ~(Present(fs) \subseteq Present(files))]
      BY <1>1, <2>1
    <3>2. seen[h].stays \cap Present(fs) \in SUBSET Paths
      BY <1>2
    <3>3. (seen[h].grown \/ ~(Present(fs) \subseteq Present(files))) \in BOOLEAN
      OBVIOUS
    <3> QED
      BY <3>1, <3>2, <3>3
  <2>2. CASE pc[h] \notin {"list", "read"}
    BY <1>1, <1>2, <2>2
  <2> QED
    BY <2>1, <2>2
<1> QED
  BY <1>1, <1>3, BecomesIs
-----------------------------------------------------------------------------
(* What a helper does away from the files. *)

OthersStay(h) == \A g \in Helpers \ {h} :
    pc'[g] = pc[g] /\ upload'[g] = upload[g] /\ (g \in ttbl' <=> g \in ttbl)

LEMMA FileStays ==
    ASSUME FilesShape, NEW h \in Helpers, NEW f \in File, FileOK(f), OthersStay(h), ttbl' \subseteq Helpers,
           pc[h] \notin {"write", "unlink"}, pc'[h] \notin {"write", "unlink"}
    PROVE  FileOK(f)'
<1>1. f.writers \subseteq Helpers \ {h}
  BY DEF File, FileOK
<1>2. \A g \in f.writers : /\ pc'[g] = "write"
                           /\ \A x \in Names : Partial(x) \in f.paths => x = upload'[g].name
  BY <1>1 DEF FileOK, OthersStay
<1>3. ASSUME ~f.spoiled
      PROVE  Sound(f)'
  <2>1. Sound(f)
    BY <1>3 DEF FileOK
  <2>2. \A n : Finishing(n) => Finishing(n)'
    BY DEF Finishing, OthersStay, FilesShape
  <2>3. \A g \in f.writers : g \in ttbl' /\ 0 .. upload'[g].pos - 1 \subseteq f.pieces
    BY <1>1, <2>1 DEF Sound, OthersStay
  <2>4. \A n \in Names : Partial(n) \in f.paths =>
           \A g \in ttbl' : pc'[g] = "write" /\ upload'[g].name = n => g \in f.writers
    BY <2>1 DEF Sound, OthersStay
  <2>5. Published(f)' <=> Published(f)
    BY DEF Published, Final
  <2> QED
    BY <2>1, <2>2, <2>3, <2>4, <2>5 DEF Sound, Partial, Pieces
<1> QED
  BY <1>2, <1>3 DEF FileOK, Partial

LEMMA AllFilesStay ==
    ASSUME FolderInv, NEW h \in Helpers, OthersStay(h), ttbl' \subseteq Helpers, UNCHANGED files,
           pc[h] \notin {"write", "unlink"}, pc'[h] \notin {"write", "unlink"}
    PROVE  WholeInv'
<1>1. \A f \in files : FileOK(f)'
  BY FileStays DEF FolderInv, FilesShape, WholeInv
<1> QED
  BY <1>1 DEF FolderInv, WholeInv, Apart

LEMMA NoUploadIs ==
    /\ NoUpload \in [name : Names \cup {NoName}, mode : BOOLEAN, offset : 0 .. FileSize, pos : 0 .. FileSize]
    /\ NoUpload.pos = 0
BY SizeAssumption DEF NoUpload

LEMMA txn_uploadStep ==
    ASSUME FolderInv, NEW h \in Helpers, NEW n \in Names, NEW mode \in BOOLEAN,
           txn_upload(h, n, mode)
    PROVE  FolderInv'
<1> DEFINE up == [NoUpload EXCEPT !.name = n, !.mode = mode]
<1>1. /\ up \in [name : Names \cup {NoName}, mode : BOOLEAN, offset : 0 .. FileSize, pos : 0 .. FileSize]
      /\ up.name = n /\ up.pos = 0
  <2> DEFINE none == NoUpload
  <2>1. none \in [name : Names \cup {NoName}, mode : BOOLEAN, offset : 0 .. FileSize, pos : 0 .. FileSize]
        /\ none.pos = 0
    BY NoUploadIs
  <2> HIDE DEF none
  <2>2. \A r \in [name : Names \cup {NoName}, mode : BOOLEAN, offset : 0 .. FileSize, pos : 0 .. FileSize] :
           LET s == [r EXCEPT !.name = n, !.mode = mode]
           IN  /\ s \in [name : Names \cup {NoName}, mode : BOOLEAN, offset : 0 .. FileSize, pos : 0 .. FileSize]
               /\ s.name = n /\ s.pos = r.pos
    OBVIOUS
  <2>3. up = [none EXCEPT !.name = n, !.mode = mode]
    BY DEF none
  <2> HIDE DEF up
  <2> QED
    BY <2>1, <2>2, <2>3
<1>2. /\ pc[h] = "idle" /\ upload' = [upload EXCEPT ![h] = up]
      /\ pc' = [pc EXCEPT ![h] = IF mode THEN "resume" ELSE "add"]
      /\ UNCHANGED <<folder, files, ttbl, listing, seen>>
  BY DEF txn_upload, Enters
<1> HIDE DEF up
<1>3. FilesShape'
  BY <1>1, <1>2 DEF FolderInv, FilesShape, Present, Points
<1>4. UploadInv'
  BY <1>1, <1>2 DEF FolderInv, FilesShape, UploadInv
<1>5. pc'[h] \in {"resume", "add"} /\ OthersStay(h)
  BY <1>2 DEF FolderInv, FilesShape, OthersStay
<1>6. WholeInv'
  BY <1>2, <1>5, AllFilesStay DEF FolderInv, FilesShape
<1>7. ListInv'
  <2>1. /\ \A g \in Helpers \ {h} : pc'[g] = pc[g] /\ listing'[g] = listing[g]
        /\ listing'[h] = NoListing
        /\ Present(files)' = Present(files)
    BY <1>2, <1>5 DEF OthersStay, FolderInv, ListInv, Present
  <2> QED
    BY <1>2, <1>5, <2>1, NoPresent
<1> QED
  BY <1>3, <1>4, <1>6, <1>7 DEF FolderInv

LEMMA ResumeOffsetStep ==
    ASSUME FolderInv, NEW h \in Helpers, ResumeOffset(h)
    PROVE  FolderInv'
<1>1. \E up \in [name : Names \cup {NoName}, mode : BOOLEAN, offset : 0 .. FileSize, pos : 0 .. FileSize],
         w \in {"add", "idle"} :
          /\ pc[h] = "resume" /\ upload' = [upload EXCEPT ![h] = up]
          /\ pc' = [pc EXCEPT ![h] = w]
          /\ w = "add" => up.name = upload[h].name /\ up.pos = upload[h].pos
  <2> DEFINE p == Partial(upload[h].name)
  <2>1. CASE Exists(p)
    <3> DEFINE up == [upload[h] EXCEPT !.offset = Length(At(p))]
    <3>1. Length(At(p)) \in 0 .. FileSize
      BY <2>1, AtIs, LengthIs DEF FolderInv, FilesShape
    <3>2. /\ up \in [name : Names \cup {NoName}, mode : BOOLEAN, offset : 0 .. FileSize, pos : 0 .. FileSize]
          /\ up.name = upload[h].name /\ up.pos = upload[h].pos
      BY <3>1 DEF FolderInv, FilesShape
    <3>3. /\ pc[h] = "resume" /\ upload' = [upload EXCEPT ![h] = up]
          /\ pc' = [pc EXCEPT ![h] = "add"]
      BY <2>1 DEF ResumeOffset, Enters
    <3> HIDE DEF up
    <3> QED
      BY <3>2, <3>3
  <2>2. CASE ~Exists(p)
    <3>1. /\ pc[h] = "resume" /\ upload' = [upload EXCEPT ![h] = NoUpload]
          /\ pc' = [pc EXCEPT ![h] = "idle"]
      BY <2>2 DEF ResumeOffset, Enters
    <3> QED
      BY <3>1, NoUploadIs
  <2> QED
    BY <2>1, <2>2
<1>2. PICK up \in [name : Names \cup {NoName}, mode : BOOLEAN, offset : 0 .. FileSize, pos : 0 .. FileSize],
         w \in {"add", "idle"} :
          /\ pc[h] = "resume" /\ upload' = [upload EXCEPT ![h] = up]
          /\ pc' = [pc EXCEPT ![h] = w]
          /\ w = "add" => up.name = upload[h].name /\ up.pos = upload[h].pos
  BY <1>1
<1>3. UNCHANGED <<folder, files, ttbl, listing, seen>>
  BY DEF ResumeOffset
<1>4. FilesShape'
  BY <1>2, <1>3 DEF FolderInv, FilesShape, Present, Points
<1>5. UploadInv'
  BY <1>2, <1>3 DEF FolderInv, FilesShape, UploadInv
<1>6. pc'[h] \in {"idle", "add"} /\ OthersStay(h)
  BY <1>2, <1>3 DEF FolderInv, FilesShape, OthersStay
<1>7. WholeInv'
  BY <1>2, <1>3, <1>6, AllFilesStay DEF FolderInv, FilesShape
<1>8. ListInv'
  <2>1. /\ \A g \in Helpers \ {h} : pc'[g] = pc[g] /\ listing'[g] = listing[g]
        /\ listing'[h] = NoListing
        /\ Present(files)' = Present(files)
    BY <1>2, <1>3, <1>6 DEF OthersStay, FolderInv, ListInv, Present
  <2> QED
    BY <1>2, <1>3, <1>6, <2>1, NoPresent
<1> QED
  BY <1>4, <1>5, <1>7, <1>8 DEF FolderInv

LEMMA tfm_add_uploadStep ==
    ASSUME FolderInv, NEW h \in Helpers, tfm_add_upload(h)
    PROVE  FolderInv'
<1>1. /\ pc[h] = "add"
      /\ UNCHANGED <<folder, files, listing, seen>>
      /\ \/ /\ upload' = [upload EXCEPT ![h] = NoUpload]
            /\ pc' = [pc EXCEPT ![h] = "idle"]
            /\ ttbl' = ttbl
         \/ /\ \A g \in ttbl : upload[g].name # upload[h].name
            /\ ttbl' = ttbl \cup {h}
            /\ pc' = [pc EXCEPT ![h] = "open"]
            /\ upload' = upload
  BY DEF tfm_add_upload, Enters
<1>2. FilesShape'
  <2>1. /\ upload' \in [Helpers -> [name : Names \cup {NoName}, mode : BOOLEAN,
                                    offset : 0 .. FileSize, pos : 0 .. FileSize]]
        /\ pc' \in [Helpers -> Points] /\ ttbl' \subseteq Helpers
    <3>1. /\ upload \in [Helpers -> [name : Names \cup {NoName}, mode : BOOLEAN,
                                     offset : 0 .. FileSize, pos : 0 .. FileSize]]
          /\ pc \in [Helpers -> Points] /\ ttbl \subseteq Helpers
          /\ {"idle", "open"} \subseteq Points
      BY DEF FolderInv, FilesShape, Points
    <3> QED
      BY <1>1, <3>1, NoUploadIs
  <2> QED
    BY <1>1, <2>1 DEF FolderInv, FilesShape, Present
<1>3. UploadInv'
  <2>1. h \notin ttbl
    BY <1>1 DEF FolderInv, UploadInv
  <2>2. \A g \in ttbl : pc'[g] = pc[g] /\ upload'[g] = upload[g]
    BY <1>1, <2>1 DEF FolderInv, FilesShape
  <2>3. \A g, k \in ttbl' : upload'[g].name = upload'[k].name => g = k
    BY <1>1, <2>2 DEF FolderInv, UploadInv
  <2>4. \A g \in ttbl' : pc'[g] \in {"open", "write", "unlink", "remove"}
    BY <1>1, <2>2 DEF FolderInv, FilesShape, UploadInv
  <2>5. \A g \in Helpers :
           /\ pc'[g] \in {"resume", "add", "open"} => upload'[g].pos = 0
           /\ pc'[g] \notin {"idle", "clear", "list", "read"} => upload'[g].name \in Names
    BY <1>1, NoUploadIs DEF FolderInv, FilesShape, UploadInv
  <2> QED
    BY <2>3, <2>4, <2>5 DEF UploadInv
<1>4. pc'[h] \in {"idle", "open"} /\ OthersStay(h)
  BY <1>1 DEF FolderInv, FilesShape, OthersStay
<1>5. WholeInv'
  BY <1>1, <1>4, AllFilesStay DEF FolderInv, FilesShape
<1>6. ListInv'
  <2>1. /\ \A g \in Helpers \ {h} : pc'[g] = pc[g] /\ listing'[g] = listing[g]
        /\ listing'[h] = NoListing
        /\ Present(files)' = Present(files)
    BY <1>1, <1>4 DEF OthersStay, FolderInv, ListInv, Present
  <2> QED
    BY <1>1, <1>4, <2>1, NoPresent
<1> QED
  BY <1>2, <1>3, <1>5, <1>6 DEF FolderInv

LEMMA tfm_removeStep ==
    ASSUME FolderInv, NEW h \in Helpers, tfm_remove(h)
    PROVE  FolderInv'
<1>1. /\ pc[h] \in {"open", "remove"}
      /\ UNCHANGED <<folder, files, listing, seen>>
      /\ upload' = [upload EXCEPT ![h] = NoUpload]
      /\ pc' = [pc EXCEPT ![h] = "idle"]
      /\ ttbl' = ttbl \ {h}
  BY DEF tfm_remove, Enters
<1>2. FilesShape'
  BY <1>1, NoUploadIs DEF FolderInv, FilesShape, Present, Points
<1>3. UploadInv'
  BY <1>1, NoUploadIs DEF FolderInv, FilesShape, UploadInv
<1>4. pc'[h] = "idle" /\ OthersStay(h)
  BY <1>1 DEF FolderInv, FilesShape, OthersStay
<1>5. WholeInv'
  BY <1>1, <1>4, AllFilesStay DEF FolderInv, FilesShape
<1>6. ListInv'
  <2>1. /\ \A g \in Helpers \ {h} : pc'[g] = pc[g] /\ listing'[g] = listing[g]
        /\ listing'[h] = NoListing
        /\ Present(files)' = Present(files)
    BY <1>1, <1>4 DEF OthersStay, FolderInv, ListInv, Present
  <2> QED
    BY <1>1, <1>4, <2>1, NoPresent
<1> QED
  BY <1>2, <1>3, <1>5, <1>6 DEF FolderInv

LEMMA txn_create_folderStep ==
    ASSUME FolderInv, NEW h \in Helpers, txn_create_folder(h)
    PROVE  FolderInv'
<1>1. /\ pc[h] = "idle" /\ folder' = TRUE
      /\ UNCHANGED <<files, pc, upload, ttbl, listing, seen>>
  BY DEF txn_create_folder
<1>2. Present(files)' = Present(files)
  BY <1>1 DEF Present
<1>3. FilesShape' /\ UploadInv'
  BY <1>1, <1>2 DEF FolderInv, FilesShape, UploadInv
<1>4. WholeInv'
  BY <1>1, AllFilesStay DEF FolderInv, FilesShape, OthersStay
<1>5. ListInv'
  BY <1>1, <1>2, NoPresent DEF FolderInv, ListInv
<1> QED
  BY <1>3, <1>4, <1>5 DEF FolderInv

LEMMA f_rmdir_recursiveStep ==
    ASSUME FolderInv, NEW h \in Helpers, f_rmdir_recursive(h)
    PROVE  FolderInv'
<1>1. /\ pc[h] = "idle"
      /\ UNCHANGED <<files, upload, ttbl, seen>>
      /\ \/ folder' = FALSE /\ pc' = pc /\ listing' = listing
         \/ /\ pc' = [pc EXCEPT ![h] = "clear"]
            /\ listing' = [listing EXCEPT ![h].unread = Present(files)]
            /\ folder' = folder
  BY DEF f_rmdir_recursive, Enters
<1>2. Present(files)' = Present(files)
  BY <1>1 DEF Present
<1>3. Present(files) \subseteq Paths
  BY PresentIs DEF FolderInv, FilesShape, File
<1>4. FilesShape'
  <2>1. folder' \in BOOLEAN /\ pc' \in [Helpers -> Points]
    BY <1>1 DEF FolderInv, FilesShape, Points
  <2>2. listing' \in [Helpers -> [unread : SUBSET Paths, entries : SUBSET Paths, room : Nat]]
    <3>1. CASE listing' = listing
      BY <3>1 DEF FolderInv, FilesShape
    <3>2. CASE listing' = [listing EXCEPT ![h].unread = Present(files)]
      <4>1. listing[h] \in [unread : SUBSET Paths, entries : SUBSET Paths, room : Nat]
        BY DEF FolderInv, FilesShape
      <4>2. [listing[h] EXCEPT !.unread = Present(files)]
               \in [unread : SUBSET Paths, entries : SUBSET Paths, room : Nat]
        BY <1>3, <4>1
      <4> QED
        BY <3>2, <4>2 DEF FolderInv, FilesShape
    <3> QED
      BY <1>1, <3>1, <3>2
  <2> QED
    BY <1>1, <1>2, <2>1, <2>2 DEF FolderInv, FilesShape
<1>5. UploadInv'
  <2>1. pc'[h] \in {"idle", "clear"} /\ \A g \in Helpers \ {h} : pc'[g] = pc[g]
    BY <1>1 DEF FolderInv, FilesShape
  <2>2. h \notin ttbl /\ ttbl \subseteq Helpers
    BY <1>1 DEF FolderInv, FilesShape, UploadInv
  <2> QED
    BY <1>1, <2>1, <2>2 DEF FolderInv, UploadInv
<1>6. /\ pc'[h] \in {"idle", "clear"}
      /\ OthersStay(h)
      /\ \A g \in Helpers \ {h} : pc'[g] = pc[g] /\ listing'[g] = listing[g]
      /\ pc'[h] # "clear" => listing'[h] = NoListing
  BY <1>1 DEF FolderInv, FilesShape, OthersStay, ListInv
<1>7. WholeInv'
  BY <1>1, <1>6, AllFilesStay DEF FolderInv, FilesShape
<1>8. ListInv'
  BY <1>1, <1>2, <1>6, NoPresent
<1> QED
  BY <1>4, <1>5, <1>7, <1>8 DEF FolderInv

LEMMA rmdir_recursiveStep ==
    ASSUME FolderInv, NEW h \in Helpers, rmdir_recursive(h)
    PROVE  FolderInv'
<1>1. /\ pc[h] = "clear"
      /\ UNCHANGED <<files, upload, ttbl, seen>>
      /\ folder' \in BOOLEAN
      /\ pc' = [pc EXCEPT ![h] = "idle"]
      /\ listing' = [listing EXCEPT ![h] = NoListing]
  BY DEF rmdir_recursive, Enters, FolderInv, FilesShape
<1>2. Present(files)' = Present(files)
  BY <1>1 DEF Present
<1>3. FilesShape'
  BY <1>1, <1>2 DEF FolderInv, FilesShape, Points, NoListing
<1>4. UploadInv'
  BY <1>1 DEF FolderInv, FilesShape, UploadInv
<1>5. /\ pc'[h] = "idle"
      /\ OthersStay(h)
      /\ \A g \in Helpers \ {h} : pc'[g] = pc[g] /\ listing'[g] = listing[g]
      /\ listing'[h] = NoListing
  BY <1>1 DEF FolderInv, FilesShape, OthersStay
<1>6. WholeInv'
  BY <1>1, <1>5, AllFilesStay DEF FolderInv, FilesShape
<1>7. ListInv'
  BY <1>1, <1>2, <1>5, NoPresent
<1> QED
  BY <1>3, <1>4, <1>6, <1>7 DEF FolderInv
-----------------------------------------------------------------------------
(* Listings. *)

LEMMA ListingQuiet ==
    ASSUME FolderInv, NEW h \in Helpers, NEW w \in {"idle", "list", "read"},
           pc[h] \in {"idle", "list", "read"}, pc' = [pc EXCEPT ![h] = w],
           UNCHANGED <<folder, files, upload, ttbl>>,
           listing' \in [Helpers -> [unread : SUBSET Paths, entries : SUBSET Paths, room : Nat]],
           seen' \in [Helpers -> [stays : SUBSET Paths, grown : BOOLEAN]],
           \A g \in Helpers \ {h} : listing'[g] = listing[g] /\ seen'[g] = seen[g],
           w = "idle" => listing'[h] = NoListing,
           w # "idle" => ListerOK(h)'
    PROVE  FolderInv'
<1>1. /\ pc'[h] = w
      /\ OthersStay(h)
      /\ \A g \in Helpers \ {h} : pc'[g] = pc[g]
      /\ Present(files)' = Present(files)
  BY DEF FolderInv, FilesShape, OthersStay, Present
<1>2. FilesShape'
  BY <1>1 DEF FolderInv, FilesShape, Points
<1>3. UploadInv'
  BY <1>1 DEF FolderInv, FilesShape, UploadInv
<1>4. WholeInv'
  BY <1>1, AllFilesStay DEF FolderInv, FilesShape
<1>5. ListInv'
  <2> SUFFICES ASSUME NEW g \in Helpers
               PROVE  /\ pc'[g] \notin {"clear", "list", "read"} => listing'[g] = NoListing
                      /\ pc'[g] \in {"list", "read"} => ListerOK(g)'
    BY DEF ListInv, NoListing
  <2>1. CASE g = h
    BY <1>1, <2>1
  <2>2. CASE g # h
    <3>1. ListerOK(g) => ListerOK(g)'
      BY <1>1, <2>2 DEF ListerOK, Counted, Paths
    <3> QED
      BY <1>1, <2>2, <3>1 DEF FolderInv, ListInv
  <2> QED
    BY <2>1, <2>2
<1> QED
  BY <1>2, <1>3, <1>4, <1>5 DEF FolderInv

LEMMA SizeIs == \A S : Cardinality(S) = Cardinality(S)
BY DEF Cardinality, Cardinality

LEMMA dir_countStep ==
    ASSUME FolderInv, NEW h \in Helpers, dir_count(h)
    PROVE  FolderInv'
<1> DEFINE room == Cardinality(Present(files))
           look == [stays |-> Present(files), grown |-> FALSE]
<1>1. /\ pc[h] = "idle" /\ UNCHANGED <<folder, files, upload, ttbl>>
      /\ pc' = [pc EXCEPT ![h] = "list"]
      /\ listing' = [listing EXCEPT ![h].room = room]
      /\ seen' = [seen EXCEPT ![h] = look]
  <2>1. /\ pc[h] = "idle" /\ UNCHANGED <<folder, files, upload, ttbl>>
        /\ pc' = [pc EXCEPT ![h] = "list"]
    BY DEF dir_count, Enters
  <2>2. listing' = [listing EXCEPT ![h].room = room]
    BY SizeIs DEF dir_count
  <2>3. seen' = [seen EXCEPT ![h] = look]
    BY Zenon DEF dir_count
  <2> QED
    BY <2>1, <2>2, <2>3
<1>2. room \in Nat
  BY FS_CardinalityType DEF FolderInv, FilesShape
<1>3. Present(files) \in SUBSET Paths
  BY PresentIs DEF FolderInv, FilesShape, File
<1>4. look \in [stays : SUBSET Paths, grown : BOOLEAN] /\ look.stays = Present(files)
  BY <1>3
<1>5. /\ listing' \in [Helpers -> [unread : SUBSET Paths, entries : SUBSET Paths, room : Nat]]
      /\ seen' \in [Helpers -> [stays : SUBSET Paths, grown : BOOLEAN]]
      /\ \A g \in Helpers \ {h} : listing'[g] = listing[g] /\ seen'[g] = seen[g]
      /\ listing'[h].room = room /\ listing'[h].entries = {} /\ listing'[h].unread = {}
  <2> HIDE DEF look, room
  <2>1. listing[h] = NoListing
    BY <1>1 DEF FolderInv, ListInv
  <2> QED
    BY <1>1, <1>2, <1>4, <2>1 DEF FolderInv, FilesShape, NoListing
<1>6. ListerOK(h)'
  <2>1. Present(files)' = Present(files)
    BY <1>1 DEF Present
  <2>2. Counted(h, Present(files))'
    BY <1>5, <2>1 DEF Counted, FolderInv, FilesShape
  <2>3. \E C \in SUBSET Paths : Counted(h, C)'
    BY <1>1, <1>3, <1>5, <2>1 DEF Counted, FolderInv, FilesShape
  <2>4. pc'[h] = "list" /\ seen'[h].stays = Present(files)
    <3> HIDE DEF look
    <3> QED
      BY <1>1, <1>4 DEF FolderInv, FilesShape
  <2> QED
    BY <1>5, <2>1, <2>3, <2>4 DEF ListerOK, Paths
<1> HIDE DEF look, room
<1> QED
  BY <1>1, <1>5, <1>6, ListingQuiet

LEMMA OpenFolderStep ==
    ASSUME FolderInv, NEW h \in Helpers, OpenFolder(h)
    PROVE  FolderInv'
<1>1. /\ pc[h] = "list" /\ UNCHANGED <<folder, files, upload, ttbl, seen>>
      /\ pc' = [pc EXCEPT ![h] = "read"]
      /\ listing' = [listing EXCEPT ![h].unread = Present(files)]
  BY DEF OpenFolder, Enters
<1>2. Present(files) \in SUBSET Paths
  BY PresentIs DEF FolderInv, FilesShape, File
<1>3. /\ listing' \in [Helpers -> [unread : SUBSET Paths, entries : SUBSET Paths, room : Nat]]
      /\ \A g \in Helpers \ {h} : listing'[g] = listing[g]
      /\ listing'[h].room = listing[h].room /\ listing'[h].entries = listing[h].entries
      /\ listing'[h].unread = Present(files)
      /\ pc'[h] = "read"
  BY <1>1, <1>2 DEF FolderInv, FilesShape
<1>4. ListerOK(h)'
  <2>1. Present(files)' = Present(files)
    BY <1>1 DEF Present
  <2>2. ListerOK(h)
    BY <1>1 DEF FolderInv, ListInv
  <2>3. \A C : Counted(h, C) => Counted(h, C)'
    BY <1>1, <1>3, <2>1 DEF Counted
  <2> QED
    BY <1>1, <1>3, <2>1, <2>2, <2>3 DEF ListerOK, Paths
<1> QED
  BY <1>1, <1>3, <1>4, ListingQuiet DEF FolderInv, FilesShape

(* There is room for whatever was counted. *)
LEMMA AddedIs ==
    ASSUME NEW l \in [unread : SUBSET Paths, entries : SUBSET Paths, room : Nat], NEW p \in Paths
    PROVE  /\ l.entries \subseteq Added(l, p)
           /\ Added(l, p) \subseteq l.entries \cup {p}
           /\ \A C : IsFiniteSet(C) /\ Cardinality(C) = l.room /\ l.entries \subseteq C /\ p \in C
                         => p \in Added(l, p)
<1>1. ASSUME NEW C, IsFiniteSet(C), Cardinality(C) = l.room, l.entries \subseteq C, p \in C
      PROVE  p \in Added(l, p)
  <2>1. CASE p \in l.entries
    BY <2>1 DEF Added
  <2>2. CASE p \notin l.entries
    <3>1. l.entries # C
      BY <1>1, <2>2
    <3>2. Cardinality(l.entries) < Cardinality(C)
      BY <1>1, <3>1, FS_Subset, FS_CardinalityType
    <3>3. Added(l, p) = l.entries \cup {p}
      <4>1. Cardinality(l.entries) < l.room
        BY <1>1, <3>2
      <4> QED
        BY <4>1, SizeIs DEF Added
    <3> QED
      BY <3>3
  <2> QED
    BY <2>1, <2>2
<1> QED
  BY <1>1 DEF Added

LEMMA ReadStep ==
    ASSUME FolderInv, NEW h \in Helpers, pc[h] = "read",
           UNCHANGED <<folder, files, pc, upload, ttbl, seen>>,
           NEW p \in Present(files) \cup listing[h].unread, NEW rest \in SUBSET listing[h].unread,
           listing[h].unread \subseteq rest \cup {p},
           listing' = [listing EXCEPT ![h].unread = rest,
                                      ![h].entries = IF Exists(p) THEN Added(listing[h], p) ELSE @]
    PROVE  FolderInv'
<1> DEFINE es == IF Exists(p) THEN Added(listing[h], p) ELSE listing[h].entries
<1>1. p \in Paths
  BY PresentIs DEF FolderInv, FilesShape, File
<1>2. /\ listing[h].entries \subseteq es
      /\ es \subseteq listing[h].entries \cup {p}
      /\ es # listing[h].entries => Exists(p)
  BY <1>1, AddedIs DEF FolderInv, FilesShape
<1>3. \A C : Counted(h, C) /\ Exists(p) => p \in es
  BY <1>1, AddedIs DEF FolderInv, FilesShape, Counted, Exists
<1>4. listing' = [listing EXCEPT ![h].unread = rest, ![h].entries = es]
  OBVIOUS
<1> HIDE DEF es
<1>5. es \in SUBSET Paths
  BY <1>1, <1>2 DEF FolderInv, FilesShape
<1> DEFINE after == [listing[h] EXCEPT !.unread = rest, !.entries = es]
<1>6. /\ listing' \in [Helpers -> [unread : SUBSET Paths, entries : SUBSET Paths, room : Nat]]
      /\ \A g \in Helpers \ {h} : listing'[g] = listing[g]
      /\ listing'[h].room = listing[h].room /\ listing'[h].entries = es
      /\ listing'[h].unread = rest
      /\ pc' = [pc EXCEPT ![h] = "read"]
  <2>1. /\ after \in [unread : SUBSET Paths, entries : SUBSET Paths, room : Nat]
        /\ after.room = listing[h].room /\ after.entries = es /\ after.unread = rest
    BY <1>5 DEF FolderInv, FilesShape
  <2>2. listing' = [listing EXCEPT ![h] = after]
    BY <1>4 DEF FolderInv, FilesShape
  <2> HIDE DEF after
  <2>3. pc' = [pc EXCEPT ![h] = "read"]
    BY DEF FolderInv, FilesShape
  <2>4. listing \in [Helpers -> [unread : SUBSET Paths, entries : SUBSET Paths, room : Nat]]
    BY DEF FolderInv, FilesShape
  <2>5. listing'[h] = after /\ \A g \in Helpers \ {h} : listing'[g] = listing[g]
    BY <2>2, <2>4
  <2>6. listing' \in [Helpers -> [unread : SUBSET Paths, entries : SUBSET Paths, room : Nat]]
    <3> DEFINE Lister == [unread : SUBSET Paths, entries : SUBSET Paths, room : Nat]
    <3>1. after \in Lister /\ listing \in [Helpers -> Lister]
      BY <2>1, <2>4
    <3> HIDE DEF Lister
    <3>2. listing' \in [Helpers -> Lister]
      BY <2>2, <3>1
    <3> QED
      BY <3>2 DEF Lister
  <2> QED
    BY <2>1, <2>3, <2>5, <2>6
<1>7. ListerOK(h)'
  <2>1. Present(files)' = Present(files)
    BY DEF Present
  <2>2. ListerOK(h)
    BY DEF FolderInv, ListInv
  <2>3. \A C : Counted(h, C) => Counted(h, C)'
    BY <1>2, <1>6, <2>1 DEF Counted, Exists
  <2>4. ASSUME ~seen[h].grown
        PROVE  seen[h].stays \subseteq rest \cup es
    <3>1. PICK C : Counted(h, C)
      BY <2>2, <2>4 DEF ListerOK
    <3>2. p \in seen[h].stays => p \in es
      BY <1>3, <2>2, <3>1 DEF ListerOK, Exists
    <3> QED
      BY <1>2, <2>2, <2>4, <3>2 DEF ListerOK
  <2> QED
    BY <1>6, <2>1, <2>2, <2>3, <2>4 DEF ListerOK, Paths
<1> QED
  BY <1>6, <1>7, ListingQuiet DEF FolderInv, FilesShape

LEMMA ReadEntryStep ==
    ASSUME FolderInv, NEW h \in Helpers, ReadEntry(h)
    PROVE  FolderInv'
<1>1. PICK p \in listing[h].unread :
          listing' = [listing EXCEPT ![h].unread = @ \ {p},
                                     ![h].entries = IF Exists(p) THEN Added(listing[h], p) ELSE @]
  BY DEF ReadEntry
<1>2. listing' = [listing EXCEPT ![h].unread = listing[h].unread \ {p},
                                 ![h].entries = IF Exists(p) THEN Added(listing[h], p) ELSE @]
  BY <1>1 DEF FolderInv, FilesShape
<1>3. /\ pc[h] = "read" /\ UNCHANGED <<folder, files, pc, upload, ttbl, seen>>
      /\ listing[h].unread \ {p} \in SUBSET listing[h].unread
      /\ listing[h].unread \subseteq (listing[h].unread \ {p}) \cup {p}
  BY DEF ReadEntry
<1> QED
  BY <1>2, <1>3, ReadStep

LEMMA ReadNewStep ==
    ASSUME FolderInv, NEW h \in Helpers, ReadNew(h)
    PROVE  FolderInv'
<1>1. PICK p \in Present(files) : listing' = [listing EXCEPT ![h].entries = Added(listing[h], p)]
  BY DEF ReadNew
<1>2. Exists(p)
  BY DEF Exists
<1>3. listing' = [listing EXCEPT ![h].unread = listing[h].unread,
                                 ![h].entries = IF Exists(p) THEN Added(listing[h], p) ELSE @]
  BY <1>1, <1>2 DEF FolderInv, FilesShape
<1> QED
  BY <1>3, ReadStep DEF ReadNew

LEMMA txn_filelistStep ==
    ASSUME FolderInv, NEW h \in Helpers, txn_filelist(h)
    PROVE  FolderInv'
<1>1. /\ pc[h] \in {"list", "read"} /\ UNCHANGED <<folder, files, upload, ttbl>>
      /\ pc' = [pc EXCEPT ![h] = "idle"]
      /\ listing' = [listing EXCEPT ![h] = NoListing]
      /\ seen' = [seen EXCEPT ![h] = NotSeen]
  BY DEF txn_filelist, Enters
<1>2. /\ NoListing \in [unread : SUBSET Paths, entries : SUBSET Paths, room : Nat]
      /\ NotSeen \in [stays : SUBSET Paths, grown : BOOLEAN]
  BY DEF NoListing, NotSeen
<1>3. /\ listing' \in [Helpers -> [unread : SUBSET Paths, entries : SUBSET Paths, room : Nat]]
      /\ seen' \in [Helpers -> [stays : SUBSET Paths, grown : BOOLEAN]]
      /\ \A g \in Helpers \ {h} : listing'[g] = listing[g] /\ seen'[g] = seen[g]
      /\ listing'[h] = NoListing
  BY <1>1, <1>2 DEF FolderInv, FilesShape
<1> QED
  BY <1>1, <1>3, ListingQuiet
-----------------------------------------------------------------------------
(* What changes the files. *)

LEMMA FilesBecome ==
    ASSUME FolderInv, NEW h \in Helpers,
           NEW fs, fs \subseteq File, Becomes(fs), Apart(fs), \A f \in fs : FileOK(f)',
           NEW q, Present(fs) \subseteq Present(files) \cup {q},
           NEW w \in {"idle", "clear", "write", "unlink", "remove"}, pc' = [pc EXCEPT ![h] = w],
           (pc[h] \in {"open", "write", "unlink"} /\ w \notin {"idle", "clear"}) \/ (pc[h] \in {"idle", "clear"} /\ w = pc[h]),
           folder' = folder, ttbl' = ttbl,
           upload' \in [Helpers -> [name : Names \cup {NoName}, mode : BOOLEAN,
                                    offset : 0 .. FileSize, pos : 0 .. FileSize]],
           \A g \in Helpers : upload'[g].name = upload[g].name /\ (g # h => upload'[g].pos = upload[g].pos),
           listing' \in [Helpers -> [unread : SUBSET Paths, entries : SUBSET Paths, room : Nat]],
           \A g \in Helpers \ {h} : listing'[g] = listing[g],
           w # "clear" => listing'[h] = listing[h]
    PROVE  FolderInv'
<1>1. pc'[h] = w /\ \A g \in Helpers \ {h} : pc'[g] = pc[g]
  BY DEF FolderInv, FilesShape
<1>2. FilesShape'
  <2>1. IsFiniteSet(Present(fs))
    BY FS_AddElement, FS_Subset DEF FolderInv, FilesShape
  <2>2. IsFiniteSet(Present(files))'
    BY <2>1, BecomesIs
  <2>3. files' \subseteq File /\ seen' \in [Helpers -> [stays : SUBSET Paths, grown : BOOLEAN]]
    BY SeenShape DEF FolderInv
  <2>4. pc' \in [Helpers -> Points]
    BY DEF FolderInv, FilesShape, Points
  <2>5. folder' \in BOOLEAN /\ ttbl' \subseteq Helpers
    BY DEF FolderInv, FilesShape
  <2> QED
    BY <2>2, <2>3, <2>4, <2>5 DEF FilesShape, File, Paths, Pieces
<1>3. UploadInv'
  <2>1. \A g \in ttbl' : pc'[g] \in {"open", "write", "unlink", "remove"}
    BY <1>1 DEF FolderInv, FilesShape, UploadInv
  <2>2. \A g, k \in ttbl' : upload'[g].name = upload'[k].name => g = k
    BY DEF FolderInv, FilesShape, UploadInv
  <2>3. \A g \in Helpers : /\ pc'[g] \in {"resume", "add", "open"} => upload'[g].pos = 0
                           /\ pc'[g] \notin {"idle", "clear", "list", "read"} => upload'[g].name \in Names
    BY <1>1 DEF FolderInv, UploadInv
  <2> QED
    BY <2>1, <2>2, <2>3 DEF UploadInv
<1>4. WholeInv'
  BY BecomesIs DEF WholeInv
<1>5. ListInv'
  <2>1. pc[h] \notin {"list", "read"} /\ pc'[h] \notin {"list", "read"}
    BY <1>1
  <2>2. pc'[h] # "clear" => listing'[h] = NoListing
    BY <1>1 DEF FolderInv, ListInv
  <2> QED
    BY <1>1, <2>1, <2>2, ListersLook
<1> QED
  BY <1>2, <1>3, <1>4, <1>5 DEF FolderInv

(* A file that loses paths, or a writer that goes on to link or fails. *)
LEMMA FileShrinks ==
    ASSUME FilesShape, NEW h \in Helpers, NEW f \in File, NEW g \in File, FileOK(f),
           g.paths \subseteq f.paths, g.pieces = f.pieces, ~g.spoiled => ~f.spoiled,
           g.writers \subseteq f.writers, f.writers \subseteq g.writers \cup {h},
           UNCHANGED <<upload, ttbl>>, \A k \in Helpers \ {h} : pc'[k] = pc[k],
           h \in g.writers => pc'[h] = "write",
           pc'[h] = "write" => pc[h] = "write" /\ (h \in f.writers => h \in g.writers),
           pc[h] = "unlink" /\ pc'[h] # "unlink" => Partial(upload[h].name) \notin g.paths
    PROVE  FileOK(g)'
<1>1. f.writers \subseteq Helpers
  BY DEF File
<1>2. \A x, y \in Names : Partial(x) \in g.paths /\ Partial(y) \in g.paths => x = y
  BY DEF FileOK
<1>3. \A k \in g.writers : /\ pc'[k] = "write"
                           /\ \A x \in Names : Partial(x) \in g.paths => x = upload'[k].name
  BY <1>1 DEF FileOK
<1>4. Published(g) => Published(f)
  BY DEF Published
<1>5. ASSUME ~g.spoiled
      PROVE  Sound(g)'
  <2>1. Sound(f)
    BY <1>5 DEF FileOK
  <2>2. \A n \in Names : Partial(n) \in g.paths /\ Finishing(n) => Finishing(n)'
    BY DEF Finishing, FilesShape
  <2>3. \A k \in g.writers : k \in ttbl' /\ 0 .. upload'[k].pos - 1 \subseteq g.pieces
    BY <2>1 DEF Sound
  <2>4. \A n \in Names : Partial(n) \in g.paths =>
           /\ Published(g) => Finishing(n)'
           /\ \A k \in ttbl' : pc'[k] = "write" /\ upload'[k].name = n => k \in g.writers
    BY <1>4, <2>1, <2>2 DEF Sound, FilesShape
  <2>5. Published(g)' <=> Published(g)
    BY DEF Published, Final
  <2> QED
    BY <1>4, <2>1, <2>3, <2>4, <2>5 DEF Sound, Partial, Pieces
<1> QED
  BY <1>2, <1>3, <1>5 DEF FileOK, Partial

LEMMA UnlinkedFiles ==
    ASSUME NEW fs, fs \subseteq File, NEW p, NEW g \in Unlinked(p, fs)
    PROVE  \E f \in fs :
               /\ g.paths = f.paths \ {p} /\ g.writers = f.writers /\ g.pieces = f.pieces
               /\ g.spoiled = f.spoiled /\ g \in File
<1>1. \A f \in fs : LET n == [f EXCEPT !.paths = @ \ {p}] IN
          /\ n.paths = f.paths \ {p} /\ n.writers = f.writers /\ n.pieces = f.pieces
          /\ n.spoiled = f.spoiled /\ n \in File
  BY DEF File
<1> QED
  BY <1>1 DEF Unlinked

LEMMA ClosedFiles ==
    ASSUME NEW fs, fs \subseteq File, NEW h, NEW g \in Closed(h, fs)
    PROVE  \E f \in fs :
               /\ g.paths = f.paths /\ g.writers = f.writers \ {h} /\ g.pieces = f.pieces
               /\ g.spoiled = f.spoiled /\ g \in File
<1>1. \A f \in fs : LET n == [f EXCEPT !.writers = @ \ {h}] IN
          /\ n.paths = f.paths /\ n.writers = f.writers \ {h} /\ n.pieces = f.pieces
          /\ n.spoiled = f.spoiled /\ n \in File
  BY DEF File
<1> QED
  BY <1>1 DEF Closed

LEMMA LinkedFiles ==
    ASSUME NEW fs, fs \subseteq File, NEW p, NEW q \in Paths, NEW g \in Linked(p, q, fs)
    PROVE  \E f \in fs :
               /\ g.paths = IF p \in f.paths THEN f.paths \cup {q} ELSE f.paths
               /\ g.writers = f.writers /\ g.pieces = f.pieces
               /\ g.spoiled = f.spoiled /\ g \in File
<1>1. \A f \in fs : LET n == [f EXCEPT !.paths = IF p \in @ THEN @ \cup {q} ELSE @] IN
          /\ n.paths = IF p \in f.paths THEN f.paths \cup {q} ELSE f.paths
          /\ n.writers = f.writers /\ n.pieces = f.pieces
          /\ n.spoiled = f.spoiled /\ n \in File
  BY DEF File
<1> QED
  BY <1>1 DEF Linked

(* What stays as it was for everybody but h, who is not at a file. *)
FolderStays(h) ==
    /\ UNCHANGED <<folder, pc, upload, ttbl>>
    /\ pc[h] \in {"idle", "clear"}
    /\ listing' \in [Helpers -> [unread : SUBSET Paths, entries : SUBSET Paths, room : Nat]]
    /\ \A g \in Helpers \ {h} : listing'[g] = listing[g]
    /\ pc[h] # "clear" => listing'[h] = listing[h]

LEMMA FilesMove ==
    ASSUME FolderInv, NEW h \in Helpers, FolderStays(h), NEW fs, fs \subseteq File, Becomes(fs),
           Apart(fs), \A f \in fs : FileOK(f), NEW q, Present(fs) \subseteq Present(files) \cup {q}
    PROVE  FolderInv'
<1>1. \A f \in fs : FileOK(f)'
  <2> SUFFICES ASSUME NEW f \in fs
               PROVE  FileOK(f)'
    OBVIOUS
  <2>1. f.writers \subseteq Helpers
    BY DEF File
  <2>2. FileOK(f)
    OBVIOUS
  <2> QED
    BY <2>1, <2>2, FileShrinks DEF FolderStays, FolderInv, FileOK
<1>2. /\ pc' = [pc EXCEPT ![h] = pc[h]]
      /\ pc[h] \in {"idle", "clear", "write", "unlink", "remove"}
  BY DEF FolderStays, FolderInv, FilesShape
<1>3. upload' \in [Helpers -> [name : Names \cup {NoName}, mode : BOOLEAN,
                               offset : 0 .. FileSize, pos : 0 .. FileSize]]
  BY DEF FolderStays, FolderInv, FilesShape
<1> QED
  BY <1>1, <1>2, <1>3, FilesBecome DEF FolderStays

LEMMA NowStays ==
    ASSUME FolderInv, NEW h \in Helpers, pc[h] = "idle", UNCHANGED <<folder, pc, upload, ttbl, listing>>
    PROVE  FolderStays(h)
BY DEF FolderStays, FolderInv, FilesShape

LEMMA UnlinkedOK ==
    ASSUME FolderInv, NEW fs, fs \subseteq File, \A f \in fs : FileOK(f), NEW p
    PROVE  \A g \in Unlinked(p, fs) : FileOK(g)
<1> SUFFICES ASSUME NEW g \in Unlinked(p, fs)
             PROVE  FileOK(g)
  OBVIOUS
<1>1. PICK f \in fs : /\ g.paths = f.paths \ {p} /\ g.writers = f.writers /\ g.pieces = f.pieces
                      /\ g.spoiled = f.spoiled /\ g \in File
  BY UnlinkedFiles
<1>2. FileOK(f)
  OBVIOUS
<1>3. Published(g) => Published(f)
  BY <1>1 DEF Published
<1>4. Sound(f) => Sound(g)
  BY <1>1, <1>3 DEF Sound
<1> QED
  BY <1>1, <1>2, <1>4 DEF FileOK

LEMMA txn_deleteStep ==
    ASSUME FolderInv, NEW h \in Helpers, NEW p, txn_delete(h, p)
    PROVE  FolderInv'
<1>1. /\ Becomes(Unlinked(p, files))
      /\ pc[h] = "idle" /\ UNCHANGED <<folder, pc, upload, ttbl, listing>>
  BY DEF txn_delete
<1>2. files \subseteq File /\ Apart(files) /\ \A f \in files : FileOK(f)
  BY DEF FolderInv, FilesShape, WholeInv
<1>3. /\ Unlinked(p, files) \subseteq File /\ Apart(Unlinked(p, files))
      /\ Present(Unlinked(p, files)) \subseteq Present(files) \cup {p}
  BY <1>2, UnlinkedIs
<1>4. \A f \in Unlinked(p, files) : FileOK(f)
  BY <1>2, UnlinkedOK
<1> QED
  BY <1>1, <1>3, <1>4, NowStays, FilesMove

LEMMA RemoveEntryStep ==
    ASSUME FolderInv, NEW h \in Helpers, RemoveEntry(h)
    PROVE  FolderInv'
<1>1. PICK p : /\ Becomes(Unlinked(p, files))
               /\ listing' = [listing EXCEPT ![h].unread = listing[h].unread \ {p}]
  BY DEF RemoveEntry, FolderInv, FilesShape
<1>2. files \subseteq File /\ Apart(files) /\ \A f \in files : FileOK(f)
  BY DEF FolderInv, FilesShape, WholeInv
<1>3. /\ Unlinked(p, files) \subseteq File /\ Apart(Unlinked(p, files))
      /\ Present(Unlinked(p, files)) \subseteq Present(files) \cup {p}
  BY <1>2, UnlinkedIs
<1>4. \A f \in Unlinked(p, files) : FileOK(f)
  BY <1>2, UnlinkedOK
<1>5. FolderStays(h)
  <2>1. pc[h] = "clear" /\ UNCHANGED <<folder, pc, upload, ttbl>>
    BY DEF RemoveEntry
  <2> QED
    BY <1>1, <2>1 DEF FolderStays, FolderInv, FilesShape
<1> QED
  BY <1>1, <1>3, <1>4, <1>5, FilesMove

LEMMA txn_move_inStep ==
    ASSUME FolderInv, NEW h \in Helpers, NEW p \in Paths, ~p.partial, txn_move_in(h, p)
    PROVE  FolderInv'
<1> DEFINE new == [paths |-> {p}, writers |-> {}, pieces |-> Pieces, spoiled |-> FALSE]
           rest == Unlinked(p, files)
<1>1. /\ Becomes(rest \cup {new})
      /\ pc[h] = "idle" /\ UNCHANGED <<folder, pc, upload, ttbl, listing>>
  BY Zenon DEF txn_move_in
<1>2. files \subseteq File /\ Apart(files) /\ \A f \in files : FileOK(f)
  BY DEF FolderInv, FilesShape, WholeInv
<1>3. /\ rest \subseteq File /\ Apart(rest)
      /\ Present(rest) = Present(files) \ {p}
  BY <1>2, UnlinkedIs
<1>4. \A f \in rest : FileOK(f)
  BY <1>2, UnlinkedOK
<1>5. /\ new \in File /\ new.paths = {p} /\ new.writers = {} /\ new.pieces = Pieces
  BY DEF File
<1> HIDE DEF new, rest
<1>6. FileOK(new)
  <2>1. \A n \in Names : Partial(n) \notin new.paths
    BY <1>5, PathKinds
  <2>2. \A k \in Pieces : 0 .. k \subseteq Pieces
    BY SizeAssumption DEF Pieces
  <2>3. Sound(new)
    BY <1>5, <2>1, <2>2 DEF Sound
  <2> QED
    BY <1>5, <2>1, <2>3 DEF FileOK
<1>7. Apart(rest \cup {new})
  BY <1>3, <1>5, PresentIs DEF Apart
<1>8. Present(rest \cup {new}) \subseteq Present(files) \cup {p}
  <2>1. \A r \in Present(rest \cup {new}) : r \in Present(rest) \cup {p}
    BY <1>5, PresentIs
  <2> QED
    BY <1>3, <2>1
<1>9. rest \cup {new} \subseteq File /\ \A f \in rest \cup {new} : FileOK(f)
  BY <1>3, <1>4, <1>5, <1>6
<1> QED
  BY <1>1, <1>7, <1>8, <1>9, NowStays, FilesMove

LEMMA txn_renameStep ==
    ASSUME FolderInv, NEW h \in Helpers, NEW p \in Paths, NEW q \in Paths,
           ~p.partial, ~q.partial, txn_rename(h, p, q)
    PROVE  FolderInv'
<1> DEFINE a == Unlinked(q, files)
           b == Linked(p, q, a)
           c == Unlinked(p, b)
<1>1. /\ Becomes(c)
      /\ pc[h] = "idle" /\ UNCHANGED <<folder, pc, upload, ttbl, listing>>
  BY DEF txn_rename
<1>2. files \subseteq File /\ Apart(files) /\ \A f \in files : FileOK(f)
  BY DEF FolderInv, FilesShape, WholeInv
<1>3. /\ a \subseteq File /\ Apart(a) /\ Present(a) = Present(files) \ {q}
      /\ \A f \in a : FileOK(f)
  BY <1>2, UnlinkedIs, UnlinkedOK
<1> HIDE DEF a
<1>4. /\ b \subseteq File /\ Apart(b)
      /\ Present(b) \subseteq Present(a) \cup {q}
  BY <1>3, LinkedIs
<1>5. \A g \in b : FileOK(g)
  <2> SUFFICES ASSUME NEW g \in b
               PROVE  FileOK(g)
    OBVIOUS
  <2>1. PICK f \in a : /\ g.paths = IF p \in f.paths THEN f.paths \cup {q} ELSE f.paths
                       /\ g.writers = f.writers /\ g.pieces = f.pieces
                       /\ g.spoiled = f.spoiled /\ g \in File
    BY <1>3, LinkedFiles
  <2>2. FileOK(f)
    BY <1>3
  <2>3. \A n \in Names : Partial(n) \in g.paths <=> Partial(n) \in f.paths
    BY <2>1, PathKinds
  <2>4. p.name \in Names /\ p = Final(p.name)
    BY DEF Paths, Final
  <2>5. Published(g) => Published(f)
    BY <2>1, <2>4 DEF Published
  <2>6. Sound(f) => Sound(g)
    BY <2>1, <2>3, <2>5 DEF Sound
  <2> QED
    BY <2>1, <2>2, <2>3, <2>6 DEF FileOK
<1> HIDE DEF b
<1>6. /\ c \subseteq File /\ Apart(c)
      /\ Present(c) = Present(b) \ {p}
      /\ \A f \in c : FileOK(f)
  BY <1>4, <1>5, UnlinkedIs, UnlinkedOK
<1> HIDE DEF c
<1>7. Present(c) \subseteq Present(files) \cup {q}
  BY <1>3, <1>4, <1>6
<1> QED
  BY <1>1, <1>6, <1>7, NowStays, FilesMove
-----------------------------------------------------------------------------
(* What an upload does to its file. *)

(* From a step of h that changes only the files, its place and its position. *)
LEMMA UploadGoes ==
    ASSUME FolderInv, NEW h \in Helpers, pc[h] \in {"open", "write", "unlink"},
           NEW w \in {"write", "unlink", "remove"}, pc' = [pc EXCEPT ![h] = w],
           UNCHANGED <<folder, ttbl, listing, upload>>,
           NEW fs, fs \subseteq File, Becomes(fs), Apart(fs), \A f \in fs : FileOK(f)',
           NEW q, Present(fs) \subseteq Present(files) \cup {q}
    PROVE  FolderInv'
<1>1. /\ listing' \in [Helpers -> [unread : SUBSET Paths, entries : SUBSET Paths, room : Nat]]
      /\ upload' \in [Helpers -> [name : Names \cup {NoName}, mode : BOOLEAN,
                                  offset : 0 .. FileSize, pos : 0 .. FileSize]]
      /\ w \in {"idle", "clear", "write", "unlink", "remove"}
      /\ folder' = folder /\ ttbl' = ttbl
      /\ w \notin {"idle", "clear"}
  BY DEF FolderInv, FilesShape
<1>2. /\ \A g \in Helpers : upload'[g].name = upload[g].name /\ (g # h => upload'[g].pos = upload[g].pos)
      /\ \A g \in Helpers \ {h} : listing'[g] = listing[g]
      /\ w # "clear" => listing'[h] = listing[h]
  <2>1. upload' = upload /\ listing' = listing
    OBVIOUS
  <2> QED
    BY <2>1
<1>3. (pc[h] \in {"open", "write", "unlink"} /\ w \notin {"idle", "clear"}) \/ (pc[h] \in {"idle", "clear"} /\ w = pc[h])
  OBVIOUS
<1> QED
  BY <1>1, <1>2, <1>3, FilesBecome

LEMMA UnlinkStep ==
    ASSUME FolderInv, NEW h \in Helpers, Unlink(h)
    PROVE  FolderInv'
<1> DEFINE p == Partial(upload[h].name)
           fs == Unlinked(p, files)
<1>1. /\ pc[h] = "unlink" /\ Becomes(fs) /\ pc' = [pc EXCEPT ![h] = "remove"]
      /\ UNCHANGED <<folder, upload, ttbl, listing>>
  BY DEF Unlink, Enters
<1>2. files \subseteq File /\ Apart(files) /\ \A f \in files : FileOK(f)
  BY DEF FolderInv, FilesShape, WholeInv
<1>3. fs \subseteq File /\ Apart(fs) /\ Present(fs) \subseteq Present(files) \cup {p}
  BY <1>2, UnlinkedIs
<1>4. \A g \in fs : FileOK(g)'
  <2> SUFFICES ASSUME NEW g \in fs
               PROVE  FileOK(g)'
    OBVIOUS
  <2>1. PICK f \in files : /\ g.paths = f.paths \ {p} /\ g.writers = f.writers /\ g.pieces = f.pieces
                           /\ g.spoiled = f.spoiled /\ g \in File
    BY <1>2, UnlinkedFiles
  <2>2. FileOK(f) /\ f \in File
    BY <1>2
  <2>3. h \notin f.writers
    BY <1>1, <2>2 DEF FileOK
  <2>4. /\ g.paths \subseteq f.paths /\ g.writers \subseteq f.writers
        /\ f.writers \subseteq g.writers \cup {h} /\ h \notin g.writers
        /\ Partial(upload[h].name) \notin g.paths /\ (~g.spoiled => ~f.spoiled)
    BY <2>1, <2>3
  <2>5. /\ pc'[h] = "remove" /\ \A k \in Helpers \ {h} : pc'[k] = pc[k]
        /\ UNCHANGED <<upload, ttbl>>
        /\ FilesShape
    BY <1>1 DEF FolderInv, FilesShape
  <2> QED
    BY <2>1, <2>2, <2>4, <2>5, FileShrinks
<1> HIDE DEF fs, p
<1> QED
  BY <1>1, <1>3, <1>4, UploadGoes

(* The writer of a file closes it, and links it to no name. *)
LEMMA ClosedOK ==
    ASSUME FolderInv, NEW h \in Helpers, pc[h] = "write", UNCHANGED <<upload, ttbl>>,
           NEW w \in {"unlink", "remove"}, pc' = [pc EXCEPT ![h] = w]
    PROVE  \A g \in Closed(h, files) : g \in File /\ FileOK(g)' /\ h \notin g.writers
<1> SUFFICES ASSUME NEW g \in Closed(h, files)
             PROVE  g \in File /\ FileOK(g)' /\ h \notin g.writers
  OBVIOUS
<1>1. files \subseteq File /\ \A f \in files : FileOK(f)
  BY DEF FolderInv, FilesShape, WholeInv
<1>2. PICK f \in files : /\ g.paths = f.paths /\ g.writers = f.writers \ {h} /\ g.pieces = f.pieces
                         /\ g.spoiled = f.spoiled /\ g \in File
  BY <1>1, ClosedFiles
<1>3. FileOK(f) /\ f \in File
  BY <1>1
<1>4. /\ pc'[h] = w /\ \A k \in Helpers \ {h} : pc'[k] = pc[k]
      /\ FilesShape
  BY DEF FolderInv, FilesShape
<1>5. /\ g.paths \subseteq f.paths /\ g.writers \subseteq f.writers
      /\ f.writers \subseteq g.writers \cup {h} /\ h \notin g.writers
      /\ (~g.spoiled => ~f.spoiled) /\ pc'[h] # "write" /\ pc[h] # "unlink"
  BY <1>2, <1>4
<1>6. FileOK(g)'
  BY <1>2, <1>3, <1>4, <1>5, FileShrinks
<1> QED
  BY <1>2, <1>6

LEMMA UploadFailsStep ==
    ASSUME FolderInv, NEW h \in Helpers, UploadFails(h)
    PROVE  FolderInv'
<1> DEFINE p == Partial(upload[h].name)
           c == Closed(h, files)
           u == Unlinked(p, c)
<1>1. /\ pc[h] = "write" /\ pc' = [pc EXCEPT ![h] = "remove"]
      /\ UNCHANGED <<folder, upload, ttbl, listing>>
      /\ Becomes(c) \/ Becomes(u)
  BY DEF UploadFails, Enters
<1>2. files \subseteq File /\ Apart(files)
  BY DEF FolderInv, FilesShape, WholeInv
<1>3. /\ c \subseteq File /\ Apart(c) /\ Present(c) \subseteq Present(files) \cup {p}
      /\ \A f \in c : FileOK(f)'
  BY <1>1, <1>2, ClosedIs, ClosedOK
<1>4. /\ u \subseteq File /\ Apart(u) /\ Present(u) \subseteq Present(files) \cup {p}
  BY <1>3, UnlinkedIs
<1>5. \A f \in u : FileOK(f)'
  <2> SUFFICES ASSUME NEW g \in u
               PROVE  FileOK(g)'
    OBVIOUS
  <2>1. PICK f \in c : /\ g.paths = f.paths \ {p} /\ g.writers = f.writers /\ g.pieces = f.pieces
                       /\ g.spoiled = f.spoiled /\ g \in File
    BY <1>3, UnlinkedFiles
  <2>2. FileOK(f)'
    BY <1>3
  <2>3. Published(g)' => Published(f)'
    BY <2>1 DEF Published, Final
  <2>4. Sound(f)' => Sound(g)'
    BY <2>1, <2>3 DEF Sound, Partial
  <2> QED
    BY <2>1, <2>2, <2>4 DEF FileOK, Partial
<1> HIDE DEF p, c, u
<1>6. CASE Becomes(c)
  BY <1>1, <1>3, <1>6, UploadGoes
<1>7. CASE Becomes(u)
  BY <1>1, <1>4, <1>5, <1>7, UploadGoes
<1> QED
  BY <1>1, <1>6, <1>7

(* The file that h gives its name: it has all of its pieces, if h has not been *)
(* cancelled.                                                                  *)
LEMMA LinkedOK ==
    ASSUME FolderInv, NEW h \in Helpers, NEW f \in files, NEW g \in File,
           pc[h] = "write", upload[h].pos = FileSize, pc' = [pc EXCEPT ![h] = "unlink"], UNCHANGED <<upload, ttbl>>,
           Partial(upload[h].name) \in f.paths,
           g.paths = f.paths \cup {Final(upload[h].name)}, g.writers = f.writers \ {h},
           g.pieces = f.pieces, ~g.spoiled => ~f.spoiled /\ h \in ttbl
    PROVE  FileOK(g)'
<1> DEFINE n == upload[h].name
<1>1. /\ f \in File /\ FileOK(f) /\ n \in Names
  BY DEF FolderInv, FilesShape, WholeInv, UploadInv
<1>2. /\ pc'[h] = "unlink" /\ \A k \in Helpers \ {h} : pc'[k] = pc[k]
      /\ f.writers \subseteq Helpers
  BY <1>1 DEF FolderInv, FilesShape, File
<1>3. \A x \in Names : Partial(x) \in g.paths <=> Partial(x) \in f.paths
  BY <1>1, PathKinds
<1>4. \A x \in Names : Partial(x) \in g.paths => x = n
  BY <1>1, <1>3 DEF FileOK
<1>5. \A k \in g.writers : /\ pc'[k] = "write"
                           /\ \A x \in Names : Partial(x) \in g.paths => x = upload'[k].name
  BY <1>1, <1>2, <1>3 DEF FileOK
<1>6. ASSUME ~g.spoiled
      PROVE  Sound(g)'
  <2>1. Sound(f) /\ h \in ttbl
    BY <1>1, <1>6 DEF FileOK
  <2>2. h \in f.writers
    BY <1>1, <2>1 DEF Sound
  <2>3. g.pieces = Pieces
    BY <1>1, <2>1, <2>2 DEF Sound, Pieces, File
  <2>4. \A k \in g.writers : k \in ttbl' /\ 0 .. upload'[k].pos - 1 \subseteq g.pieces
    BY <2>1 DEF Sound
  <2>5. \A x \in Names : Partial(x) \in g.paths => Finishing(x)'
    BY <1>2, <1>4, <2>1 DEF Finishing
  <2>6. \A x \in Names : Partial(x) \in g.paths =>
            \A k \in ttbl' : pc'[k] = "write" /\ upload'[k].name = x => k \in g.writers
    BY <1>4, <1>1, <1>2, <2>1 DEF Sound, FolderInv, FilesShape
  <2>7. \A k \in g.pieces : 0 .. k \subseteq g.pieces
    BY <2>3, SizeAssumption DEF Pieces
  <2> HIDE DEF n
  <2> QED
    BY <2>3, <2>4, <2>5, <2>6, <2>7 DEF Sound, Partial, Pieces
<1> QED
  BY <1>4, <1>5, <1>6 DEF FileOK, Partial

LEMMA LinkStep ==
    ASSUME FolderInv, NEW h \in Helpers, Link(h)
    PROVE  FolderInv'
<1> DEFINE n == upload[h].name
           p == Partial(n)
           q == Final(n)
           c == Closed(h, files)
           mark == h \notin ttbl
           M(f) == [f EXCEPT !.spoiled = @ \/ (mark /\ p \in f.paths)]
           s == {M(f) : f \in c}
           fs == Linked(p, q, s)
<1>1. /\ pc[h] = "write" /\ upload[h].pos = FileSize /\ pc' = [pc EXCEPT ![h] = "unlink"]
      /\ UNCHANGED <<folder, upload, ttbl, listing>>
      /\ Becomes(c) \/ (Becomes(fs) /\ ~Exists(q))
  BY DEF Link, Enters
<1>2. files \subseteq File /\ Apart(files) /\ n \in Names
  BY <1>1 DEF FolderInv, FilesShape, WholeInv, UploadInv
<1>3. /\ c \subseteq File /\ Apart(c) /\ Present(c) = Present(files)
      /\ \A f \in c : FileOK(f)'
  BY <1>1, <1>2, ClosedIs, ClosedOK
<1>4. CASE Becomes(c)
  <2>1. Present(c) \subseteq Present(files) \cup {p}
    BY <1>3
  <2> HIDE DEF p, c
  <2> QED
    BY <1>1, <1>3, <1>4, <2>1, UploadGoes
<1>5. CASE Becomes(fs) /\ ~Exists(q)
  <2>1. \A f \in c :
            /\ M(f) \in File /\ M(f).paths = f.paths /\ M(f).writers = f.writers /\ M(f).pieces = f.pieces
            /\ (~M(f).spoiled => ~f.spoiled /\ (p \in f.paths => h \in ttbl))
    <3> SUFFICES ASSUME NEW f \in c
                 PROVE  /\ M(f) \in File /\ M(f).paths = f.paths
                        /\ M(f).writers = f.writers /\ M(f).pieces = f.pieces
                        /\ (~M(f).spoiled => ~f.spoiled /\ (p \in f.paths => h \in ttbl))
      OBVIOUS
    <3> DEFINE b == f.spoiled \/ (mark /\ p \in f.paths)
    <3>1. f \in File /\ b \in BOOLEAN
      BY <1>3
    <3>2. ~b => ~f.spoiled /\ (p \in f.paths => h \in ttbl)
      BY <3>1
    <3>3. M(f) = [f EXCEPT !.spoiled = b]
      OBVIOUS
    <3> HIDE DEF M, b, p, c, mark
    <3>4. /\ M(f) \in File /\ M(f).paths = f.paths
          /\ M(f).writers = f.writers /\ M(f).pieces = f.pieces /\ M(f).spoiled = b
      BY <3>1, <3>3 DEF File
    <3> QED
      BY <3>2, <3>4
  <2>2. \A m \in s : \E f \in c :
            /\ m \in File /\ m.paths = f.paths /\ m.writers = f.writers /\ m.pieces = f.pieces
            /\ (~m.spoiled => ~f.spoiled /\ (p \in f.paths => h \in ttbl))
    <3> HIDE DEF M, p, c
    <3> QED
      BY <2>1
  <2>3. s \subseteq File /\ Present(s) = Present(c) /\ Apart(s)
    <3>1. s = {M(f) : f \in c} /\ \A f \in c : M(f).paths = f.paths /\ M(f) \in File
      BY <2>1
    <3> HIDE DEF M, c, s
    <3>2. \A r : r \in Present(s) <=> r \in Present(c)
      BY <3>1, PresentIs
    <3>3. Apart(s)
      BY <1>3, <3>1 DEF Apart
    <3> QED
      BY <3>1, <3>2, <3>3
  <2>4. q \in Paths /\ q \notin Present(s)
    BY <1>2, <1>3, <1>5, <2>3, PathKinds DEF Exists
  <2>5. /\ fs \subseteq File /\ Apart(fs)
        /\ Present(fs) \subseteq Present(files) \cup {q}
    <3> HIDE DEF s, p, q
    <3> QED
      BY <1>3, <2>3, <2>4, LinkedIs
  <2>6. \A g \in fs : FileOK(g)'
    <3> SUFFICES ASSUME NEW g \in fs
                 PROVE  FileOK(g)'
      OBVIOUS
    <3>1. PICK m \in s : /\ g.paths = IF p \in m.paths THEN m.paths \cup {q} ELSE m.paths
                         /\ g.writers = m.writers /\ g.pieces = m.pieces
                         /\ g.spoiled = m.spoiled /\ g \in File
      <4> HIDE DEF s, p, q
      <4> QED
        BY <2>3, <2>4, LinkedFiles
    <3>2. PICK k \in c : /\ m.paths = k.paths /\ m.writers = k.writers /\ m.pieces = k.pieces
                         /\ (~m.spoiled => ~k.spoiled /\ (p \in k.paths => h \in ttbl))
      <4> HIDE DEF s, p, c
      <4> QED
        BY <2>2
    <3>3. PICK f \in files : /\ k.paths = f.paths /\ k.writers = f.writers \ {h} /\ k.pieces = f.pieces
                             /\ k.spoiled = f.spoiled /\ k \in File
      <4> HIDE DEF p
      <4> QED
        BY <1>2, ClosedFiles
    <3>4. ~g.spoiled => ~f.spoiled /\ (p \in f.paths => h \in ttbl)
      <4> HIDE DEF p, c, s
      <4> QED
        BY <3>1, <3>2, <3>3
    <3>5. CASE p \in f.paths
      <4>1. g.paths = f.paths \cup {q} /\ g.writers = f.writers \ {h} /\ g.pieces = f.pieces
        BY <3>1, <3>2, <3>3, <3>5
      <4> QED
        BY <1>1, <3>1, <3>4, <3>5, <4>1, LinkedOK
    <3>6. CASE p \notin f.paths
      <4>1. g.paths = f.paths /\ g.writers = f.writers \ {h} /\ g.pieces = f.pieces
        BY <3>1, <3>2, <3>3, <3>6
      <4>2. FileOK(f) /\ f \in File
        BY DEF FolderInv, FilesShape, WholeInv
      <4>3. /\ pc'[h] = "unlink" /\ \A l \in Helpers \ {h} : pc'[l] = pc[l]
            /\ FilesShape
        BY <1>1 DEF FolderInv, FilesShape
      <4>4. /\ g.paths \subseteq f.paths /\ g.writers \subseteq f.writers
            /\ f.writers \subseteq g.writers \cup {h} /\ h \notin g.writers
            /\ (~g.spoiled => ~f.spoiled) /\ pc'[h] # "write" /\ pc[h] # "unlink"
        BY <1>1, <3>4, <4>1, <4>3
      <4> QED
        BY <1>1, <3>1, <4>1, <4>2, <4>3, <4>4, FileShrinks
    <3> QED
      BY <3>5, <3>6
  <2> HIDE DEF fs, q
  <2> QED
    BY <1>1, <1>5, <2>5, <2>6, UploadGoes
<1> QED
  BY <1>1, <1>4, <1>5

(* The files that h does not open: none that is not spoiled waits for h.       *)
LEMMA OthersAtOpen ==
    ASSUME FolderInv, NEW h \in Helpers, pc[h] = "open", pc' = [pc EXCEPT ![h] = "write"], UNCHANGED ttbl,
           \A k \in Helpers : upload'[k].name = upload[k].name /\ (k # h => upload'[k].pos = upload[k].pos),
           NEW f \in files, Partial(upload[h].name) \notin f.paths
    PROVE  FileOK(f)'
<1>1. /\ f \in File /\ FileOK(f) /\ upload[h].name \in Names
      /\ f.writers \subseteq Helpers
  BY DEF FolderInv, FilesShape, WholeInv, UploadInv, File
<1>2. pc'[h] = "write" /\ \A k \in Helpers \ {h} : pc'[k] = pc[k]
  BY DEF FolderInv, FilesShape
<1>3. h \notin f.writers
  BY <1>1 DEF FileOK
<1>4. \A k \in f.writers : /\ pc'[k] = "write"
                           /\ \A x \in Names : Partial(x) \in f.paths => x = upload'[k].name
  BY <1>1, <1>2 DEF FileOK
<1>5. ASSUME ~f.spoiled
      PROVE  Sound(f)'
  <2>1. Sound(f)
    BY <1>1, <1>5 DEF FileOK
  <2>2. \A n : Finishing(n) => Finishing(n)'
    BY <1>2 DEF Finishing, FolderInv, FilesShape
  <2>3. \A k \in f.writers : k \in ttbl' /\ 0 .. upload'[k].pos - 1 \subseteq f.pieces
    BY <1>1, <1>3, <2>1 DEF Sound
  <2>4. \A n \in Names : Partial(n) \in f.paths =>
           \A k \in ttbl' : pc'[k] = "write" /\ upload'[k].name = n => k \in f.writers
    BY <1>2, <2>1 DEF Sound, FolderInv, FilesShape
  <2>5. Published(f)' <=> Published(f)
    BY DEF Published, Final
  <2> QED
    BY <2>1, <2>2, <2>3, <2>4, <2>5 DEF Sound, Partial, Pieces
<1> QED
  BY <1>1, <1>4, <1>5 DEF FileOK, Partial

(* The file that h opens: nobody else in the table has it open, and it has no  *)
(* other name.                                                                 *)
LEMMA OpenedOK ==
    ASSUME FolderInv, NEW h \in Helpers, pc[h] = "open", pc' = [pc EXCEPT ![h] = "write"], UNCHANGED ttbl,
           \A k \in Helpers : upload'[k].name = upload[k].name /\ (k # h => upload'[k].pos = upload[k].pos),
           NEW f \in files, NEW g \in File, Partial(upload[h].name) \in f.paths,
           g.paths = f.paths, g.writers = f.writers \cup {h}, ~g.spoiled => ~f.spoiled /\ h \in ttbl,
           ~g.spoiled => /\ 0 .. upload'[h].pos - 1 \subseteq g.pieces
                         /\ \A k \in g.pieces : 0 .. k \subseteq g.pieces
    PROVE  FileOK(g)'
<1>1. /\ f \in File /\ FileOK(f) /\ upload[h].name \in Names
      /\ f.writers \subseteq Helpers
  BY DEF FolderInv, FilesShape, WholeInv, UploadInv, File
<1>2. pc'[h] = "write" /\ \A k \in Helpers \ {h} : pc'[k] = pc[k]
  BY DEF FolderInv, FilesShape
<1>3. \A x \in Names : Partial(x) \in g.paths => x = upload[h].name
  BY <1>1 DEF FileOK
<1>4. \A k \in g.writers : /\ pc'[k] = "write"
                           /\ \A x \in Names : Partial(x) \in g.paths => x = upload'[k].name
  BY <1>1, <1>2, <1>3 DEF FileOK
<1>5. ASSUME ~g.spoiled
      PROVE  Sound(g)'
  <2>1. Sound(f) /\ h \in ttbl
    BY <1>1, <1>5 DEF FileOK
  <2>2. \A k \in ttbl : upload[k].name = upload[h].name => k = h
    BY <2>1 DEF FolderInv, UploadInv
  <2>3. f.writers \subseteq {h}
    BY <1>1, <2>1, <2>2 DEF FileOK, Sound
  <2>4. ~Finishing(upload[h].name)
    BY <2>2 DEF Finishing
  <2>5. ~Published(f)
    BY <1>1, <2>1, <2>4 DEF Sound
  <2>6. ~Published(g)'
    BY <2>5 DEF Published, Final
  <2>7. \A k \in g.writers : k \in ttbl' /\ 0 .. upload'[k].pos - 1 \subseteq g.pieces
    BY <1>5, <2>1, <2>3
  <2>8. \A x \in Names : Partial(x) \in g.paths =>
            \A k \in ttbl' : pc'[k] = "write" /\ upload'[k].name = x => k \in g.writers
    BY <1>3, <2>2 DEF FolderInv, FilesShape
  <2> QED
    BY <1>5, <2>6, <2>7, <2>8 DEF Sound, Partial, Pieces
<1> QED
  BY <1>3, <1>4, <1>5 DEF FileOK, Partial

(* One file is replaced by another with the same paths. *)
LEMMA FileReplaced ==
    ASSUME FolderInv, NEW f \in files, NEW g \in File, g.paths = f.paths
    PROVE  /\ (files \ {f}) \cup {g} \subseteq File
           /\ Apart((files \ {f}) \cup {g})
           /\ Present((files \ {f}) \cup {g}) \subseteq Present(files)
<1>1. files \subseteq File /\ Apart(files)
  BY DEF FolderInv, FilesShape, WholeInv
<1>2. Apart((files \ {f}) \cup {g})
  <2> SUFFICES ASSUME NEW x \in (files \ {f}) \cup {g}, NEW y \in (files \ {f}) \cup {g},
                      NEW p, p \in x.paths, p \in y.paths
               PROVE  x = y
    BY DEF Apart
  <2>1. CASE x = g /\ y = g
    BY <2>1
  <2>2. CASE x = g /\ y \in files \ {f}
    BY <1>1, <2>2 DEF Apart
  <2>3. CASE y = g /\ x \in files \ {f}
    BY <1>1, <2>3 DEF Apart
  <2>4. CASE x \in files \ {f} /\ y \in files \ {f}
    BY <1>1, <2>4 DEF Apart
  <2> QED
    BY <2>1, <2>2, <2>3, <2>4
<1>3. \A r \in Present((files \ {f}) \cup {g}) : r \in Present(files)
  BY PresentIs
<1> QED
  BY <1>1, <1>2, <1>3

LEMMA OpenPartialStep ==
    ASSUME FolderInv, NEW h \in Helpers, OpenPartial(h)
    PROVE  FolderInv'
<1> DEFINE n == upload[h].name
           p == Partial(n)
           f == At(p)
           late == h \notin ttbl
           old == [f EXCEPT !.writers = @ \cup {h}, !.pieces = {}, !.spoiled = @ \/ late]
           new == [paths |-> {p}, writers |-> {h}, pieces |-> {}, spoiled |-> late]
<1>1. /\ pc[h] = "open" /\ pc' = [pc EXCEPT ![h] = "write"]
      /\ UNCHANGED <<folder, upload, ttbl, listing>>
  BY DEF OpenPartial, Enters
<1>2. \/ Exists(p) /\ Becomes((files \ {f}) \cup {old})
      \/ ~Exists(p) /\ Becomes(files \cup {new})
  BY Zenon DEF OpenPartial
<1>3. /\ files \subseteq File /\ Apart(files) /\ n \in Names /\ p \in Paths /\ upload[h].pos = 0
  BY <1>1, PathKinds DEF FolderInv, FilesShape, WholeInv, UploadInv
<1>4. \A k \in Helpers : upload'[k].name = upload[k].name /\ (k # h => upload'[k].pos = upload[k].pos)
  BY <1>1
<1>5. late \in BOOLEAN /\ (~late => h \in ttbl)
  OBVIOUS
<1>6. CASE Exists(p) /\ Becomes((files \ {f}) \cup {old})
  <2>1. f \in files /\ p \in f.paths
    BY <1>6, AtIs
  <2>2. /\ old \in File /\ old.paths = f.paths /\ old.writers = f.writers \cup {h}
        /\ old.pieces = {} /\ (~old.spoiled => ~f.spoiled /\ h \in ttbl)
    <3> DEFINE b == f.spoiled \/ late
    <3>1. f \in File /\ b \in BOOLEAN /\ (~b => ~f.spoiled /\ h \in ttbl)
      BY <1>3, <1>5, <2>1
    <3>2. old = [f EXCEPT !.writers = @ \cup {h}, !.pieces = {}, !.spoiled = b]
      OBVIOUS
    <3> HIDE DEF old, b, f, late
    <3>3. /\ old \in File /\ old.paths = f.paths /\ old.writers = f.writers \cup {h}
          /\ old.pieces = {} /\ old.spoiled = b
      BY <3>1, <3>2 DEF File
    <3> QED
      BY <3>1, <3>3
  <2> HIDE DEF old
  <2>3. PICK o : o = old
    OBVIOUS
  <2> HIDE DEF f
  <2>4. FileOK(o)'
    <3>1. 0 .. upload'[h].pos - 1 \subseteq o.pieces /\ \A k \in o.pieces : 0 .. k \subseteq o.pieces
      BY <1>1, <1>3, <2>2, <2>3
    <3> QED
      BY <1>1, <1>4, <2>1, <2>2, <2>3, <3>1, OpenedOK
  <2>5. \A g \in files \ {f} : FileOK(g)'
    <3> SUFFICES ASSUME NEW g \in files \ {f}
                 PROVE  FileOK(g)'
      OBVIOUS
    <3>1. p \notin g.paths
      BY <1>3, <2>1 DEF Apart
    <3> QED
      BY <1>1, <1>4, <3>1, OthersAtOpen
  <2>6. /\ (files \ {f}) \cup {o} \subseteq File
        /\ Apart((files \ {f}) \cup {o})
        /\ Present((files \ {f}) \cup {o}) \subseteq Present(files) \cup {p}
    BY <2>1, <2>2, <2>3, FileReplaced
  <2>7. \A g \in (files \ {f}) \cup {o} : FileOK(g)'
    BY <2>4, <2>5
  <2> HIDE DEF p
  <2> QED
    BY <1>1, <1>6, <2>6, <2>7, <2>3, UploadGoes
<1>7. CASE ~Exists(p) /\ Becomes(files \cup {new})
  <2>1. \A g \in files : p \notin g.paths
    BY <1>7, PresentIs DEF Exists
  <2>2. /\ new \in File /\ new.paths = {p} /\ new.writers = {h} /\ new.pieces = {}
        /\ (~new.spoiled => h \in ttbl)
    <3> HIDE DEF late, p
    <3>1. new \in File /\ new.paths = {p} /\ new.writers = {h} /\ new.pieces = {} /\ new.spoiled = late
      BY <1>3, <1>5 DEF File
    <3> QED
      BY <1>5, <3>1
  <2> HIDE DEF new
  <2>3. PICK o : o = new
    OBVIOUS
  <2>4. FileOK(o)'
    <3>1. \A x \in Names : Partial(x) \in o.paths => x = n
      BY <1>3, <2>2, <2>3, PathKinds
    <3>2. ~Published(o)'
      BY <1>3, <2>2, <2>3, PathKinds DEF Published, Final, Partial
    <3>3. pc'[h] = "write"
      BY <1>1 DEF FolderInv, FilesShape
    <3>4. ASSUME ~o.spoiled
          PROVE  Sound(o)'
      <4>1. \A k \in ttbl : upload[k].name = n => k = h
        BY <2>2, <2>3, <3>4 DEF FolderInv, UploadInv
      <4>2. h \in ttbl' /\ upload'[h].pos = 0
        BY <1>1, <1>3, <2>2, <2>3, <3>4
      <4>3. \A k \in o.writers : k \in ttbl' /\ 0 .. upload'[k].pos - 1 \subseteq o.pieces
        BY <2>2, <2>3, <4>2
      <4>4. \A x \in Names : Partial(x) \in o.paths =>
                \A k \in ttbl' : pc'[k] = "write" /\ upload'[k].name = x => k \in o.writers
        BY <1>1, <2>2, <2>3, <3>1, <4>1
      <4> QED
        BY <2>2, <2>3, <3>2, <4>3, <4>4 DEF Sound, Partial
    <3>5. \A k \in o.writers : /\ pc'[k] = "write"
                               /\ \A x \in Names : Partial(x) \in o.paths => x = upload'[k].name
      BY <1>4, <2>2, <2>3, <3>1, <3>3
    <3> QED
      BY <3>1, <3>4, <3>5 DEF FileOK, Partial
  <2>5. \A g \in files : FileOK(g)'
    BY <1>1, <1>4, <2>1, OthersAtOpen
  <2>6. /\ files \cup {o} \subseteq File
        /\ Apart(files \cup {o})
        /\ Present(files \cup {o}) \subseteq Present(files) \cup {p}
    <3>1. \A r \in Present(files \cup {o}) : r \in Present(files) \cup {p}
      BY <2>2, <2>3, PresentIs
    <3>2. o \in File /\ o.paths = {p}
      BY <2>2, <2>3
    <3> HIDE DEF p
    <3>3. Apart(files \cup {o})
      BY <1>3, <2>1, <3>2 DEF Apart
    <3> QED
      BY <1>3, <3>1, <3>2, <3>3
  <2>7. \A g \in files \cup {o} : FileOK(g)'
    BY <2>4, <2>5
  <2> HIDE DEF p
  <2> QED
    BY <1>1, <1>7, <2>6, <2>7, <2>3, UploadGoes
<1> QED
  BY <1>2, <1>6, <1>7

LEMMA OpenResumedStep ==
    ASSUME FolderInv, NEW h \in Helpers, OpenResumed(h)
    PROVE  FolderInv'
<1> DEFINE n == upload[h].name
           p == Partial(n)
           f == At(p)
           late == h \notin ttbl \/ upload[h].offset > Length(f)
           old == [f EXCEPT !.writers = @ \cup {h}, !.spoiled = @ \/ late]
<1>1. /\ pc[h] = "open" /\ pc' = [pc EXCEPT ![h] = "write"]
      /\ UNCHANGED <<folder, ttbl, listing>>
      /\ upload' = [upload EXCEPT ![h].pos = upload[h].offset]
  BY DEF OpenResumed, Enters
<1>2. Exists(p) /\ Becomes((files \ {f}) \cup {old})
  <2>1. [f EXCEPT !.writers = @ \cup {h}, !.spoiled = @ \/ h \notin ttbl \/ upload[h].offset > Length(f)] = old
    <3>1. (f.spoiled \/ h \notin ttbl \/ upload[h].offset > Length(f)) = (f.spoiled \/ late)
      OBVIOUS
    <3> QED
      BY <3>1, Zenon
  <2> QED
    BY <2>1, Zenon DEF OpenResumed
<1>3. /\ files \subseteq File /\ Apart(files) /\ n \in Names /\ p \in Paths
  BY <1>1, PathKinds DEF FolderInv, FilesShape, WholeInv, UploadInv
<1>4. /\ \A k \in Helpers : upload'[k].name = upload[k].name /\ (k # h => upload'[k].pos = upload[k].pos)
      /\ upload'[h].pos = upload[h].offset
      /\ upload' \in [Helpers -> [name : Names \cup {NoName}, mode : BOOLEAN,
                                  offset : 0 .. FileSize, pos : 0 .. FileSize]]
  <2>1. /\ upload \in [Helpers -> [name : Names \cup {NoName}, mode : BOOLEAN,
                                   offset : 0 .. FileSize, pos : 0 .. FileSize]]
        /\ upload' = [upload EXCEPT ![h] = [upload[h] EXCEPT !.pos = upload[h].offset]]
    BY <1>1 DEF FolderInv, FilesShape
  <2>2. PICK r : r = [upload[h] EXCEPT !.pos = upload[h].offset]
    OBVIOUS
  <2>3. /\ r \in [name : Names \cup {NoName}, mode : BOOLEAN,
                  offset : 0 .. FileSize, pos : 0 .. FileSize]
        /\ r.name = upload[h].name /\ r.pos = upload[h].offset
    BY <2>1, <2>2
  <2>4. upload' = [upload EXCEPT ![h] = r]
    BY <2>1, <2>2
  <2>5. upload' \in [Helpers -> [name : Names \cup {NoName}, mode : BOOLEAN,
                                 offset : 0 .. FileSize, pos : 0 .. FileSize]]
    BY <2>1, <2>3, <2>4
  <2>6. upload'[h] = r /\ \A k \in Helpers : k # h => upload'[k] = upload[k]
    BY <2>1, <2>4
  <2> QED
    BY <2>3, <2>5, <2>6
<1>5. late \in BOOLEAN /\ (~late => h \in ttbl /\ ~(upload[h].offset > Length(f)))
  OBVIOUS
<1>6. f \in files /\ p \in f.paths
  BY <1>2, AtIs
<1>7. /\ old \in File /\ old.paths = f.paths /\ old.writers = f.writers \cup {h}
      /\ old.pieces = f.pieces
      /\ (~old.spoiled => ~f.spoiled /\ h \in ttbl /\ ~(upload[h].offset > Length(f)))
  <2> DEFINE b == f.spoiled \/ late
  <2>1. f \in File /\ b \in BOOLEAN
        /\ (~b => ~f.spoiled /\ h \in ttbl /\ ~(upload[h].offset > Length(f)))
    BY <1>3, <1>5, <1>6
  <2>2. old = [f EXCEPT !.writers = @ \cup {h}, !.spoiled = b]
    OBVIOUS
  <2> HIDE DEF old, b, f, late
  <2>3. /\ old \in File /\ old.paths = f.paths /\ old.writers = f.writers \cup {h}
        /\ old.pieces = f.pieces /\ old.spoiled = b
    BY <2>1, <2>2 DEF File
  <2> QED
    BY <2>1, <2>3
<1> HIDE DEF old
<1>8. PICK o : o = old
  OBVIOUS
<1> HIDE DEF f
<1>9. FileOK(o)'
  <2>1. ASSUME ~o.spoiled
        PROVE  /\ 0 .. upload'[h].pos - 1 \subseteq o.pieces
               /\ \A k \in o.pieces : 0 .. k \subseteq o.pieces
    <3>1. Sound(f) /\ f \in File
      BY <1>3, <1>6, <1>7, <1>8, <2>1 DEF FolderInv, WholeInv, FileOK
    <3>2. Length(f) \in 0 .. FileSize /\ 0 .. Length(f) - 1 \subseteq f.pieces
      BY <3>1, LengthIs DEF Sound
    <3>3. upload[h].offset \in 0 .. FileSize /\ ~(upload[h].offset > Length(f))
      BY <1>7, <1>8, <2>1 DEF FolderInv, FilesShape
    <3>4. 0 .. upload[h].offset - 1 \subseteq f.pieces
      BY <3>2, <3>3, SizeAssumption
    <3> QED
      BY <1>4, <1>7, <1>8, <3>1, <3>4 DEF Sound
  <2> QED
    BY <1>1, <1>4, <1>6, <1>7, <1>8, <2>1, OpenedOK
<1>10. \A g \in files \ {f} : FileOK(g)'
  <2> SUFFICES ASSUME NEW g \in files \ {f}
               PROVE  FileOK(g)'
    OBVIOUS
  <2>1. p \notin g.paths
    BY <1>3, <1>6 DEF Apart
  <2> QED
    BY <1>1, <1>4, <2>1, OthersAtOpen
<1>11. /\ (files \ {f}) \cup {o} \subseteq File
       /\ Apart((files \ {f}) \cup {o})
       /\ Present((files \ {f}) \cup {o}) \subseteq Present(files) \cup {p}
  BY <1>6, <1>7, <1>8, FileReplaced
<1>12. /\ \A g \in (files \ {f}) \cup {o} : FileOK(g)'
       /\ Becomes((files \ {f}) \cup {o})
  BY <1>2, <1>8, <1>9, <1>10
<1>13. /\ listing' \in [Helpers -> [unread : SUBSET Paths, entries : SUBSET Paths, room : Nat]]
       /\ \A g \in Helpers \ {h} : listing'[g] = listing[g]
       /\ listing'[h] = listing[h]
       /\ folder' = folder /\ ttbl' = ttbl
  BY <1>1 DEF FolderInv, FilesShape
<1> DEFINE w == "write"
<1>14. /\ w \in {"idle", "clear", "write", "unlink", "remove"} /\ pc' = [pc EXCEPT ![h] = w]
       /\ (pc[h] \in {"open", "write", "unlink"} /\ w \notin {"idle", "clear"}) \/ (pc[h] \in {"idle", "clear"} /\ w = pc[h])
  BY <1>1
<1> HIDE DEF p, w
<1> QED
  BY <1>4, <1>11, <1>12, <1>13, <1>14, FilesBecome

(* Every file changes, and keeps its paths. *)
LEMMA FilesChange ==
    ASSUME FolderInv, NEW m, files' = {m[f] : f \in files},
           \A f \in files : m[f] \in File /\ m[f].paths = f.paths
    PROVE  /\ files' \subseteq File /\ Apart(files)'
           /\ Present(files)' = Present(files)
<1>1. Apart(files)'
  BY DEF FolderInv, WholeInv, Apart
<1>2. Present(files') = Present(files)
  <2>1. \A r : r \in Present(files') <=> r \in Present(files)
    BY PresentIs
  <2> QED
    BY <2>1
<1>3. Present(files)' = Present(files')
  BY DEF Present
<1> QED
  BY <1>1, <1>2, <1>3

LEMMA WritePieceStep ==
    ASSUME FolderInv, NEW h \in Helpers, WritePiece(h)
    PROVE  FolderInv'
<1> DEFINE at == upload[h].pos
           M(f) == [f EXCEPT !.pieces = IF h \in f.writers THEN @ \cup {at} ELSE @]
           m == [f \in files |-> M(f)]
<1>1. /\ pc[h] = "write" /\ at < FileSize /\ files' = {M(f) : f \in files}
      /\ upload' = [upload EXCEPT ![h].pos = at + 1]
      /\ UNCHANGED <<folder, pc, ttbl, listing, seen>>
  BY DEF WritePiece
<1>2. at \in Pieces /\ at + 1 \in 0 .. FileSize /\ at \in Nat
  BY <1>1, SizeAssumption DEF Pieces, FolderInv, FilesShape
<1>3. /\ \A k \in Helpers : upload'[k].name = upload[k].name /\ (k # h => upload'[k].pos = upload[k].pos)
      /\ upload'[h].pos = at + 1
      /\ upload' \in [Helpers -> [name : Names \cup {NoName}, mode : BOOLEAN,
                                  offset : 0 .. FileSize, pos : 0 .. FileSize]]
  <2>1. /\ upload \in [Helpers -> [name : Names \cup {NoName}, mode : BOOLEAN,
                                   offset : 0 .. FileSize, pos : 0 .. FileSize]]
        /\ upload' = [upload EXCEPT ![h] = [upload[h] EXCEPT !.pos = at + 1]]
    BY <1>1 DEF FolderInv, FilesShape
  <2> HIDE DEF at, M, m
  <2>2. PICK r : r = [upload[h] EXCEPT !.pos = at + 1]
    OBVIOUS
  <2>3. /\ r \in [name : Names \cup {NoName}, mode : BOOLEAN,
                  offset : 0 .. FileSize, pos : 0 .. FileSize]
        /\ r.name = upload[h].name /\ r.pos = at + 1
    BY <1>2, <2>1, <2>2
  <2>4. upload' = [upload EXCEPT ![h] = r]
    BY <2>1, <2>2
  <2>5. upload' \in [Helpers -> [name : Names \cup {NoName}, mode : BOOLEAN,
                                 offset : 0 .. FileSize, pos : 0 .. FileSize]]
    BY <2>1, <2>3, <2>4
  <2>6. upload'[h] = r /\ \A k \in Helpers : k # h => upload'[k] = upload[k]
    BY <2>1, <2>4
  <2> QED
    BY <2>3, <2>5, <2>6
<1> HIDE DEF at
<1>4. \A f \in files :
          /\ M(f) \in File /\ M(f).paths = f.paths /\ M(f).writers = f.writers
          /\ M(f).pieces = (IF h \in f.writers THEN f.pieces \cup {at} ELSE f.pieces)
          /\ M(f).spoiled = f.spoiled
  BY <1>2 DEF File, FolderInv, FilesShape
<1> HIDE DEF M
<1>5. /\ files' = {m[f] : f \in files}
      /\ \A f \in files : m[f] \in File /\ m[f].paths = f.paths
  BY <1>1, <1>4
<1> HIDE DEF m
<1>6. /\ files' \subseteq File /\ Apart(files)'
      /\ Present(files)' = Present(files)
  BY <1>5, FilesChange
<1>7. \A g \in files' : FileOK(g)'
  <2> SUFFICES ASSUME NEW f \in files, NEW g, g = M(f)
               PROVE  FileOK(g)'
    BY <1>1
  <2>1. /\ g.paths = f.paths /\ g.writers = f.writers /\ g.spoiled = f.spoiled
        /\ g.pieces = (IF h \in f.writers THEN f.pieces \cup {at} ELSE f.pieces)
        /\ f \in File /\ FileOK(f) /\ f.writers \subseteq Helpers /\ f.pieces \subseteq Pieces
    BY <1>4 DEF File, FolderInv, FilesShape, WholeInv
  <2>2. \A k \in g.writers : /\ pc'[k] = "write"
                             /\ \A x \in Names : Partial(x) \in g.paths => x = upload'[k].name
    BY <1>1, <1>3, <2>1 DEF FileOK
  <2>3. ASSUME ~g.spoiled
        PROVE  Sound(g)'
    <3>1. Sound(f)
      BY <2>1, <2>3 DEF FileOK
    <3>2. /\ \A k \in g.writers : k \in ttbl' /\ 0 .. upload'[k].pos - 1 \subseteq g.pieces
          /\ \A k \in g.pieces : 0 .. k \subseteq g.pieces
      <4>1. CASE h \in f.writers
        <5>1. g.pieces = f.pieces \cup {at} /\ 0 .. at - 1 \subseteq f.pieces
          BY <2>1, <3>1, <4>1 DEF Sound, at
        <5>2. 0 .. at \subseteq g.pieces
          BY <1>2, <5>1
        <5>3. \A k \in g.pieces : 0 .. k \subseteq g.pieces
          BY <3>1, <5>1, <5>2 DEF Sound
        <5>4. upload'[h].pos - 1 = at
          BY <1>2, <1>3
        <5>5. \A k \in g.writers : 0 .. upload'[k].pos - 1 \subseteq g.pieces
          BY <1>3, <2>1, <3>1, <5>1, <5>2, <5>4 DEF Sound
        <5> QED
          BY <1>1, <2>1, <3>1, <5>3, <5>5 DEF Sound
      <4>2. CASE h \notin f.writers
        BY <1>1, <1>3, <2>1, <3>1, <4>2 DEF Sound
      <4> QED
        BY <4>1, <4>2
    <3>3. \A x \in Names : Partial(x) \in g.paths =>
              /\ Published(f) => Finishing(x)'
              /\ \A k \in ttbl' : pc'[k] = "write" /\ upload'[k].name = x => k \in g.writers
      BY <1>1, <1>3, <2>1, <3>1 DEF Sound, Finishing, FolderInv, FilesShape
    <3>4. Published(g)' <=> Published(f)
      BY <2>1 DEF Published, Final
    <3>5. Published(f) => g.pieces = Pieces
      BY <1>2, <2>1, <3>1 DEF Sound
    <3> QED
      BY <3>2, <3>3, <3>4, <3>5 DEF Sound, Partial, Pieces
  <2> QED
    BY <2>1, <2>2, <2>3 DEF FileOK, Partial
<1>8. FilesShape'
  BY <1>1, <1>3, <1>6 DEF FolderInv, FilesShape, File, Paths, Pieces
<1>9. UploadInv'
  BY <1>1, <1>3 DEF FolderInv, FilesShape, UploadInv
<1>10. ListInv'
  <2>1. /\ \A g \in Helpers \ {h} : pc'[g] = pc[g] /\ listing'[g] = listing[g]
        /\ pc[h] \notin {"list", "read"} /\ pc'[h] \notin {"list", "read"}
        /\ listing'[h] = NoListing
    BY <1>1 DEF FolderInv, ListInv
  <2> QED
    BY <1>1, <1>6, <2>1, NoPresent
<1> QED
  BY <1>6, <1>7, <1>8, <1>9, <1>10 DEF FolderInv, WholeInv

LEMMA CancelRunningStep ==
    ASSUME FolderInv, NEW h \in Helpers, CancelRunning(h)
    PROVE  FolderInv'
<1> DEFINE Hand(f) == h \in f.writers \/ (pc[h] = "unlink" /\ Partial(upload[h].name) \in f.paths)
           M(f) == [f EXCEPT !.spoiled = @ \/ Hand(f)]
           m == [f \in files |-> M(f)]
<1>1. /\ h \in ttbl /\ ttbl' = ttbl \ {h}
      /\ UNCHANGED <<folder, pc, upload, listing, seen>>
  BY DEF CancelRunning
<1>2. files' = {M(f) : f \in files}
  BY Zenon DEF CancelRunning, InHand
<1>3. \A f \in files :
          /\ M(f) \in File /\ M(f).paths = f.paths /\ M(f).writers = f.writers /\ M(f).pieces = f.pieces
          /\ (~M(f).spoiled => ~f.spoiled /\ ~Hand(f))
  <2> SUFFICES ASSUME NEW f \in files
               PROVE  /\ M(f) \in File /\ M(f).paths = f.paths /\ M(f).writers = f.writers
                      /\ M(f).pieces = f.pieces
                      /\ (~M(f).spoiled => ~f.spoiled /\ ~Hand(f))
    OBVIOUS
  <2> DEFINE b == f.spoiled \/ Hand(f)
  <2>1. f \in File /\ b \in BOOLEAN /\ (~b => ~f.spoiled /\ ~Hand(f))
    BY DEF FolderInv, FilesShape
  <2>2. M(f) = [f EXCEPT !.spoiled = b]
    OBVIOUS
  <2> HIDE DEF M, b, Hand
  <2>3. /\ M(f) \in File /\ M(f).paths = f.paths /\ M(f).writers = f.writers
        /\ M(f).pieces = f.pieces /\ M(f).spoiled = b
    BY <2>1, <2>2 DEF File
  <2> QED
    BY <2>1, <2>3
<1> HIDE DEF M
<1>4. /\ files' = {m[f] : f \in files}
      /\ \A f \in files : m[f] \in File /\ m[f].paths = f.paths
  BY <1>2, <1>3
<1> HIDE DEF m
<1>5. /\ files' \subseteq File /\ Apart(files)'
      /\ Present(files)' = Present(files)
  BY <1>4, FilesChange
<1>6. \A g \in files' : FileOK(g)'
  <2> SUFFICES ASSUME NEW f \in files, NEW g, g = M(f)
               PROVE  FileOK(g)'
    BY <1>2
  <2>1. /\ g.paths = f.paths /\ g.writers = f.writers /\ g.pieces = f.pieces
        /\ (~g.spoiled => ~f.spoiled /\ ~Hand(f))
        /\ f \in File /\ FileOK(f) /\ f.writers \subseteq Helpers
    BY <1>3 DEF File, FolderInv, FilesShape, WholeInv
  <2>2. \A k \in g.writers : /\ pc'[k] = "write"
                             /\ \A x \in Names : Partial(x) \in g.paths => x = upload'[k].name
    BY <1>1, <2>1 DEF FileOK
  <2>3. ASSUME ~g.spoiled
        PROVE  Sound(g)'
    <3>1. /\ Sound(f) /\ h \notin f.writers
          /\ ~(pc[h] = "unlink" /\ Partial(upload[h].name) \in f.paths)
      BY <2>1, <2>3 DEF FileOK
    <3>2. \A k \in g.writers : k \in ttbl' /\ 0 .. upload'[k].pos - 1 \subseteq g.pieces
      BY <1>1, <2>1, <3>1 DEF Sound
    <3>3. \A x \in Names : Partial(x) \in g.paths =>
              /\ Published(f) => Finishing(x)'
              /\ \A k \in ttbl' : pc'[k] = "write" /\ upload'[k].name = x => k \in g.writers
      BY <1>1, <2>1, <3>1 DEF Sound, Finishing
    <3>4. Published(g)' <=> Published(f)
      BY <2>1 DEF Published, Final
    <3> QED
      BY <2>1, <3>1, <3>2, <3>3, <3>4 DEF Sound, Partial, Pieces
  <2> QED
    BY <2>1, <2>2, <2>3 DEF FileOK, Partial
<1>7. FilesShape'
  BY <1>1, <1>5 DEF FolderInv, FilesShape, File, Paths, Pieces
<1>8. UploadInv'
  BY <1>1 DEF FolderInv, FilesShape, UploadInv
<1>9. ListInv'
  <2>1. /\ \A g \in Helpers \ {h} : pc'[g] = pc[g] /\ listing'[g] = listing[g]
        /\ pc[h] \notin {"list", "read"} /\ pc'[h] \notin {"list", "read"}
        /\ listing'[h] = NoListing
    BY <1>1 DEF FolderInv, UploadInv, ListInv
  <2> QED
    BY <1>1, <1>5, <2>1, NoPresent
<1> QED
  BY <1>5, <1>6, <1>7, <1>8, <1>9 DEF FolderInv, WholeInv
-----------------------------------------------------------------------------
LEMMA FolderInit ==
    ASSUME FilesInit
    PROVE  FolderInv
<1>1. /\ folder = TRUE /\ files = {} /\ ttbl = {}
      /\ pc = [h \in Helpers |-> "idle"]
      /\ upload = [h \in Helpers |-> NoUpload]
      /\ listing = [h \in Helpers |-> NoListing]
      /\ seen = [h \in Helpers |-> NotSeen]
  BY DEF FilesInit
<1>2. /\ NoListing \in [unread : SUBSET Paths, entries : SUBSET Paths, room : Nat]
      /\ NotSeen \in [stays : SUBSET Paths, grown : BOOLEAN]
  BY DEF NoListing, NotSeen
<1>3. Present(files) = {}
  BY <1>1 DEF Present
<1>4. FilesShape
  BY <1>1, <1>2, <1>3, NoUploadIs, FS_EmptySet DEF FilesShape, Points
<1>5. UploadInv
  BY <1>1, NoUploadIs DEF UploadInv
<1>6. WholeInv /\ ListInv
  BY <1>1 DEF WholeInv, Apart, ListInv
<1> QED
  BY <1>4, <1>5, <1>6 DEF FolderInv

LEMMA FolderInductive ==
    ASSUME NamedAreFinal, FolderInv, [FilesNext]_(filesVars)
    PROVE  FolderInv'
<1>1. CASE UNCHANGED filesVars
  <2>1. UNCHANGED <<folder, files, pc, upload, ttbl, listing, seen>>
    BY <1>1 DEF filesVars
  <2>2. Present(files)' = Present(files)
    BY <2>1 DEF Present
  <2>3. FilesShape' /\ UploadInv'
    BY <2>1, <2>2 DEF FolderInv, FilesShape, UploadInv, File, Paths, Pieces
  <2>4. WholeInv'
    <3>1. \A f : Sound(f)' = Sound(f)
      BY <2>1 DEF Sound, Published, Finishing
    <3>2. \A f : FileOK(f)' = FileOK(f)
      BY <2>1, <3>1 DEF FileOK
    <3> QED
      BY <2>1, <3>2 DEF FolderInv, WholeInv, Apart
  <2>5. ListInv'
    BY <2>1, <2>2 DEF FolderInv, ListInv, ListerOK, Counted, NoListing, Paths
  <2> QED
    BY <2>3, <2>4, <2>5 DEF FolderInv
<1>2. ASSUME NEW h \in Helpers, Upload(h)
      PROVE  FolderInv'
  <2>1. ASSUME NEW n \in Names, NEW mode \in BOOLEAN, txn_upload(h, n, mode)
        PROVE  FolderInv'
    BY <2>1, txn_uploadStep
  <2>2. CASE ResumeOffset(h) \/ tfm_add_upload(h) \/ tfm_remove(h) \/ CancelRunning(h)
    BY <2>2, ResumeOffsetStep, tfm_add_uploadStep, tfm_removeStep, CancelRunningStep
  <2>3. CASE OpenPartial(h) \/ OpenResumed(h) \/ WritePiece(h)
    BY <2>3, OpenPartialStep, OpenResumedStep, WritePieceStep
  <2>4. CASE UploadFails(h) \/ Link(h) \/ Unlink(h)
    BY <2>4, UploadFailsStep, LinkStep, UnlinkStep
  <2> QED
    BY <1>2, <2>1, <2>2, <2>3, <2>4 DEF Upload
<1>3. ASSUME NEW h \in Helpers, FileCall(h)
      PROVE  FolderInv'
  <2>1. \A p \in Named : p \in Paths /\ ~p.partial
    BY NamedAssumption DEF NamedAreFinal
  <2>2. ASSUME NEW p \in Named, NEW q \in Named, txn_rename(h, p, q)
        PROVE  FolderInv'
    BY <2>1, <2>2, txn_renameStep
  <2>3. ASSUME NEW p \in Named, txn_move_out(h, p) \/ txn_move_in(h, p) \/ txn_delete(h, p)
        PROVE  FolderInv'
    BY <2>1, <2>3, txn_deleteStep, txn_move_inStep DEF txn_move_out
  <2>4. CASE txn_create_folder(h) \/ f_rmdir_recursive(h) \/ RemoveEntry(h) \/ rmdir_recursive(h)
    BY <2>4, txn_create_folderStep, f_rmdir_recursiveStep, RemoveEntryStep, rmdir_recursiveStep
  <2> QED
    BY <1>3, <2>2, <2>3, <2>4 DEF FileCall
<1>4. ASSUME NEW h \in Helpers, Listing(h)
      PROVE  FolderInv'
  BY <1>4, dir_countStep, OpenFolderStep, ReadEntryStep, ReadNewStep, txn_filelistStep DEF Listing
<1> QED
  BY <1>1, <1>2, <1>3, <1>4 DEF FilesNext

(* A file that has its name is whole, unless a running upload of it was        *)
(* cancelled or resumed behind its end: transfer_handler.c:120-190, under      *)
(* whatever other uploads, renames, deletions and listings do meanwhile.       *)
THEOREM UploadsPublishWholeFiles ==
    NamedAreFinal => (FilesSpec => []PublishedIsWhole)
<1> SUFFICES ASSUME NamedAreFinal
             PROVE  FilesSpec => []PublishedIsWhole
  OBVIOUS
<1>1. FilesInit => FolderInv
  BY FolderInit
<1>2. FolderInv /\ [FilesNext]_(filesVars) => FolderInv'
  BY FolderInductive
<1>3. FolderInv => PublishedIsWhole
  BY DEF FolderInv, WholeInv, FileOK, Sound, Published, PublishedIsWhole
<1> QED
  BY <1>1, <1>2, <1>3, PTL DEF FilesSpec

(* A listing has every file that was there all the time from its count to its  *)
(* reply, unless something was created (fileops.c:226-290).                    *)
THEOREM ListingsAreComplete ==
    NamedAreFinal => (FilesSpec => []ListsWhatStays)
<1> SUFFICES ASSUME NamedAreFinal
             PROVE  FilesSpec => []ListsWhatStays
  OBVIOUS
<1>1. FilesInit => FolderInv
  BY FolderInit
<1>2. FolderInv /\ [FilesNext]_(filesVars) => FolderInv'
  BY FolderInductive
<1>3. FolderInv => ListsWhatStays
  BY DEF FolderInv, ListInv, ListerOK, ListsWhatStays
<1> QED
  BY <1>1, <1>2, <1>3, PTL DEF FilesSpec

-----------------------------------------------------------------------------
(* Collection, the table behind a mutex (Environment = {}), for every number    *)
(* of callers and keys and every array of bucket counts.  TableInv places each  *)
(* node of the table: M are the nodes in the chains, pos where each is in the   *)
(* chain that its key hashes to; a lookup, a traversal and a rebuild are related *)
(* to those places while they are under way.                                    *)

(* n is the node at place p of chain b, or NULL when the chain is no longer. *)
PointsAt(n, b, p, M, pos, count) ==
    IF n = Null THEN \A j \in M : Hash(j, count) = b => pos[j] < p
    ELSE n \in M /\ Hash(n, count) = b /\ pos[n] = p

IsTable(t) == /\ t.count \in Nat \ {0}
              /\ t \in [count : {t.count}, buckets : [0 .. t.count - 1 -> Pointer],
                        next : [Keys -> Pointer]]

(* The chains of t hold the nodes M, each at the place pos in the chain that *)
(* its key hashes to.                                                        *)
Chained(t, M, pos) ==
    /\ IsTable(t) /\ M \subseteq Keys /\ pos \in [Keys -> Nat]
    /\ \A j, k \in M : Hash(j, t.count) = Hash(k, t.count) /\ pos[j] = pos[k] => j = k
    /\ \A k \in M : \A p \in 0 .. pos[k] :
           \E j \in M : Hash(j, t.count) = Hash(k, t.count) /\ pos[j] = p
    /\ \A b \in 0 .. t.count - 1 : PointsAt(t.buckets[b], b, 0, M, pos, t.count)
    /\ \A k \in M : PointsAt(t.next[k], Hash(k, t.count), pos[k] + 1, M, pos, t.count)

(* A lookup on its way has the node before o in n, and the key is not behind. *)
Walking(l, t, M, pos) ==
    /\ IF l.n = Null THEN l.o = t.buckets[Hash(l.key, t.count)]
       ELSE l.n \in M /\ Hash(l.n, t.count) = Hash(l.key, t.count) /\ t.next[l.n] = l.o
    /\ l.key \in M => l.o # Null /\ pos[l.o] <= pos[l.key]
LeavingChain(l, t, M) == l.o = l.key /\ l.o \in M /\ l.n \in M /\ t.next[l.n] = l.o
OutOfChain(l, M) == l.o = l.key /\ l.o \notin M

(* What a traversal has shown: the chains before its own and, there, whatever *)
(* is before its node.                                                        *)
Shown(l, t, M, pos) ==
    /\ l.i \in 0 .. t.count - 1 /\ l.visited \subseteq M
    /\ l.c # Null => l.c \in M /\ Hash(l.c, t.count) = l.i
    /\ \A k \in M :
           Hash(k, t.count) < l.i \/ (Hash(k, t.count) = l.i /\ (l.c = Null \/ pos[k] < pos[l.c]))
           => k \in l.visited

(* A traversal whose callback looks its own node up. *)
LookingUp(l, t, M) ==
    /\ l.i = Hash(l.key, t.count) /\ l.c = l.key /\ l.c \in l.visited
    /\ l.visited \subseteq M \cup {l.key} /\ l.key \in M \cup {l.o}
    /\ \A k \in M : Hash(k, t.count) < l.i => k \in l.visited

LocalInv(l, t, M, pos) ==
    /\ l.pc \in {"walk", "unlink", "relink", "front"} =>
           l.call = "lookup" \/ (l.call = "broadcast" /\ LookingUp(l, t, M))
    /\ l.pc = "walk" => Walking(l, t, M, pos)
    /\ l.pc = "unlink" => LeavingChain(l, t, M)
    /\ l.pc \in {"relink", "front"} => OutOfChain(l, M)
    /\ l.pc = "front" => t.next[l.o] = t.buckets[Hash(l.key, t.count)]
    /\ l.pc \in {"iterate", "callback"} => l.call \in {"iterate", "broadcast"} /\ Shown(l, t, M, pos)
    /\ l.pc = "callback" => l.c \in l.visited

(* The node that a lookup moves, while it is in no chain. *)
Out(l) == IF l.pc \in {"relink", "front"} THEN {l.o} ELSE {}

Entries == Contents \cup Moving

TableShape ==
    /\ n_nodes \in Nat /\ n_buckets \in {Primes[i] : i \in DOMAIN Primes}
    /\ local \in [Callers -> Local]
    /\ \A t \in Callers : local[t].pc # "fault"
    /\ \A t, u \in Callers : local[t].pc # "idle" /\ local[u].pc # "idle" => t = u

TableInv ==
    /\ TableShape
    /\ \E M \in SUBSET Keys : \E pos \in [Keys -> Nat] :
           /\ Chained(Current, M, pos) /\ n_nodes = Cardinality(M \cup Moving)
           /\ \A t \in Callers : LocalInv(local[t], Current, M, pos)


LEMMA HashIs ==
    ASSUME NEW k \in Keys, NEW count \in Nat \ {0}
    PROVE  Hash(k, count) \in 0 .. count - 1
<1>1. k \in Nat
  BY KeysAssumption
<1> QED
  BY <1>1 DEF Hash

(* A recursion over the numbers up to N defines a function. *)
Iteration(f, S, s, G, N) ==
    f \in [0 .. N -> S] /\ f[0] = s /\ \A j \in 1 .. N : f[j] = G[f[j - 1]]

LEMMA Iterates ==
    ASSUME NEW S, NEW s \in S, NEW G \in [S -> S], NEW N \in Nat
    PROVE  \E f : Iteration(f, S, s, G, N)
<1> DEFINE P(m) == \E f : Iteration(f, S, s, G, m)
           bad == {m \in Nat : ~P(m)}
<1>1. SUFFICES ASSUME bad # {} PROVE FALSE
  OBVIOUS
<1>2. PICK m \in bad : \A k \in bad : m <= k
  <2>1. bad \subseteq Nat
    OBVIOUS
  <2> HIDE DEF bad
  <2> QED
    BY <1>1, <2>1, Least
<1>3. m # 0
  <2> DEFINE f == [j \in 0 .. 0 |-> s]
  <2>1. Iteration(f, S, s, G, 0)
    BY DEF Iteration
  <2>2. P(0)
    BY <2>1
  <2> QED
    BY <2>2
<1>4. m \in Nat /\ m - 1 \in Nat /\ ~(m <= m - 1)
  BY <1>3
<1>5. PICK f : Iteration(f, S, s, G, m - 1)
  BY <1>2, <1>4
<1> DEFINE g == [j \in 0 .. m |-> IF j = m THEN G[f[m - 1]] ELSE f[j]]
<1>6. /\ g \in [0 .. m -> S] /\ g[m] = G[f[m - 1]]
      /\ \A j \in 0 .. m - 1 : g[j] = f[j]
  BY <1>4, <1>5 DEF Iteration
<1> HIDE DEF g
<1>7. ASSUME NEW j \in 1 .. m
      PROVE  g[j] = G[g[j - 1]]
  <2>1. j - 1 \in 0 .. m - 1 /\ (j # m => j \in 1 .. m - 1 /\ j \in 0 .. m - 1)
    BY <1>4
  <2> QED
    BY <1>5, <1>6, <2>1 DEF Iteration
<1>8. g[0] = s
  BY <1>4, <1>5, <1>6 DEF Iteration
<1>9. Iteration(g, S, s, G, m)
  BY <1>6, <1>7, <1>8 DEF Iteration
<1> QED
  BY <1>2, <1>9

(* What is true of the first, and of each that follows one of which it is true, *)
(* is true of all.                                                              *)
LEMMA Onward ==
    ASSUME NEW N \in Nat, NEW true \in [0 .. N -> BOOLEAN], true[0],
           \A j \in 1 .. N : true[j - 1] => true[j]
    PROVE  \A j \in 0 .. N : true[j]
<1> DEFINE bad == {j \in 0 .. N : ~true[j]}
<1>1. SUFFICES ASSUME bad # {} PROVE FALSE
  OBVIOUS
<1>2. PICK m \in bad : \A k \in bad : m <= k
  <2>1. bad \subseteq Nat
    OBVIOUS
  <2> HIDE DEF bad
  <2> QED
    BY <1>1, <2>1, Least
<1>3. m \in 1 .. N /\ m - 1 \in 0 .. N /\ ~(m <= m - 1)
  OBVIOUS
<1>4. true[m - 1]
  BY <1>2, <1>3
<1> QED
  BY <1>3, <1>4

LEMMA PathIs ==
    ASSUME NEW M, NEW pos, Chained(Current, M, pos), NEW b \in 0 .. n_buckets - 1,
           NEW j \in 0 .. Cardinality(Keys)
    PROVE  PointsAt(Path(buckets[b])[j], b, j, M, pos, n_buckets)
<1> DEFINE N == Cardinality(Keys)
           s == buckets[b]
           Go == [k \in Pointer |-> IF k = Null THEN Null ELSE next[k]]
           Body(p) == [i \in 0 .. N |-> IF i = 0 THEN s ELSE IF p[i - 1] = Null THEN Null ELSE next[p[i - 1]]]
           walk == CHOOSE p : p = Body(p)
<1>1. N \in Nat
  BY KeysAssumption, FS_CardinalityType
<1>2. /\ n_buckets \in Nat \ {0} /\ buckets \in [0 .. n_buckets - 1 -> Pointer]
      /\ next \in [Keys -> Pointer] /\ M \subseteq Keys
      /\ PointsAt(s, b, 0, M, pos, n_buckets)
      /\ \A k \in M : PointsAt(next[k], Hash(k, n_buckets), pos[k] + 1, M, pos, n_buckets)
      /\ \A k \in M : pos[k] \in Nat
  BY DEF Chained, Current, IsTable
<1>3. Path(s) = walk
  BY DEF Path
<1>4. \E p : p = Body(p)
  <2>1. s \in Pointer /\ Go \in [Pointer -> Pointer]
    BY <1>2, KeysAssumption DEF Pointer
  <2>g. \A k \in Pointer : Go[k] = IF k = Null THEN Null ELSE next[k]
    OBVIOUS
  <2> HIDE DEF Go
  <2>i. PICK f : Iteration(f, Pointer, s, Go, N)
    BY <1>1, <2>1, Iterates
  <2>2. f \in [0 .. N -> Pointer] /\ f[0] = s /\ \A i \in 1 .. N : f[i] = Go[f[i - 1]]
    BY <2>i DEF Iteration
  <2>3. \A i \in 0 .. N : f[i] = IF i = 0 THEN s ELSE IF f[i - 1] = Null THEN Null ELSE next[f[i - 1]]
    <3> TAKE i \in 0 .. N
    <3>1. CASE i = 0
      BY <2>2, <3>1
    <3>2. CASE i # 0
      <4>1. i \in 1 .. N /\ i - 1 \in 0 .. N
        BY <1>1, <3>2
      <4>2. f[i - 1] \in Pointer /\ f[i] = Go[f[i - 1]]
        BY <2>2, <4>1
      <4> QED
        BY <2>g, <3>2, <4>2
    <3> QED
      BY <3>1, <3>2
  <2>4. f = [i \in 0 .. N |-> f[i]]
    BY <2>2
  <2>5. [i \in 0 .. N |-> f[i]] = Body(f)
    BY <2>3
  <2> QED
    BY <2>4, <2>5
<1>5. walk = Body(walk)
  BY <1>4
<1> HIDE DEF walk
<1>6. walk[0] = s /\ \A i \in 1 .. N : walk[i] = IF walk[i - 1] = Null THEN Null ELSE next[walk[i - 1]]
  <2>1. walk[0] = Body(walk)[0] /\ \A i \in 1 .. N : walk[i] = Body(walk)[i]
    BY <1>5, Zenon
  <2>2. /\ Body(walk)[0] = s
        /\ \A i \in 1 .. N : Body(walk)[i] = IF walk[i - 1] = Null THEN Null ELSE next[walk[i - 1]]
    BY <1>1
  <2> HIDE DEF Body
  <2> QED
    BY <2>1, <2>2
<1> DEFINE true == [i \in 0 .. N |-> PointsAt(walk[i], b, i, M, pos, n_buckets)]
<1>7. true[0]
  BY <1>1, <1>2, <1>6
<1>8. ASSUME NEW i \in 1 .. N, true[i - 1]
      PROVE  true[i]
  <2>1. i - 1 \in 0 .. N /\ i \in 0 .. N /\ i - 1 + 1 = i
    BY <1>1
  <2>2. PointsAt(walk[i - 1], b, i - 1, M, pos, n_buckets)
    BY <1>8, <2>1
  <2>3. PointsAt(walk[i], b, i, M, pos, n_buckets)
    <3>1. CASE walk[i - 1] = Null
      BY <1>2, <1>6, <2>1, <2>2, <3>1 DEF PointsAt
    <3>2. CASE walk[i - 1] # Null
      <4> DEFINE k == walk[i - 1]
      <4>1. k \in M /\ Hash(k, n_buckets) = b /\ pos[k] + 1 = i /\ walk[i] = next[k]
        BY <1>6, <2>1, <2>2, <3>2 DEF PointsAt
      <4> HIDE DEF k
      <4> QED
        BY <1>2, <4>1
    <3> QED
      BY <3>1, <3>2
  <2> QED
    BY <2>1, <2>3
<1>9. \A i \in 0 .. N : true[i]
  <2>1. true \in [0 .. N -> BOOLEAN]
    BY DEF PointsAt
  <2> HIDE DEF true
  <2> QED
    BY <1>1, <1>7, <1>8, <2>1, Onward
<1> QED
  BY <1>3, <1>9

(* A chain has no more nodes than there are keys. *)
LEMMA PlacesAreFew ==
    ASSUME NEW t, NEW M, NEW pos, Chained(t, M, pos), NEW k \in M
    PROVE  pos[k] < Cardinality(Keys)
<1> DEFINE Is(p, j) == j \in M /\ Hash(j, t.count) = Hash(k, t.count) /\ pos[j] = p
           at == [p \in 0 .. pos[k] |-> CHOOSE j : Is(p, j)]
<1>1. pos[k] \in Nat /\ M \subseteq Keys
  BY DEF Chained
<1>2. \A p \in 0 .. pos[k] : Is(p, at[p])
  <2> TAKE p \in 0 .. pos[k]
  <2>1. \E j : Is(p, j)
    BY DEF Chained
  <2>2. at[p] = CHOOSE j : Is(p, j)
    OBVIOUS
  <2> HIDE DEF Is, at
  <2> QED
    BY <2>1, <2>2
<1>3. DOMAIN at = 0 .. pos[k] /\ at = [p \in 0 .. pos[k] |-> at[p]]
  OBVIOUS
<1> HIDE DEF at
<1>4. at \in Injection(0 .. pos[k], Keys)
  <2>1. at \in [0 .. pos[k] -> Keys]
    BY <1>1, <1>2, <1>3
  <2>2. \A p, q \in 0 .. pos[k] : at[p] = at[q] => p = q
    BY <1>2
  <2> QED
    BY <2>1, <2>2 DEF Injection, IsInjective
<1>5. Cardinality(0 .. pos[k]) = pos[k] + 1
  BY <1>1, FS_Interval
<1>6. Cardinality(0 .. pos[k]) <= Cardinality(Keys)
  BY <1>4, KeysAssumption, FS_Injection
<1>7. Cardinality(Keys) \in Nat
  BY KeysAssumption, FS_CardinalityType
<1> QED
  BY <1>1, <1>5, <1>6, <1>7

LEMMA ContentsAre ==
    \A M \in SUBSET Keys : \A pos \in [Keys -> Nat] :
        Chained(Current, M, pos) =>
            /\ Contents = M
            /\ \A i \in DOMAIN buckets : /\ Reached(i) = {k \in M : Hash(k, n_buckets) = i}
                                         /\ Path(buckets[i])[Cardinality(Keys)] = Null
<1> SUFFICES ASSUME NEW M \in SUBSET Keys, NEW pos \in [Keys -> Nat], Chained(Current, M, pos)
             PROVE  /\ Contents = M
                    /\ \A i \in DOMAIN buckets :
                           /\ Reached(i) = {k \in M : Hash(k, n_buckets) = i}
                           /\ Path(buckets[i])[Cardinality(Keys)] = Null
  OBVIOUS
<1> DEFINE N == Cardinality(Keys)
<1>1. N \in Nat
  BY KeysAssumption, FS_CardinalityType
<1>2. /\ n_buckets \in Nat \ {0} /\ DOMAIN buckets = 0 .. n_buckets - 1
      /\ \A j, k \in M : Hash(j, n_buckets) = Hash(k, n_buckets) /\ pos[j] = pos[k] => j = k
      /\ Null \notin M
  BY KeysAssumption DEF Chained, Current, IsTable
<1>3. \A k \in M : pos[k] \in 0 .. N /\ pos[k] # N /\ Hash(k, n_buckets) \in 0 .. n_buckets - 1
  <2> TAKE k \in M
  <2>1. pos[k] < N
    BY PlacesAreFew
  <2>2. Hash(k, n_buckets) \in 0 .. n_buckets - 1
    BY <1>2, HashIs
  <2> QED
    BY <1>1, <2>1, <2>2
<1>4. ASSUME NEW i \in DOMAIN buckets
      PROVE  /\ \A x : x \in Reached(i) <=> x \in M /\ Hash(x, n_buckets) = i
             /\ Path(buckets[i])[N] = Null
  <2> DEFINE walk == Path(buckets[i])
  <2>1. \A j \in 0 .. N : PointsAt(walk[j], i, j, M, pos, n_buckets)
    BY <1>2, PathIs
  <2>2. Reached(i) = {walk[j] : j \in 0 .. N} \ {Null}
    BY DEF Reached
  <2> HIDE DEF walk, N
  <2>3. walk[N] = Null
    <3>1. N \in 0 .. N
      BY <1>1
    <3> QED
      BY <1>1, <1>3, <2>1, <3>1 DEF PointsAt
  <2>4. ASSUME NEW x \in Reached(i)
        PROVE  x \in M /\ Hash(x, n_buckets) = i
    BY <2>1, <2>2 DEF PointsAt
  <2>5. ASSUME NEW x \in M, Hash(x, n_buckets) = i
        PROVE  x \in Reached(i)
    <3>1. pos[x] \in 0 .. N
      BY <1>3
    <3>2. PointsAt(walk[pos[x]], i, pos[x], M, pos, n_buckets)
      BY <2>1, <3>1
    <3>3. walk[pos[x]] = x
      BY <1>1, <1>2, <2>5, <3>1, <3>2 DEF PointsAt
    <3> QED
      BY <1>2, <2>2, <3>1, <3>3
  <2> QED
    BY <2>3, <2>4, <2>5 DEF walk
<1>5. \A i \in DOMAIN buckets : Reached(i) = {k \in M : Hash(k, n_buckets) = i}
  <2> TAKE i \in DOMAIN buckets
  <2>1. \A x : x \in Reached(i) <=> x \in {k \in M : Hash(k, n_buckets) = i}
    BY <1>4
  <2> QED
    BY <2>1, Zenon
<1>6. \A x : x \in Contents <=> x \in M
  <2>1. \A x : x \in Contents <=> \E i \in DOMAIN buckets : x \in Reached(i)
    BY DEF Contents
  <2> QED
    BY <1>2, <1>3, <1>4, <2>1
<1> QED
  BY <1>4, <1>5, <1>6

LEMMA ChainedIs ==
    ASSUME NEW t, NEW c, NEW M, NEW pos, IsTable(t), t.count = c, M \subseteq Keys, pos \in [Keys -> Nat],
           \A j, k \in M : Hash(j, c) = Hash(k, c) /\ pos[j] = pos[k] => j = k,
           \A k \in M : \A p \in 0 .. pos[k] : \E j \in M : Hash(j, c) = Hash(k, c) /\ pos[j] = p,
           \A b \in 0 .. c - 1 : PointsAt(t.buckets[b], b, 0, M, pos, c),
           \A k \in M : PointsAt(t.next[k], Hash(k, c), pos[k] + 1, M, pos, c)
    PROVE  Chained(t, M, pos)
BY DEF Chained

(* A node before the first of its chain. *)
Ahead(k, count, pos) ==
    [j \in Keys |-> IF j = k THEN 0
                    ELSE IF Hash(j, count) = Hash(k, count) THEN pos[j] + 1 ELSE pos[j]]

LEMMA NodeIn ==
    ASSUME NEW t, NEW M, NEW pos, Chained(t, M, pos), NEW k \in Keys, k \notin M,
           NEW u, IsTable(u), u.count = t.count,
           u.buckets[Hash(k, t.count)] = k, u.next[k] = t.buckets[Hash(k, t.count)],
           \A b \in 0 .. t.count - 1 : b # Hash(k, t.count) => u.buckets[b] = t.buckets[b],
           \A j \in M : u.next[j] = t.next[j]
    PROVE  Chained(u, M \cup {k}, Ahead(k, t.count, pos))
<1> DEFINE c == t.count
           h(j) == Hash(j, c)
           new == Ahead(k, c, pos)
           N == M \cup {k}
<1>1. /\ c \in Nat \ {0} /\ M \subseteq Keys /\ pos \in [Keys -> Nat] /\ Null \notin Keys
      /\ \A j, l \in M : h(j) = h(l) /\ pos[j] = pos[l] => j = l
      /\ \A l \in M : \A p \in 0 .. pos[l] : \E j \in M : h(j) = h(l) /\ pos[j] = p
      /\ \A b \in 0 .. c - 1 : PointsAt(t.buckets[b], b, 0, M, pos, c)
      /\ \A l \in M : PointsAt(t.next[l], h(l), pos[l] + 1, M, pos, c)
  BY KeysAssumption DEF Chained, IsTable
<1>2. \A j \in Keys : h(j) \in 0 .. c - 1
  BY <1>1, HashIs
<1>3. /\ new \in [Keys -> Nat] /\ new[k] = 0
      /\ \A j \in M : h(j) = h(k) => new[j] = pos[j] + 1
      /\ \A j \in M : h(j) # h(k) => new[j] = pos[j]
  BY <1>1 DEF Ahead
<1> HIDE DEF new, h, c
<1>4. N \subseteq Keys
  BY <1>1
<1>5. ASSUME NEW j \in N, NEW l \in N, h(j) = h(l), new[j] = new[l]
      PROVE  j = l
  <2>1. \A i \in M : pos[i] \in Nat /\ pos[i] + 1 # 0
    BY <1>1
  <2>2. CASE j = k \/ l = k
    <3>1. \A i \in M : h(i) = h(k) => new[i] # new[k]
      BY <1>3, <2>1
    <3> QED
      BY <1>5, <2>2, <3>1
  <2>3. CASE j # k /\ l # k
    <3>1. j \in M /\ l \in M
      BY <2>3
    <3>2. pos[j] = pos[l]
      <4>1. CASE h(j) = h(k)
        <5>1. pos[j] + 1 = pos[l] + 1
          BY <1>3, <1>5, <3>1, <4>1
        <5> QED
          BY <2>1, <3>1, <5>1
      <4>2. CASE h(j) # h(k)
        BY <1>3, <1>5, <3>1, <4>2
      <4> QED
        BY <4>1, <4>2
    <3> QED
      BY <1>1, <1>5, <3>1, <3>2
  <2> QED
    BY <2>2, <2>3
<1>6. ASSUME NEW l \in N, NEW p \in 0 .. new[l]
      PROVE  \E j \in N : h(j) = h(l) /\ new[j] = p
  <2>1. CASE l = k
    BY <1>3, <2>1
  <2>2. CASE l # k /\ h(l) # h(k)
    <3>1. l \in M /\ p \in 0 .. pos[l]
      BY <1>3, <2>2
    <3>2. PICK j \in M : h(j) = h(l) /\ pos[j] = p
      BY <1>1, <3>1
    <3> QED
      BY <1>3, <2>2, <3>2
  <2>3. CASE l # k /\ h(l) = h(k)
    <3>1. CASE p = 0
      BY <1>3, <2>3, <3>1
    <3>2. CASE p # 0
      <4>1. l \in M /\ p - 1 \in 0 .. pos[l] /\ p - 1 + 1 = p
        BY <1>1, <1>3, <2>3, <3>2
      <4>2. PICK j \in M : h(j) = h(l) /\ pos[j] = p - 1
        BY <1>1, <4>1
      <4> QED
        BY <1>3, <2>3, <4>1, <4>2
    <3> QED
      BY <3>1, <3>2
  <2> QED
    BY <2>1, <2>2, <2>3
<1>7. ASSUME NEW b \in 0 .. c - 1
      PROVE  PointsAt(u.buckets[b], b, 0, N, new, c)
  <2>1. CASE b = h(k)
    <3>1. u.buckets[b] = k /\ k # Null
      BY <1>1, <2>1 DEF h, c
    <3> QED
      BY <1>3, <2>1, <3>1 DEF PointsAt, h
  <2>2. CASE b # h(k)
    <3>1. u.buckets[b] = t.buckets[b] /\ PointsAt(t.buckets[b], b, 0, M, pos, c)
      BY <1>1, <2>2 DEF h, c
    <3> QED
      BY <1>1, <1>3, <2>2, <3>1 DEF PointsAt, h
  <2> QED
    BY <2>1, <2>2
<1>8. ASSUME NEW l \in N
      PROVE  PointsAt(u.next[l], h(l), new[l] + 1, N, new, c)
  <2>1. CASE l = k
    <3>1. u.next[l] = t.buckets[h(k)] /\ PointsAt(t.buckets[h(k)], h(k), 0, M, pos, c)
      BY <1>1, <1>2, <2>1 DEF h, c
    <3>2. new[l] + 1 = 1
      BY <1>3, <2>1
    <3>3. CASE t.buckets[h(k)] = Null
      <4>1. \A j \in M : h(j) = h(k) => pos[j] < 0
        BY <3>1, <3>3 DEF PointsAt, h
      <4>2. \A j \in N : h(j) = h(k) => j = k
        BY <1>1, <4>1
      <4>3. \A j \in N : h(j) = h(l) => new[j] < new[l] + 1
        BY <1>3, <2>1, <3>2, <4>2
      <4> QED
        BY <3>1, <3>3, <4>3 DEF PointsAt, h
    <3>4. CASE t.buckets[h(k)] # Null
      BY <1>1, <1>3, <2>1, <3>1, <3>2, <3>4 DEF PointsAt, h
    <3> QED
      BY <3>3, <3>4
  <2>2. CASE l # k
    <3>1. l \in M /\ u.next[l] = t.next[l] /\ PointsAt(t.next[l], h(l), pos[l] + 1, M, pos, c)
      BY <1>1, <2>2
    <3>2. CASE t.next[l] = Null
      <4>1. \A j \in M : h(j) = h(l) => pos[j] < pos[l] + 1
        BY <3>1, <3>2 DEF PointsAt, h
      <4>2. \A j \in N : h(j) = h(l) => new[j] < new[l] + 1
        BY <1>1, <1>3, <3>1, <4>1
      <4> QED
        BY <3>1, <3>2, <4>2 DEF PointsAt, h
    <3>3. CASE t.next[l] # Null
      <4> DEFINE n == t.next[l]
      <4>1. n \in M /\ h(n) = h(l) /\ pos[n] = pos[l] + 1
        BY <3>1, <3>3 DEF PointsAt, h
      <4> HIDE DEF n
      <4>2. new[n] = new[l] + 1
        BY <1>1, <1>3, <3>1, <4>1
      <4>3. u.next[l] = n /\ n # Null /\ n \in N
        BY <3>1, <3>3, <4>1 DEF n
      <4> QED
        BY <4>1, <4>2, <4>3 DEF PointsAt, h
    <3> QED
      BY <3>2, <3>3
  <2> QED
    BY <2>1, <2>2
<1> QED
  <2>1. /\ N \subseteq Keys /\ new \in [Keys -> Nat]
        /\ \A b \in 0 .. c - 1 : PointsAt(u.buckets[b], b, 0, N, new, c)
        /\ \A l \in N : PointsAt(u.next[l], Hash(l, c), new[l] + 1, N, new, c)
    BY <1>3, <1>4, <1>7, <1>8 DEF h
  <2>2. /\ \A j, l \in N : Hash(j, c) = Hash(l, c) /\ new[j] = new[l] => j = l
        /\ \A l \in N : \A p \in 0 .. new[l] : \E j \in N : Hash(j, c) = Hash(l, c) /\ new[j] = p
    BY <1>5, <1>6 DEF h
  <2>3. u.count = c /\ IsTable(u)
    BY DEF c
  <2> HIDE DEF N
  <2>4. Chained(u, N, new)
    BY <2>1, <2>2, <2>3, ChainedIs
  <2> QED
    BY <2>4 DEF new, c, N

(* A node taken out of its chain. *)
Without(k, count, pos) ==
    [j \in Keys |-> IF Hash(j, count) = Hash(k, count) /\ pos[j] > pos[k] THEN pos[j] - 1 ELSE pos[j]]

LEMMA NodeOut ==
    ASSUME NEW t, NEW M, NEW pos, Chained(t, M, pos), NEW k \in M,
           NEW u, IsTable(u), u.count = t.count,
           \A b \in 0 .. t.count - 1 : u.buckets[b] = IF t.buckets[b] = k THEN t.next[k] ELSE t.buckets[b],
           \A j \in M \ {k} : u.next[j] = IF t.next[j] = k THEN t.next[k] ELSE t.next[j]
    PROVE  Chained(u, M \ {k}, Without(k, t.count, pos))
<1> DEFINE c == t.count
           h(j) == Hash(j, c)
           new == Without(k, c, pos)
           N == M \ {k}
<1>1. /\ c \in Nat \ {0} /\ M \subseteq Keys /\ pos \in [Keys -> Nat] /\ Null \notin Keys
      /\ \A j, l \in M : h(j) = h(l) /\ pos[j] = pos[l] => j = l
      /\ \A l \in M : \A p \in 0 .. pos[l] : \E j \in M : h(j) = h(l) /\ pos[j] = p
      /\ \A b \in 0 .. c - 1 : PointsAt(t.buckets[b], b, 0, M, pos, c)
      /\ \A l \in M : PointsAt(t.next[l], h(l), pos[l] + 1, M, pos, c)
  BY KeysAssumption DEF Chained, IsTable
<1>3. /\ new \in [Keys -> Nat]
      /\ \A j \in M : h(j) = h(k) /\ pos[j] > pos[k] => new[j] = pos[j] - 1
      /\ \A j \in M : ~(h(j) = h(k) /\ pos[j] > pos[k]) => new[j] = pos[j]
  BY <1>1 DEF Without
<1>t. /\ \A j \in N : u.next[j] = IF t.next[j] = k THEN t.next[k] ELSE t.next[j]
      /\ \A b \in 0 .. c - 1 : u.buckets[b] = IF t.buckets[b] = k THEN t.next[k] ELSE t.buckets[b]
  OBVIOUS
<1>p. \A j \in M : pos[j] \in Nat
  BY <1>1
<1> HIDE DEF new, h, c
<1>4. N \subseteq Keys
  BY <1>1
<1>5. \A j \in N : h(j) = h(k) => pos[j] # pos[k]
  BY <1>1
<1>6. ASSUME NEW j \in N, NEW l \in N, h(j) = h(l), new[j] = new[l]
      PROVE  j = l
  BY <1>1, <1>3, <1>5, <1>6, <1>p
<1>7. ASSUME NEW l \in N, NEW p \in 0 .. new[l]
      PROVE  \E j \in N : h(j) = h(l) /\ new[j] = p
  <2>1. CASE h(l) = h(k) /\ pos[l] > pos[k] /\ p >= pos[k]
    <3>1. p + 1 \in 0 .. pos[l] /\ p + 1 > pos[k] /\ p + 1 - 1 = p
      BY <1>3, <1>p, <2>1
    <3>2. PICK j \in M : h(j) = h(l) /\ pos[j] = p + 1
      BY <1>1, <3>1
    <3> QED
      BY <1>3, <1>p, <2>1, <3>1, <3>2
  <2>2. CASE ~(h(l) = h(k) /\ pos[l] > pos[k] /\ p >= pos[k])
    <3>1. p \in 0 .. pos[l]
      BY <1>3, <1>p
    <3>2. PICK j \in M : h(j) = h(l) /\ pos[j] = p
      BY <1>1, <3>1
    <3>3. ~(h(j) = h(k) /\ pos[j] >= pos[k])
      BY <1>3, <1>5, <1>p, <2>2, <3>1, <3>2
    <3> QED
      BY <1>3, <1>p, <3>2, <3>3
  <2> QED
    BY <2>1, <2>2
<1>n. PointsAt(t.next[k], h(k), pos[k], N, new, c)
  <2>1. PointsAt(t.next[k], h(k), pos[k] + 1, M, pos, c)
    BY <1>1
  <2>2. CASE t.next[k] = Null
    <3>1. \A j \in M : h(j) = h(k) => pos[j] < pos[k] + 1
      BY <2>1, <2>2 DEF PointsAt, h
    <3>2. \A j \in N : h(j) = h(k) => new[j] < pos[k]
      BY <1>3, <1>5, <1>p, <3>1
    <3> QED
      BY <2>2, <3>2 DEF PointsAt, h
  <2>3. CASE t.next[k] # Null
    <3> DEFINE n == t.next[k]
    <3>1. n \in M /\ h(n) = h(k) /\ pos[n] = pos[k] + 1 /\ n # Null
      BY <2>1, <2>3 DEF PointsAt, h
    <3> HIDE DEF n
    <3>2. n \in N /\ new[n] = pos[k]
      BY <1>3, <1>p, <3>1
    <3>3. PointsAt(n, h(k), pos[k], N, new, c)
      BY <3>1, <3>2 DEF PointsAt, h
    <3> QED
      BY <3>3 DEF n
  <2> QED
    BY <2>2, <2>3
<1>8. ASSUME NEW n, NEW b, NEW p \in Nat, PointsAt(n, b, p, M, pos, c), n # k, b = h(k) => p <= pos[k]
      PROVE  PointsAt(n, b, p, N, new, c)
  <2>1. CASE n = Null
    BY <1>3, <1>8, <1>p, <2>1 DEF PointsAt, h
  <2>2. CASE n # Null
    <3>1. n \in N /\ h(n) = b /\ pos[n] = p
      BY <1>8, <2>2 DEF PointsAt, h
    <3>2. new[n] = p
      BY <1>3, <1>8, <1>p, <3>1
    <3> QED
      BY <2>2, <3>1, <3>2 DEF PointsAt, h
  <2> QED
    BY <2>1, <2>2
<1>9. ASSUME NEW b \in 0 .. c - 1
      PROVE  PointsAt(u.buckets[b], b, 0, N, new, c)
  <2>1. PointsAt(t.buckets[b], b, 0, M, pos, c)
    BY <1>1
  <2>2. CASE t.buckets[b] = k
    <3>1. h(k) = b /\ pos[k] = 0 /\ u.buckets[b] = t.next[k]
      BY <1>1, <1>t, <2>1, <2>2 DEF PointsAt, h
    <3> QED
      BY <1>n, <3>1
  <2>3. CASE t.buckets[b] # k
    <3>1. u.buckets[b] = t.buckets[b]
      BY <1>t, <2>3
    <3> QED
      <4>1. b = h(k) => 0 <= pos[k]
        BY <1>p
      <4> QED
        BY <1>8, <2>1, <2>3, <3>1, <4>1
  <2> QED
    BY <2>2, <2>3
<1>10. ASSUME NEW l \in N
       PROVE  PointsAt(u.next[l], h(l), new[l] + 1, N, new, c)
  <2>1. PointsAt(t.next[l], h(l), pos[l] + 1, M, pos, c)
    BY <1>1
  <2>2. CASE t.next[l] = k
    <3>1. h(k) = h(l) /\ pos[k] = pos[l] + 1 /\ u.next[l] = t.next[k]
      BY <1>1, <1>t, <2>1, <2>2 DEF PointsAt, h
    <3>2. new[l] + 1 = pos[k]
      BY <1>3, <1>p, <3>1
    <3> QED
      BY <1>n, <3>1, <3>2
  <2>3. CASE t.next[l] # k /\ (h(l) = h(k) => pos[l] < pos[k])
    <3>1. u.next[l] = t.next[l] /\ pos[l] + 1 \in Nat /\ new[l] = pos[l] /\ (h(l) = h(k) => pos[l] + 1 <= pos[k])
      BY <1>3, <1>p, <1>t, <2>3
    <3> QED
      BY <1>8, <2>1, <2>3, <3>1
  <2>4. CASE t.next[l] # k /\ h(l) = h(k) /\ ~(pos[l] < pos[k])
    <3>1. u.next[l] = t.next[l] /\ pos[l] > pos[k] /\ new[l] = pos[l] - 1 /\ new[l] + 1 = pos[l]
      BY <1>3, <1>5, <1>p, <1>t, <2>4
    <3>2. CASE t.next[l] = Null
      <4>1. \A j \in M : h(j) = h(l) => pos[j] < pos[l] + 1
        BY <2>1, <3>2 DEF PointsAt, h
      <4>2. \A j \in N : h(j) = h(l) => new[j] < pos[l]
        BY <1>3, <1>p, <2>4, <3>1, <4>1
      <4> QED
        BY <3>1, <3>2, <4>2 DEF PointsAt, h
    <3>3. CASE t.next[l] # Null
      <4> DEFINE n == t.next[l]
      <4>1. n \in M /\ n # k /\ h(n) = h(l) /\ pos[n] = pos[l] + 1 /\ n # Null
        BY <2>1, <2>4, <3>3 DEF PointsAt, h
      <4> HIDE DEF n
      <4>2. n \in N /\ new[n] = pos[l]
        BY <1>3, <1>p, <2>4, <3>1, <4>1
      <4>3. PointsAt(n, h(l), pos[l], N, new, c)
        BY <4>1, <4>2 DEF PointsAt, h
      <4> QED
        BY <3>1, <4>3 DEF n
    <3> QED
      BY <3>2, <3>3
  <2> QED
    BY <2>2, <2>3, <2>4
<1> QED
  <2>1. /\ N \subseteq Keys /\ new \in [Keys -> Nat]
        /\ \A b \in 0 .. c - 1 : PointsAt(u.buckets[b], b, 0, N, new, c)
        /\ \A l \in N : PointsAt(u.next[l], Hash(l, c), new[l] + 1, N, new, c)
    BY <1>3, <1>4, <1>9, <1>10 DEF h
  <2>2. /\ \A j, l \in N : Hash(j, c) = Hash(l, c) /\ new[j] = new[l] => j = l
        /\ \A l \in N : \A p \in 0 .. new[l] : \E j \in N : Hash(j, c) = Hash(l, c) /\ new[j] = p
    BY <1>6, <1>7 DEF h
  <2>3. u.count = c /\ IsTable(u)
    BY DEF c
  <2> HIDE DEF N
  <2>4. Chained(u, N, new)
    BY <2>1, <2>2, <2>3, ChainedIs
  <2> QED
    BY <2>4 DEF new, c, N

LEMMA PushIs ==
    ASSUME NEW t, NEW M, NEW pos, Chained(t, M, pos), NEW k \in Keys, k \notin M
    PROVE  Chained(Push(t, k), M \cup {k}, Ahead(k, t.count, pos)) /\ Push(t, k).count = t.count
<1> DEFINE b == Hash(k, t.count)
           u == Push(t, k)
<1>1. /\ t.count \in Nat \ {0}
      /\ t \in [count : {t.count}, buckets : [0 .. t.count - 1 -> Pointer], next : [Keys -> Pointer]]
  BY DEF Chained, IsTable
<1>2. b \in 0 .. t.count - 1 /\ k \in Pointer
  BY <1>1, HashIs DEF Pointer
<1>3. /\ u \in [count : {t.count}, buckets : [0 .. t.count - 1 -> Pointer], next : [Keys -> Pointer]]
      /\ u.count = t.count
      /\ u.next = [t.next EXCEPT ![k] = t.buckets[b]] /\ u.buckets = [t.buckets EXCEPT ![b] = k]
  BY <1>1, <1>2 DEF Push
<1>4. /\ u.buckets[b] = k /\ u.next[k] = t.buckets[b]
      /\ \A i \in 0 .. t.count - 1 : i # b => u.buckets[i] = t.buckets[i]
      /\ \A j \in Keys : j # k => u.next[j] = t.next[j]
  BY <1>1, <1>2, <1>3
<1>5. IsTable(u) /\ M \subseteq Keys
  BY <1>1, <1>3 DEF IsTable, Chained
<1> HIDE DEF u
<1> QED
  BY <1>3, <1>4, <1>5, NodeIn DEF u

LEMMA TakenOutIs ==
    ASSUME NEW t, NEW M, NEW pos, Chained(t, M, pos), NEW k \in M
    PROVE  Chained(TakenOut(t, k), M \ {k}, Without(k, t.count, pos)) /\ TakenOut(t, k).count = t.count
<1> DEFINE b == Hash(k, t.count)
           u == TakenOut(t, k)
<1>1. /\ t.count \in Nat \ {0} /\ k \in Keys /\ M \subseteq Keys /\ Null \notin Keys
      /\ t \in [count : {t.count}, buckets : [0 .. t.count - 1 -> Pointer], next : [Keys -> Pointer]]
  BY KeysAssumption DEF Chained, IsTable
<1>2. b \in 0 .. t.count - 1 /\ Null \in Pointer
  BY <1>1, HashIs DEF Pointer
<1>3. /\ u \in [count : {t.count}, buckets : [0 .. t.count - 1 -> Pointer], next : [Keys -> Pointer]]
      /\ u.count = t.count
      /\ u.next = [j \in Keys |-> IF j = k THEN Null ELSE IF t.next[j] = k THEN t.next[k] ELSE t.next[j]]
      /\ u.buckets = [t.buckets EXCEPT ![b] = IF t.buckets[b] = k THEN t.next[k] ELSE t.buckets[b]]
  BY <1>1, <1>2 DEF TakenOut
<1>4. \A i \in 0 .. t.count - 1 : t.buckets[i] = k => i = b
  BY <1>1 DEF Chained, PointsAt
<1>5. \A i \in 0 .. t.count - 1 : u.buckets[i] = IF t.buckets[i] = k THEN t.next[k] ELSE t.buckets[i]
  BY <1>1, <1>2, <1>3, <1>4
<1>6. \A j \in M \ {k} : u.next[j] = IF t.next[j] = k THEN t.next[k] ELSE t.next[j]
  BY <1>1, <1>3
<1>7. IsTable(u)
  BY <1>1, <1>3 DEF IsTable
<1> HIDE DEF u
<1> QED
  BY <1>3, <1>5, <1>6, <1>7, NodeOut DEF u

(* A rebuild has taken the nodes D from the old chains, those of the buckets *)
(* before m.i and those of m.i before m.n.                                   *)
Taken(m, M, pos) ==
    {k \in M : \/ Hash(k, n_buckets) < m.i
               \/ Hash(k, n_buckets) = m.i /\ (m.n = Null \/ pos[k] < pos[m.n])}

MoveInv(m, j, M, pos) ==
    /\ m.i \in 0 .. n_buckets - 1
    /\ m.n # Null => m.n \in M /\ Hash(m.n, n_buckets) = m.i
    /\ \E p \in [Keys -> Nat] : Chained(m.new, Taken(m, M, pos), p)
    /\ (m.n = Null /\ m.i + 1 = n_buckets) \/ Cardinality(Taken(m, M, pos)) + m.i = j

Moves(count) == [i : 0 .. n_buckets - 1, n : Pointer,
                 new : [count : {count}, buckets : [0 .. count - 1 -> Pointer], next : [Keys -> Pointer]]]

LEMMA EmptyingIs ==
    ASSUME NEW count \in Nat \ {0}, NEW m \in Moves(count), NEW M, NEW pos, Chained(Current, M, pos)
    PROVE  Emptying(m) \in Moves(count)
<1>1. /\ n_buckets \in Nat \ {0} /\ buckets \in [0 .. n_buckets - 1 -> Pointer] /\ next \in [Keys -> Pointer]
  BY DEF Chained, Current, IsTable
<1>2. /\ m.i \in 0 .. n_buckets - 1 /\ m.n \in Pointer
      /\ m \in [i : 0 .. n_buckets - 1, n : Pointer,
                new : [count : {count}, buckets : [0 .. count - 1 -> Pointer], next : [Keys -> Pointer]]]
  BY DEF Moves
<1>3. CASE m.n # Null
  <2> DEFINE u == Push(m.new, m.n)
             b == Hash(m.n, count)
  <2>1. m.n \in Keys
    BY <1>2, <1>3 DEF Pointer
  <2>2. b \in 0 .. count - 1
    BY <2>1, HashIs
  <2>3. u \in [count : {count}, buckets : [0 .. count - 1 -> Pointer], next : [Keys -> Pointer]]
    BY <1>2, <2>1, <2>2 DEF Push, Pointer
  <2> HIDE DEF u
  <2>4. Emptying(m) = [m EXCEPT !.n = next[m.n], !.new = u]
    BY <1>3 DEF Emptying, u
  <2> QED
    BY <1>1, <1>2, <2>1, <2>3, <2>4 DEF Moves
<1>4. CASE m.n = Null /\ m.i + 1 = n_buckets
  BY <1>4 DEF Emptying
<1>5. CASE m.n = Null /\ m.i + 1 # n_buckets
  <2>1. m.i + 1 \in 0 .. n_buckets - 1
    <3>1. n_buckets \in Nat /\ m.i \in 0 .. n_buckets - 1
      BY <1>1, <1>2
    <3> QED
      BY <1>5, <3>1
  <2>2. Emptying(m) = [m EXCEPT !.i = m.i + 1, !.n = buckets[m.i + 1]]
    BY <1>5 DEF Emptying
  <2> QED
    BY <1>1, <1>2, <2>1, <2>2 DEF Moves
<1> QED
  BY <1>3, <1>4, <1>5

LEMMA EmptyingMoves ==
    ASSUME NEW count \in Nat \ {0}, NEW m \in Moves(count), NEW M, NEW pos, Chained(Current, M, pos),
           NEW j \in Nat, MoveInv(m, j, M, pos)
    PROVE  MoveInv(Emptying(m), j + 1, M, pos)
<1> DEFINE m2 == Emptying(m)
           h(k) == Hash(k, n_buckets)
           D == Taken(m, M, pos)
<1>1. /\ n_buckets \in Nat \ {0} /\ buckets \in [0 .. n_buckets - 1 -> Pointer] /\ next \in [Keys -> Pointer]
      /\ M \subseteq Keys /\ pos \in [Keys -> Nat]
      /\ \A k, l \in M : h(k) = h(l) /\ pos[k] = pos[l] => k = l
      /\ \A b \in 0 .. n_buckets - 1 : PointsAt(buckets[b], b, 0, M, pos, n_buckets)
      /\ \A k \in M : PointsAt(next[k], h(k), pos[k] + 1, M, pos, n_buckets)
  BY DEF Chained, Current, IsTable
<1>2. /\ m.i \in 0 .. n_buckets - 1 /\ m.n \in Pointer
      /\ m \in [i : 0 .. n_buckets - 1, n : Pointer,
                new : [count : {count}, buckets : [0 .. count - 1 -> Pointer], next : [Keys -> Pointer]]]
  BY DEF Moves
<1>3. PICK p \in [Keys -> Nat] : Chained(m.new, D, p)
  BY DEF MoveInv
<1>4. IsFiniteSet(D) /\ Cardinality(D) \in Nat
  <2>1. D \subseteq Keys
    BY <1>1 DEF Taken
  <2> QED
    BY <2>1, KeysAssumption, FS_Subset, FS_CardinalityType
<1>h. \A k \in M : h(k) \in 0 .. n_buckets - 1 /\ pos[k] \in Nat
  BY <1>1, HashIs
<1>5. CASE m.n # Null
  <2> DEFINE k == m.n
             u == Push(m.new, k)
  <2>1. k \in M /\ k \in Keys /\ h(k) = m.i
    BY <1>1, <1>5 DEF MoveInv
  <2>2. k \notin D
    BY <1>1, <1>2, <1>h, <2>1, <1>5 DEF Taken
  <2>3. m2.i = m.i /\ m2.n = next[k] /\ m2.new = u
    BY <1>2, <1>5 DEF Emptying
  <2>4. Chained(u, D \cup {k}, Ahead(k, m.new.count, p))
    BY <1>3, <2>1, <2>2, PushIs
  <2>5. Ahead(k, m.new.count, p) \in [Keys -> Nat]
    BY <2>4 DEF Chained
  <2>6. PointsAt(m2.n, m.i, pos[k] + 1, M, pos, n_buckets)
    BY <1>1, <2>1, <2>3
  <2> HIDE DEF u, m2, D
  <2>7. \A x : x \in Taken(m2, M, pos) <=> x \in D \cup {k}
    <3>1. \A x \in M : h(x) = m.i => (m2.n = Null \/ pos[x] < pos[m2.n] <=> pos[x] < pos[k] \/ x = k)
      BY <1>1, <1>h, <2>1, <2>6 DEF PointsAt
    <3>2. \A x : x \in D <=> x \in M /\ (h(x) < m.i \/ (h(x) = m.i /\ pos[x] < pos[k]))
      BY <1>5 DEF D, Taken
    <3>3. \A x : x \in Taken(m2, M, pos) <=>
              x \in M /\ (h(x) < m.i \/ (h(x) = m.i /\ (m2.n = Null \/ pos[x] < pos[m2.n])))
      BY <2>3 DEF Taken
    <3> HIDE DEF h, k
    <3> QED
      BY <2>1, <3>1, <3>2, <3>3
  <2>8. Taken(m2, M, pos) = D \cup {k}
    BY <2>7
  <2>9. Cardinality(D \cup {k}) = Cardinality(D) + 1
    BY <1>4, <2>2, FS_AddElement
  <2>10. Cardinality(D) + m.i = j
    BY <1>5 DEF MoveInv, D
  <2>11. m2.n # Null => m2.n \in M /\ h(m2.n) = m.i
    BY <2>6 DEF PointsAt
  <2> HIDE DEF k
  <2> QED
    BY <1>2, <1>4, <2>3, <2>4, <2>5, <2>8, <2>9, <2>10, <2>11 DEF MoveInv, m2
<1>6. CASE m.n = Null /\ m.i + 1 = n_buckets
  <2>1. m2 = m
    BY <1>6 DEF Emptying
  <2> QED
    BY <1>6, <2>1 DEF MoveInv
<1>7. CASE m.n = Null /\ m.i + 1 # n_buckets
  <2>1. m.i + 1 \in 0 .. n_buckets - 1
    BY <1>1, <1>2, <1>7
  <2>2. m2.i = m.i + 1 /\ m2.n = buckets[m.i + 1] /\ m2.new = m.new
    BY <1>2, <1>7 DEF Emptying
  <2>3. PointsAt(m2.n, m2.i, 0, M, pos, n_buckets)
    BY <1>1, <2>1, <2>2
  <2> HIDE DEF m2, D
  <2>4. \A x : x \in Taken(m2, M, pos) <=> x \in D
    <3>1. \A x \in M : h(x) = m2.i => ~(m2.n = Null \/ pos[x] < pos[m2.n])
      BY <1>1, <1>h, <2>3 DEF PointsAt
    <3>2. \A x : x \in D <=> x \in M /\ (h(x) < m.i \/ h(x) = m.i)
      BY <1>7 DEF D, Taken
    <3>3. \A x : x \in Taken(m2, M, pos) <=>
              x \in M /\ (h(x) < m2.i \/ (h(x) = m2.i /\ (m2.n = Null \/ pos[x] < pos[m2.n])))
      BY DEF Taken
    <3> HIDE DEF h
    <3> QED
      BY <1>2, <1>h, <2>2, <3>1, <3>2, <3>3
  <2>5. Taken(m2, M, pos) = D
    BY <2>4
  <2>6. Cardinality(D) + m.i = j
    BY <1>7 DEF MoveInv, D
  <2>7. m2.n # Null => m2.n \in M /\ h(m2.n) = m2.i
    BY <2>3 DEF PointsAt
  <2> QED
    BY <1>2, <1>3, <1>4, <2>1, <2>2, <2>5, <2>6, <2>7 DEF MoveInv, m2
<1> QED
  BY <1>5, <1>6, <1>7

LEMMA EmptyIs ==
    ASSUME NEW count \in Nat \ {0}
    PROVE  \E p \in [Keys -> Nat] :
               Chained([count |-> count, buckets |-> [b \in 0 .. count - 1 |-> Null],
                        next |-> [k \in Keys |-> Null]], {}, p)
<1> DEFINE empty == [count |-> count, buckets |-> [b \in 0 .. count - 1 |-> Null], next |-> [k \in Keys |-> Null]]
           p == [k \in Keys |-> 0]
<1>1. IsTable(empty) /\ empty.count = count /\ \A b \in 0 .. count - 1 : empty.buckets[b] = Null
  BY DEF IsTable, Pointer
<1>2. \A b \in 0 .. count - 1 : PointsAt(empty.buckets[b], b, 0, {}, p, count)
  BY <1>1 DEF PointsAt
<1>3. p \in [Keys -> Nat]
  OBVIOUS
<1> HIDE DEF p, empty
<1>4. Chained(empty, {}, p)
  BY <1>1, <1>2, <1>3, ChainedIs
<1> QED
  BY <1>3, <1>4 DEF empty

LEMMA RebuildIs ==
    ASSUME NEW count \in Nat \ {0}, NEW M, NEW pos, Chained(Current, M, pos)
    PROVE  /\ \E p \in [Keys -> Nat] : Chained(hash_table_rebuild(count), M, p)
           /\ hash_table_rebuild(count).count = count
<1> DEFINE last == n_buckets + Cardinality(Keys)
           empty == [count |-> count, buckets |-> [b \in 0 .. count - 1 |-> Null], next |-> [k \in Keys |-> Null]]
           first == [i |-> 0, n |-> buckets[0], new |-> empty]
           Body(f) == [j \in 0 .. last |-> IF j = 0 THEN first ELSE Emptying(f[j - 1])]
           moved == CHOOSE f : f = Body(f)
           G == [m \in Moves(count) |-> Emptying(m)]
<1>1. /\ n_buckets \in Nat \ {0} /\ buckets \in [0 .. n_buckets - 1 -> Pointer] /\ next \in [Keys -> Pointer]
      /\ M \subseteq Keys /\ pos \in [Keys -> Nat]
      /\ PointsAt(buckets[0], 0, 0, M, pos, n_buckets)
  BY DEF Chained, Current, IsTable
<1>2. Cardinality(Keys) \in Nat /\ last \in Nat
  BY <1>1, KeysAssumption, FS_CardinalityType
<1>3. hash_table_rebuild(count) = moved[last].new
  BY DEF hash_table_rebuild
<1>4. first \in Moves(count)
  BY <1>1 DEF Moves, Pointer
<1>5. \A m \in Moves(count) : G[m] = Emptying(m) /\ Emptying(m) \in Moves(count)
  BY EmptyingIs
<1>6. G \in [Moves(count) -> Moves(count)]
  BY <1>5
<1> HIDE DEF G
<1>7. MoveInv(first, 0, M, pos)
  <2>1. first.i = 0 /\ first.n = buckets[0] /\ first.new = empty
    OBVIOUS
  <2>2. Taken(first, M, pos) = {}
    <3>1. \A k \in M : pos[k] \in Nat /\ Hash(k, n_buckets) \in 0 .. n_buckets - 1
      BY <1>1, HashIs
    <3>2. \A k \in M : ~(Hash(k, n_buckets) < first.i)
      BY <2>1, <3>1
    <3>3. \A k \in M : Hash(k, n_buckets) = first.i => ~(first.n = Null \/ pos[k] < pos[first.n])
      BY <1>1, <2>1, <3>1 DEF PointsAt
    <3> QED
      BY <3>2, <3>3 DEF Taken
  <2>3. \E p \in [Keys -> Nat] : Chained(first.new, {}, p)
    BY <2>1, EmptyIs
  <2>4. Cardinality({}) = 0
    BY FS_EmptySet
  <2>5. first.n # Null => first.n \in M /\ Hash(first.n, n_buckets) = first.i
    BY <1>1, <2>1 DEF PointsAt
  <2> HIDE DEF first
  <2> QED
    BY <1>1, <2>1, <2>2, <2>3, <2>4, <2>5 DEF MoveInv
<1> HIDE DEF first
<1>8. \E f : f = Body(f)
  <2>1. PICK f : Iteration(f, Moves(count), first, G, last)
    BY <1>2, <1>4, <1>6, Iterates
  <2>2. f \in [0 .. last -> Moves(count)] /\ f[0] = first /\ \A j \in 1 .. last : f[j] = G[f[j - 1]]
    BY <2>1 DEF Iteration
  <2>3. \A j \in 0 .. last : f[j] = IF j = 0 THEN first ELSE Emptying(f[j - 1])
    <3> TAKE j \in 0 .. last
    <3>1. CASE j = 0
      BY <2>2, <3>1
    <3>2. CASE j # 0
      <4>1. j \in 1 .. last /\ j - 1 \in 0 .. last
        BY <1>2, <3>2
      <4>2. f[j - 1] \in Moves(count) /\ f[j] = G[f[j - 1]]
        BY <2>2, <4>1
      <4> QED
        BY <1>5, <3>2, <4>2
    <3> QED
      BY <3>1, <3>2
  <2>4. f = [j \in 0 .. last |-> f[j]]
    BY <2>2
  <2>5. [j \in 0 .. last |-> f[j]] = Body(f)
    BY <2>3
  <2> QED
    BY <2>4, <2>5
<1>9. moved = Body(moved)
  BY <1>8
<1> HIDE DEF moved
<1>10. moved[0] = first /\ \A j \in 1 .. last : moved[j] = Emptying(moved[j - 1])
  <2>1. moved[0] = Body(moved)[0] /\ \A j \in 1 .. last : moved[j] = Body(moved)[j]
    BY <1>9, Zenon
  <2>2. Body(moved)[0] = first /\ \A j \in 1 .. last : Body(moved)[j] = Emptying(moved[j - 1])
    BY <1>2
  <2> HIDE DEF Body
  <2> QED
    BY <2>1, <2>2
<1>l. last \in Nat /\ 0 \in 0 .. last /\ last \in 0 .. last
  BY <1>2
<1> HIDE DEF last
<1> DEFINE true == [j \in 0 .. last |-> moved[j] \in Moves(count) /\ MoveInv(moved[j], j, M, pos)]
<1>11. true[0]
  <2>1. moved[0] \in Moves(count) /\ MoveInv(moved[0], 0, M, pos)
    BY <1>4, <1>7, <1>10
  <2> QED
    BY <1>l, <2>1
<1>12. ASSUME NEW j \in 1 .. last, true[j - 1]
       PROVE  true[j]
  <2>1. j - 1 \in 0 .. last /\ j \in 0 .. last /\ j - 1 \in Nat /\ j - 1 + 1 = j
    BY <1>2
  <2>2. moved[j - 1] \in Moves(count) /\ MoveInv(moved[j - 1], j - 1, M, pos) /\ moved[j] = Emptying(moved[j - 1])
    BY <1>10, <1>12, <2>1
  <2>3. MoveInv(moved[j], j - 1 + 1, M, pos) /\ moved[j] \in Moves(count)
    BY <2>1, <2>2, EmptyingIs, EmptyingMoves
  <2> QED
    BY <2>1, <2>3
<1>13. \A j \in 0 .. last : true[j]
  <2>1. true \in [0 .. last -> BOOLEAN]
    BY DEF MoveInv
  <2> HIDE DEF true
  <2> QED
    BY <1>l, <1>11, <1>12, <2>1, Onward
<1> DEFINE m == moved[last]
<1>14. m \in Moves(count) /\ MoveInv(m, last, M, pos)
  <2>1. true[last]
    BY <1>l, <1>13
  <2> QED
    BY <1>l, <2>1
<1> HIDE DEF m, true
<1>15. m.n = Null /\ m.i + 1 = n_buckets
  <2>1. Taken(m, M, pos) \subseteq Keys
    BY <1>1 DEF Taken
  <2>2. Cardinality(Taken(m, M, pos)) \in Nat /\ Cardinality(Taken(m, M, pos)) <= Cardinality(Keys)
    BY <2>1, KeysAssumption, FS_Subset, FS_CardinalityType
  <2>3. m.i \in 0 .. n_buckets - 1
    BY <1>14 DEF MoveInv
  <2> QED
    BY <1>1, <1>2, <1>14, <2>2, <2>3 DEF MoveInv, last
<1>16. Taken(m, M, pos) = M
  <2>1. \A k \in M : Hash(k, n_buckets) < m.i \/ Hash(k, n_buckets) = m.i
    <3> TAKE k \in M
    <3>1. Hash(k, n_buckets) \in 0 .. n_buckets - 1
      BY <1>1, HashIs
    <3>2. m.i \in 0 .. n_buckets - 1
      BY <1>14 DEF MoveInv
    <3> QED
      BY <1>1, <1>15, <3>1, <3>2
  <2> QED
    BY <1>15, <2>1 DEF Taken
<1>17. m.new.count = count
  BY <1>14 DEF Moves
<1> QED
  BY <1>3, <1>14, <1>16, <1>17 DEF MoveInv, m

LEMMA NextPrime ==
    ASSUME NEW p \in Nat, NEW i \in DOMAIN Primes, Primes[i] >= p
    PROVE  next_prime(p) \in Nat \ {0} /\ next_prime(p) \in {Primes[j] : j \in DOMAIN Primes}
<1> DEFINE Is(k) == Primes[k] >= p /\ \A j \in 1 .. k - 1 : Primes[j] < p
           some == {k \in DOMAIN Primes : Primes[k] >= p}
<1>1. DOMAIN Primes = 1 .. Len(Primes) /\ Len(Primes) \in Nat /\ \A k \in DOMAIN Primes : Primes[k] \in Nat \ {0}
  BY PrimesAssumption
<1>2. PICK k \in some : \A j \in some : k <= j
  <2>1. some \subseteq Nat /\ some # {}
    BY <1>1
  <2> HIDE DEF some
  <2> QED
    BY <2>1, Least
<1>3. k \in DOMAIN Primes /\ Is(k)
  <2>1. ASSUME NEW j \in 1 .. k - 1
        PROVE  Primes[j] < p
    <3>1. j \in DOMAIN Primes /\ ~(k <= j)
      BY <1>1
    <3>2. j \notin some
      BY <1>2, <3>1
    <3> QED
      BY <1>1, <3>1, <3>2
  <2> QED
    BY <2>1
<1> DEFINE l == CHOOSE k2 \in DOMAIN Primes : Is(k2)
<1>4. l \in DOMAIN Primes
  <2> HIDE DEF Is
  <2> QED
    BY <1>3
<1>5. next_prime(p) = Primes[l]
  BY DEF next_prime
<1> HIDE DEF l
<1> QED
  BY <1>1, <1>4, <1>5

LEMMA GrowIs ==
    ASSUME NEW M, NEW pos, Chained(Current, M, pos), n_nodes = Cardinality(M),
           n_buckets \in {Primes[i] : i \in DOMAIN Primes}
    PROVE  /\ \E p \in [Keys -> Nat] : Chained(hash_table_grow, M, p)
           /\ hash_table_grow.count \in {Primes[i] : i \in DOMAIN Primes}
<1>1. n_buckets \in Nat \ {0} /\ M \subseteq Keys /\ pos \in [Keys -> Nat] /\ Current.count = n_buckets
  BY DEF Chained, Current, IsTable
<1>2. CASE n_nodes > 3 * n_buckets
  <2>1. DOMAIN Primes = 1 .. Len(Primes) /\ Len(Primes) \in DOMAIN Primes /\ Primes[Len(Primes)] \in Nat
    BY PrimesAssumption
  <2>2. Cardinality(M) <= Cardinality(Keys) /\ Cardinality(M) \in Nat /\ Cardinality(Keys) \in Nat
    BY <1>1, KeysAssumption, FS_Subset, FS_CardinalityType
  <2>3. n_buckets + 1 \in Nat /\ Primes[Len(Primes)] >= n_buckets + 1
    BY <1>1, <1>2, <2>1, <2>2, PrimesAssumption
  <2> DEFINE c == next_prime(n_buckets + 1)
  <2>4. c \in Nat \ {0} /\ c \in {Primes[j] : j \in DOMAIN Primes}
    BY <2>1, <2>3, NextPrime
  <2>5. hash_table_grow = hash_table_rebuild(c)
    BY <1>2 DEF hash_table_grow
  <2> HIDE DEF c
  <2>6. /\ \E p \in [Keys -> Nat] : Chained(hash_table_rebuild(c), M, p)
        /\ hash_table_rebuild(c).count = c
    BY <2>4, RebuildIs
  <2> QED
    BY <2>4, <2>5, <2>6
<1>3. CASE ~(n_nodes > 3 * n_buckets)
  BY <1>1, <1>3 DEF hash_table_grow
<1> QED
  BY <1>2, <1>3

LEMMA ShrinkIs ==
    ASSUME NEW M, NEW pos, Chained(Current, M, pos), n_buckets \in {Primes[i] : i \in DOMAIN Primes}
    PROVE  /\ \E p \in [Keys -> Nat] : Chained(hash_table_shrink, M, p)
           /\ hash_table_shrink.count \in {Primes[i] : i \in DOMAIN Primes}
<1>1. n_buckets \in Nat \ {0} /\ pos \in [Keys -> Nat] /\ Current.count = n_buckets
  BY DEF Chained, Current, IsTable
<1>2. CASE n_nodes > n_buckets
  <2>1. n_buckets \div 2 \in Nat /\ n_buckets >= n_buckets \div 2
    BY <1>1
  <2>2. PICK i \in DOMAIN Primes : Primes[i] >= n_buckets \div 2
    BY <2>1
  <2> DEFINE c == next_prime(n_buckets \div 2)
  <2>4. c \in Nat \ {0} /\ c \in {Primes[j] : j \in DOMAIN Primes}
    BY <2>1, <2>2, NextPrime
  <2>5. hash_table_shrink = hash_table_rebuild(c)
    BY <1>2 DEF hash_table_shrink
  <2> HIDE DEF c
  <2>6. /\ \E p \in [Keys -> Nat] : Chained(hash_table_rebuild(c), M, p)
        /\ hash_table_rebuild(c).count = c
    BY <2>4, RebuildIs
  <2> QED
    BY <2>4, <2>5, <2>6
<1>3. CASE ~(n_nodes > n_buckets)
  BY <1>1, <1>3 DEF hash_table_shrink
<1> QED
  BY <1>2, <1>3

-------------------------------------------------------------------------------
(* The calls.  Only t is in one, or about to be; M are the nodes in the chains. *)
Alone(t, M, pos) ==
    /\ t \in Callers /\ M \in SUBSET Keys /\ pos \in [Keys -> Nat]
    /\ \A u \in Callers \ {t} : local[u].pc = "idle"
    /\ Chained(Current, M, pos) /\ n_nodes = Cardinality(M \cup Out(local[t]))
    /\ LocalInv(local[t], Current, M, pos)

MovingFact ==
    \A t \in Callers : (\A u \in Callers \ {t} : local[u].pc = "idle") => Moving = Out(local[t])

LEMMA MovingIs == MovingFact
BY DEF MovingFact, Moving, Out

(* Both in the next state. *)
ContentsFact == \A M \in SUBSET Keys : \A pos \in [Keys -> Nat] : Chained(Current, M, pos) => Contents = M

LEMMA InNext == ContentsFact' /\ MovingFact'
<1>1. ContentsFact
  BY ContentsAre DEF ContentsFact
<1> QED
  BY <1>1, MovingIs, PTL

LEMMA AloneIs ==
    ASSUME TableInv, NEW t \in Callers, \A u \in Callers \ {t} : local[u].pc = "idle"
    PROVE  /\ TableShape
           /\ \E M, pos : Alone(t, M, pos) /\ Entries = M \cup Out(local[t]) /\ Contents = M
<1>1. TableShape
  BY DEF TableInv
<1>2. PICK M \in SUBSET Keys, pos \in [Keys -> Nat] :
         /\ Chained(Current, M, pos) /\ n_nodes = Cardinality(M \cup Moving)
         /\ \A u \in Callers : LocalInv(local[u], Current, M, pos)
  BY DEF TableInv
<1>3. Moving = Out(local[t])
  BY MovingIs DEF MovingFact
<1>4. Contents = M
  BY <1>2, ContentsAre
<1>5. Alone(t, M, pos)
  BY <1>2, <1>3 DEF Alone
<1> QED
  BY <1>1, <1>3, <1>4, <1>5 DEF Entries

(* A step of t, to the locals l and the table u. *)
LEMMA StepTo ==
    ASSUME TableShape, NEW t \in Callers, \A v \in Callers \ {t} : local[v].pc = "idle",
           NEW l \in Local, local' = [local EXCEPT ![t] = l], l.pc # "fault",
           NEW u, u = Current', u.count \in {Primes[i] : i \in DOMAIN Primes}, n_nodes' \in Nat,
           NEW M \in SUBSET Keys, NEW pos \in [Keys -> Nat], Chained(u, M, pos),
           n_nodes' = Cardinality(M \cup Out(l)), LocalInv(l, u, M, pos)
    PROVE  TableInv' /\ Entries' = M \cup Out(l)
<1>1. /\ local' \in [Callers -> Local] /\ local'[t] = l
      /\ \A v \in Callers \ {t} : local'[v] = local[v] /\ local'[v].pc = "idle"
  BY DEF TableShape
<1>2. TableShape'
  <2>1. n_buckets' = u.count
    BY DEF Current
  <2> QED
    BY <1>1, <2>1 DEF TableShape
<1>4. Moving' = Out(l)
  BY <1>1, InNext DEF MovingFact
<1>5. Contents' = M
  BY InNext DEF ContentsFact
<1>6. \A v \in Callers : LocalInv(local'[v], u, M, pos)
  <2> TAKE v \in Callers
  <2>1. CASE v = t
    BY <1>1, <2>1
  <2>2. CASE v # t
    <3>1. local'[v].pc = "idle"
      BY <1>1, <2>2
    <3> QED
      BY <3>1 DEF LocalInv
  <2> QED
    BY <2>1, <2>2
<1>7. TableInv'
  BY <1>2, <1>4, <1>6 DEF TableInv
<1> QED
  BY <1>4, <1>5, <1>7 DEF Entries

LEMMA StepOn ==
    ASSUME TableShape, NEW t \in Callers, NEW M, NEW pos, Alone(t, M, pos), UNCHANGED table,
           NEW l \in Local, local' = [local EXCEPT ![t] = l], l.pc # "fault",
           Out(l) = Out(local[t]), LocalInv(l, Current, M, pos)
    PROVE  TableInv' /\ Entries' = M \cup Out(l)
<1>1. PICK u : u = Current'
  OBVIOUS
<1>2. u = Current /\ n_nodes' = n_nodes
  BY <1>1 DEF Current, table
<1>3. /\ u.count = n_buckets /\ Chained(u, M, pos) /\ M \in SUBSET Keys /\ pos \in [Keys -> Nat]
      /\ \A v \in Callers \ {t} : local[v].pc = "idle" /\ n_nodes = Cardinality(M \cup Out(l))
      /\ LocalInv(l, u, M, pos)
  BY <1>2 DEF Alone, Current
<1>4. u.count \in {Primes[i] : i \in DOMAIN Primes} /\ n_nodes' \in Nat /\ n_nodes' = Cardinality(M \cup Out(l))
  <2>1. n_nodes = Cardinality(M \cup Out(l))
    BY DEF Alone
  <2> QED
    BY <1>2, <1>3, <2>1 DEF TableShape
<1>5. \A v \in Callers \ {t} : local[v].pc = "idle"
  BY DEF Alone
<1> QED
  BY <1>1, <1>3, <1>4, <1>5, StepTo

(* What the steps of a call read of the table. *)
LEMMA ReadIs ==
    ASSUME TableShape, NEW t, NEW M, NEW pos, Alone(t, M, pos)
    PROVE  /\ local[t] \in Local /\ M \subseteq Keys /\ Null \notin Keys /\ pos \in [Keys -> Nat]
           /\ n_buckets \in Nat \ {0} /\ buckets \in [0 .. n_buckets - 1 -> Pointer] /\ next \in [Keys -> Pointer]
           /\ Current.count = n_buckets /\ Current.buckets = buckets /\ Current.next = next
           /\ \A k \in Keys : Hash(k, n_buckets) \in 0 .. n_buckets - 1
           /\ \A j, k \in M : Hash(j, n_buckets) = Hash(k, n_buckets) /\ pos[j] = pos[k] => j = k
           /\ \A b \in 0 .. n_buckets - 1 : PointsAt(buckets[b], b, 0, M, pos, n_buckets)
           /\ \A k \in M : PointsAt(next[k], Hash(k, n_buckets), pos[k] + 1, M, pos, n_buckets)
<1>1. Chained(Current, M, pos) /\ t \in Callers
  BY DEF Alone
<1>2. Current.count = n_buckets /\ Current.buckets = buckets /\ Current.next = next
  BY DEF Current
<1>3. /\ n_buckets \in Nat \ {0} /\ buckets \in [0 .. n_buckets - 1 -> Pointer] /\ next \in [Keys -> Pointer]
      /\ M \subseteq Keys /\ pos \in [Keys -> Nat]
  BY <1>1 DEF Chained, Current, IsTable
<1>4. \A k \in Keys : Hash(k, n_buckets) \in 0 .. n_buckets - 1
  BY <1>3, HashIs
<1>5. local[t] \in Local /\ Null \notin Keys
  BY <1>1, KeysAssumption DEF TableShape
<1>6. /\ \A j, k \in M : Hash(j, n_buckets) = Hash(k, n_buckets) /\ pos[j] = pos[k] => j = k
      /\ \A b \in 0 .. n_buckets - 1 : PointsAt(buckets[b], b, 0, M, pos, n_buckets)
      /\ \A k \in M : PointsAt(next[k], Hash(k, n_buckets), pos[k] + 1, M, pos, n_buckets)
  BY <1>1, <1>2 DEF Chained
<1> QED
  BY <1>2, <1>3, <1>4, <1>5, <1>6

(* The walk pointer of a lookup is at a node of the chain of its key. *)
LEMMA WalkIs ==
    ASSUME TableShape, NEW t, NEW M, NEW pos, Alone(t, M, pos), local[t].pc = "walk"
    PROVE  local[t].o # Null =>
               local[t].o \in M /\ Hash(local[t].o, n_buckets) = Hash(local[t].key, n_buckets)
<1>1. PICK l : l = local[t]
  OBVIOUS
<1>2. Walking(l, Current, M, pos) /\ l \in Local
  BY <1>1, ReadIs DEF Alone, LocalInv
<1>3. l.key \in Keys /\ l.o \in Pointer
  BY <1>2 DEF Local
<1>4. IF l.n = Null THEN l.o = buckets[Hash(l.key, n_buckets)]
      ELSE l.n \in M /\ Hash(l.n, n_buckets) = Hash(l.key, n_buckets) /\ next[l.n] = l.o
  BY <1>2, ReadIs DEF Walking
<1>5. CASE l.n = Null
  <2>1. PointsAt(l.o, Hash(l.key, n_buckets), 0, M, pos, n_buckets)
    BY <1>3, <1>4, <1>5, ReadIs
  <2> QED
    BY <1>1, <2>1 DEF PointsAt
<1>6. CASE l.n # Null
  <2>1. l.n \in M /\ Hash(l.n, n_buckets) = Hash(l.key, n_buckets)
    BY <1>4, <1>6
  <2>2. PointsAt(l.o, Hash(l.n, n_buckets), pos[l.n] + 1, M, pos, n_buckets)
    BY <1>4, <1>6, <2>1, ReadIs
  <2> QED
    BY <1>1, <2>1, <2>2 DEF PointsAt
<1> QED
  BY <1>5, <1>6

(* A traversal that goes on after the node at the front of its chain. *)
LEMMA FrontShown ==
    ASSUME NEW u, NEW M, NEW pos, Chained(u, M, pos), NEW l, NEW k \in M,
           u.buckets[Hash(k, u.count)] = k, l.c = u.next[k], l.i = Hash(k, u.count),
           l.visited \subseteq M, k \in l.visited,
           \A j \in M : Hash(j, u.count) < l.i => j \in l.visited
    PROVE  Shown(l, u, M, pos)
<1>1. /\ u.count \in Nat \ {0} /\ M \subseteq Keys /\ Null \notin Keys /\ pos \in [Keys -> Nat]
      /\ \A i, j \in M : Hash(i, u.count) = Hash(j, u.count) /\ pos[i] = pos[j] => i = j
      /\ \A b \in 0 .. u.count - 1 : PointsAt(u.buckets[b], b, 0, M, pos, u.count)
      /\ \A j \in M : PointsAt(u.next[j], Hash(j, u.count), pos[j] + 1, M, pos, u.count)
  BY KeysAssumption DEF Chained, IsTable
<1>2. Hash(k, u.count) \in 0 .. u.count - 1
  BY <1>1, HashIs
<1>3. pos[k] = 0
  BY <1>1, <1>2 DEF PointsAt
<1>4. PointsAt(l.c, l.i, 1, M, pos, u.count)
  BY <1>1, <1>3
<1>5. l.c # Null => l.c \in M /\ Hash(l.c, u.count) = l.i
  BY <1>4 DEF PointsAt
<1>6. ASSUME NEW j \in M, Hash(j, u.count) = l.i, l.c = Null \/ pos[j] < pos[l.c]
      PROVE  j \in l.visited
  <2>1. pos[j] \in Nat /\ pos[j] < 1
    BY <1>1, <1>4, <1>6 DEF PointsAt
  <2>2. j = k
    BY <1>1, <1>3, <1>6, <2>1
  <2> QED
    BY <2>2
<1> QED
  BY <1>2, <1>5, <1>6 DEF Shown

LEMMA LookOnKeeps ==
    ASSUME TableShape, NEW t, NEW M, NEW pos, Alone(t, M, pos), LookOn(t)
    PROVE  TableInv' /\ Entries' = M \cup Out(local[t])
<1>1. PICK l : l = local[t]
  OBVIOUS
<1>2. /\ l \in Local /\ l.pc = "walk" /\ l.o # Null /\ UNCHANGED table /\ t \in Callers
      /\ Walking(l, Current, M, pos)
      /\ l.call = "lookup" \/ (l.call = "broadcast" /\ LookingUp(l, Current, M))
  BY <1>1, ReadIs DEF LookOn, Alone, LocalInv
<1>3. l.o \in M /\ Hash(l.o, n_buckets) = Hash(l.key, n_buckets) /\ l.key \in Keys
  BY <1>1, <1>2, WalkIs DEF Local
<1>4. CASE l.o = l.key
  <2>1. PICK l2 : l2 = [l EXCEPT !.pc = "unlink"]
    OBVIOUS
  <2>2. /\ l2 \in Local /\ l2.pc = "unlink" /\ l2.o = l.o /\ l2.key = l.key /\ l2.n = l.n /\ l2.call = l.call
        /\ l2.i = l.i /\ l2.c = l.c /\ l2.visited = l.visited
    BY <1>2, <2>1 DEF Local
  <2>3. l.o # buckets[Hash(l.key, n_buckets)] /\ local' = [local EXCEPT ![t] = l2]
    BY <1>1, <1>4, <2>1 DEF LookOn
  <2>4. LeavingChain(l2, Current, M)
    BY <1>2, <1>3, <1>4, <2>2, <2>3, ReadIs DEF Walking, LeavingChain
  <2>5. LocalInv(l2, Current, M, pos)
    BY <1>2, <2>2, <2>4 DEF LocalInv, LookingUp
  <2> QED
    BY <1>1, <1>2, <2>2, <2>3, <2>5, StepOn DEF Out
<1>5. CASE l.o # l.key
  <2>1. PICK l2 : l2 = [l EXCEPT !.n = l.o, !.o = next[l.o]]
    OBVIOUS
  <2>a. next[l.o] \in Pointer /\ l.o \in Pointer
    BY <1>3, ReadIs DEF Pointer
  <2>2. /\ l2 \in Local /\ l2.pc = "walk" /\ l2.o = next[l.o] /\ l2.key = l.key /\ l2.n = l.o /\ l2.call = l.call
        /\ l2.i = l.i /\ l2.c = l.c /\ l2.visited = l.visited
    BY <1>2, <2>1, <2>a DEF Local
  <2>3. local' = [local EXCEPT ![t] = l2]
    <3>1. local' = [local EXCEPT ![t].n = l.o, ![t].o = next[l.o]]
      BY <1>1, <1>5 DEF LookOn
    <3> QED
      BY <1>1, <1>2, <2>1, <3>1 DEF TableShape
  <2>4. ASSUME l.key \in M
        PROVE  l2.o # Null /\ pos[l2.o] <= pos[l.key]
    <3>1. pos[l.o] <= pos[l.key] /\ pos[l.o] # pos[l.key] /\ pos[l.o] \in Nat /\ pos[l.key] \in Nat
      BY <1>2, <1>3, <1>5, <2>4, ReadIs DEF Walking
    <3>2. pos[l.o] + 1 <= pos[l.key]
      BY <3>1
    <3>3. PointsAt(l2.o, Hash(l.key, n_buckets), pos[l.o] + 1, M, pos, n_buckets)
      BY <1>3, <2>2, ReadIs
    <3> QED
      BY <2>4, <3>1, <3>2, <3>3 DEF PointsAt
  <2>5. Walking(l2, Current, M, pos)
    BY <1>3, <2>2, <2>4, ReadIs DEF Walking
  <2>6. l.call = "broadcast" => LookingUp(l2, Current, M)
    BY <1>2, <1>5, <2>2 DEF LookingUp
  <2>7. LocalInv(l2, Current, M, pos)
    BY <1>2, <2>2, <2>5, <2>6 DEF LocalInv
  <2> QED
    BY <1>1, <1>2, <2>2, <2>3, <2>7, StepOn DEF Out
<1> QED
  BY <1>4, <1>5

(* What the call leaves when it ends. *)
LEMMA EndedIs ==
    ASSUME NEW l \in Local, NEW answer \in SUBSET Keys, NEW u, NEW M, NEW pos
    PROVE  /\ Ended(l, answer) \in Local /\ Ended(l, answer).pc = "idle"
           /\ Ended(l, answer).answer = answer /\ Ended(l, answer).key = l.key /\ Ended(l, answer).call = l.call
           /\ Out(Ended(l, answer)) = {} /\ LocalInv(Ended(l, answer), u, M, pos)
<1>1. PICK e : e = Ended(l, answer)
  OBVIOUS
<1>2. e \in Local /\ e.pc = "idle" /\ e.answer = answer /\ e.key = l.key /\ e.call = l.call
  BY <1>1 DEF Ended, Local, Pointer
<1>3. Out(e) = {} /\ LocalInv(e, u, M, pos)
  BY <1>2 DEF Out, LocalInv
<1> QED
  BY <1>1, <1>2, <1>3

LEMMA FoundKeeps ==
    ASSUME TableShape, NEW t, NEW M, NEW pos, Alone(t, M, pos), Found(t)
    PROVE  /\ TableInv' /\ Entries' = M \cup Out(local[t])
           /\ local[t].call # "broadcast" =>
                  local' = [local EXCEPT ![t] = Ended(local[t], M \cap {local[t].key})]
<1>1. PICK l : l = local[t]
  OBVIOUS
<1>2. /\ l \in Local /\ l.pc = "walk" /\ UNCHANGED table /\ t \in Callers
      /\ l.o # Null => l.o = l.key /\ l.o = buckets[Hash(l.key, n_buckets)]
      /\ local' = [local EXCEPT ![t] = Returned(l, {l.o} \ {Null})]
      /\ Walking(l, Current, M, pos)
      /\ l.call = "lookup" \/ (l.call = "broadcast" /\ LookingUp(l, Current, M))
  BY <1>1, ReadIs DEF Found, Alone, LocalInv
<1>3. l.o # Null => l.o \in M
  BY <1>1, <1>2, WalkIs
<1>4. {l.o} \ {Null} = M \cap {l.key}
  BY <1>2, <1>3, ReadIs DEF Walking
<1>5. CASE l.call # "broadcast"
  <2>1. PICK l2 : l2 = Ended(l, M \cap {l.key})
    OBVIOUS
  <2>2. local' = [local EXCEPT ![t] = l2]
    BY <1>2, <1>4, <1>5, <2>1 DEF Returned
  <2>3. M \cap {l.key} \in SUBSET Keys
    BY ReadIs
  <2>4. l2 \in Local /\ l2.pc = "idle" /\ Out(l2) = {} /\ LocalInv(l2, Current, M, pos)
    BY <1>2, <2>1, <2>3, EndedIs
  <2>5. Out(l2) = Out(local[t])
    BY <1>1, <1>2, <2>4 DEF Out
  <2>6. TableInv' /\ Entries' = M \cup Out(l2)
    BY <1>2, <2>2, <2>4, <2>5, StepOn
  <2> QED
    BY <1>1, <2>1, <2>2, <2>4, <2>5, <2>6
<1>6. CASE l.call = "broadcast"
  <2>1. PICK l2 : l2 = [l EXCEPT !.pc = "iterate", !.n = Null, !.o = Null, !.c = next[l.c]]
    OBVIOUS
  <2>2. next' = next
    BY <1>2 DEF table
  <2>3. local' = [local EXCEPT ![t] = l2]
    BY <1>2, <1>6, <2>1, <2>2 DEF Returned
  <2>4. LookingUp(l, Current, M) /\ l.key \in M /\ l.o = l.key /\ buckets[Hash(l.key, n_buckets)] = l.key
    <3>1. l.key \in Keys /\ Null \notin Keys
      BY <1>2, ReadIs DEF Local
    <3> QED
      BY <1>2, <1>3, <1>6, <3>1 DEF LookingUp, Walking
  <2>5. next[l.c] \in Pointer
    BY <2>4, ReadIs DEF LookingUp
  <2>6. /\ l2 \in Local /\ l2.pc = "iterate" /\ l2.call = "broadcast" /\ l2.c = next[l.key]
        /\ l2.i = l.i /\ l2.visited = l.visited
    BY <1>2, <1>6, <2>1, <2>4, <2>5 DEF Local, LookingUp, Pointer
  <2>7. Shown(l2, Current, M, pos)
    <3>1. Chained(Current, M, pos)
      BY DEF Alone
    <3>2. /\ l.i = Hash(l.key, Current.count) /\ l.visited \subseteq M /\ l.key \in l.visited
          /\ \A j \in M : Hash(j, Current.count) < l.i => j \in l.visited
      BY <2>4 DEF LookingUp
    <3>3. Current.buckets[Hash(l.key, Current.count)] = l.key /\ l2.c = Current.next[l.key]
      BY <2>4, <2>6, ReadIs
    <3> QED
      BY <2>4, <2>6, <3>1, <3>2, <3>3, FrontShown
  <2>8. LocalInv(l2, Current, M, pos) /\ Out(l2) = Out(local[t])
    BY <1>1, <1>2, <2>6, <2>7 DEF LocalInv, Out
  <2>9. TableInv' /\ Entries' = M \cup Out(l2)
    BY <1>2, <2>3, <2>6, <2>8, StepOn
  <2> QED
    BY <1>1, <1>6, <2>8, <2>9
<1> QED
  BY <1>5, <1>6

LEMMA LookupKeeps ==
    ASSUME TableShape, NEW t, NEW M, NEW pos, Alone(t, M, pos), NEW k \in Keys, local[t].pc = "idle", Lookup(t, k)
    PROVE  TableInv' /\ Entries' = M \cup Out(local[t])
<1>1. PICK l : l = local[t]
  OBVIOUS
<1>2. PICK l2 : l2 = [Walk(l, k) EXCEPT !.call = "lookup", !.answer = {}]
  OBVIOUS
<1>3. l \in Local /\ local' = [local EXCEPT ![t] = l2] /\ UNCHANGED table /\ t \in Callers
  BY <1>1, <1>2, ReadIs DEF Lookup, Alone
<1>4. Hash(k, n_buckets) \in 0 .. n_buckets - 1 /\ buckets[Hash(k, n_buckets)] \in Pointer
  BY ReadIs
<1>5. /\ l2 \in Local /\ l2.pc = "walk" /\ l2.call = "lookup" /\ l2.key = k /\ l2.n = Null
      /\ l2.o = buckets[Hash(k, n_buckets)]
  BY <1>2, <1>3, <1>4 DEF Walk, Local, Pointer
<1>6. ASSUME k \in M PROVE l2.o # Null /\ pos[l2.o] <= pos[k]
  <2>1. PointsAt(l2.o, Hash(k, n_buckets), 0, M, pos, n_buckets) /\ pos[k] \in Nat
    BY <1>4, <1>5, ReadIs
  <2> QED
    BY <1>6, <2>1 DEF PointsAt
<1>7. LocalInv(l2, Current, M, pos)
  BY <1>5, <1>6, ReadIs DEF LocalInv, Walking
<1>8. Out(l2) = Out(local[t])
  BY <1>5 DEF Out
<1>9. TableInv' /\ Entries' = M \cup Out(l2)
  BY <1>3, <1>5, <1>7, <1>8, StepOn
<1> QED
  BY <1>8, <1>9

LEMMA IterateKeeps ==
    ASSUME TableShape, NEW t, NEW M, NEW pos, Alone(t, M, pos), local[t].pc = "idle",
           NEW call \in {"iterate", "broadcast"}, Iterate(t, call)
    PROVE  TableInv' /\ Entries' = M \cup Out(local[t])
<1>1. PICK l : l = local[t]
  OBVIOUS
<1>2. PICK l2 : l2 = [l EXCEPT !.pc = "iterate", !.call = call, !.answer = {}, !.visited = {},
                               !.i = 0, !.c = buckets[0]]
  OBVIOUS
<1>3. l \in Local /\ local' = [local EXCEPT ![t] = l2] /\ UNCHANGED table /\ t \in Callers
  BY <1>1, <1>2, ReadIs DEF Iterate, Alone
<1>4. 0 \in 0 .. n_buckets - 1 /\ buckets[0] \in Pointer /\ PointsAt(buckets[0], 0, 0, M, pos, n_buckets)
  BY ReadIs
<1>5. /\ l2 \in Local /\ l2.pc = "iterate" /\ l2.call = call /\ l2.visited = {} /\ l2.i = 0 /\ l2.c = buckets[0]
  BY <1>2, <1>3, <1>4 DEF Local, Pointer
<1>6. Shown(l2, Current, M, pos)
  <2>1. \A k \in M : ~(Hash(k, n_buckets) < 0) /\ pos[k] \in Nat
    BY ReadIs
  <2>2. \A k \in M : ~(Hash(k, n_buckets) = 0 /\ (l2.c = Null \/ pos[k] < pos[l2.c]))
    BY <1>4, <1>5, <2>1 DEF PointsAt
  <2> QED
    BY <1>4, <1>5, <2>1, <2>2, ReadIs DEF Shown, PointsAt
<1>7. LocalInv(l2, Current, M, pos)
  BY <1>5, <1>6 DEF LocalInv
<1>8. Out(l2) = Out(local[t])
  BY <1>5 DEF Out
<1>9. TableInv' /\ Entries' = M \cup Out(l2)
  BY <1>3, <1>5, <1>7, <1>8, StepOn
<1> QED
  BY <1>8, <1>9

LEMMA VisitKeeps ==
    ASSUME TableShape, NEW t, NEW M, NEW pos, Alone(t, M, pos), Visit(t)
    PROVE  TableInv' /\ Entries' = M \cup Out(local[t])
<1>1. PICK l : l = local[t]
  OBVIOUS
<1>2. PICK l2 : l2 = [l EXCEPT !.pc = "callback", !.visited = @ \cup {l.c}]
  OBVIOUS
<1>3. /\ l \in Local /\ local' = [local EXCEPT ![t] = l2] /\ UNCHANGED table /\ t \in Callers
      /\ l.pc = "iterate" /\ l.c # Null
      /\ l.call \in {"iterate", "broadcast"} /\ Shown(l, Current, M, pos)
  <2>1. local' = [local EXCEPT ![t].pc = "callback", ![t].visited = @ \cup {l.c}]
    BY <1>1 DEF Visit
  <2>2. local' = [local EXCEPT ![t] = l2]
    BY <1>1, <1>2, <2>1 DEF TableShape, Alone
  <2> QED
    BY <1>1, <2>2, ReadIs DEF Visit, Alone, LocalInv
<1>4. l.c \in M /\ M \subseteq Keys
  BY <1>3, ReadIs DEF Shown
<1>5. /\ l2 \in Local /\ l2.pc = "callback" /\ l2.call = l.call /\ l2.visited = l.visited \cup {l.c}
      /\ l2.i = l.i /\ l2.c = l.c
  BY <1>2, <1>3, <1>4 DEF Local, Pointer
<1>6. Shown(l2, Current, M, pos)
  BY <1>3, <1>4, <1>5 DEF Shown
<1>7. LocalInv(l2, Current, M, pos)
  BY <1>3, <1>5, <1>6 DEF LocalInv
<1>8. Out(l2) = Out(local[t])
  BY <1>1, <1>3, <1>5 DEF Out
<1>9. TableInv' /\ Entries' = M \cup Out(l2)
  BY <1>3, <1>5, <1>7, <1>8, StepOn
<1> QED
  BY <1>8, <1>9

LEMMA NextBucketKeeps ==
    ASSUME TableShape, NEW t, NEW M, NEW pos, Alone(t, M, pos), NextBucket(t)
    PROVE  /\ TableInv' /\ Entries' = M \cup Out(local[t])
           /\ local' = [local EXCEPT ![t] = Ended(local[t], M)] \/ local'[t].pc = "iterate"
<1>1. PICK l : l = local[t]
  OBVIOUS
<1>2. /\ l \in Local /\ UNCHANGED table /\ t \in Callers /\ l.pc = "iterate" /\ l.c = Null
      /\ l.call \in {"iterate", "broadcast"} /\ Shown(l, Current, M, pos)
      /\ local' = [local EXCEPT ![t] = IF l.i + 1 = n_buckets THEN Ended(l, l.visited)
                                       ELSE [l EXCEPT !.i = @ + 1, !.c = buckets[l.i + 1]]]
  BY <1>1, ReadIs DEF NextBucket, Alone, LocalInv
<1>3. /\ l.i \in 0 .. n_buckets - 1 /\ l.visited \subseteq M
      /\ \A k \in M : Hash(k, n_buckets) < l.i + 1 => k \in l.visited
  BY <1>2, ReadIs DEF Shown
<1>8. Out(local[t]) = {}
  BY <1>1, <1>2 DEF Out
<1>4. CASE l.i + 1 = n_buckets
  <2>1. l.visited = M /\ M \in SUBSET Keys
    <3>1. \A k \in M : Hash(k, n_buckets) \in 0 .. n_buckets - 1 /\ n_buckets \in Nat
      BY ReadIs
    <3>2. \A k \in M : Hash(k, n_buckets) < l.i + 1
      BY <1>4, <3>1
    <3> QED
      BY <1>3, <3>2, ReadIs
  <2>2. PICK l2 : l2 = Ended(l, M)
    OBVIOUS
  <2>3. local' = [local EXCEPT ![t] = l2]
    BY <1>2, <1>4, <2>1, <2>2
  <2>4. l2 \in Local /\ l2.pc = "idle" /\ Out(l2) = Out(local[t]) /\ LocalInv(l2, Current, M, pos)
    BY <1>2, <1>8, <2>1, <2>2, EndedIs
  <2>5. TableInv' /\ Entries' = M \cup Out(l2)
    BY <1>2, <2>3, <2>4, StepOn
  <2> QED
    BY <1>1, <1>8, <2>2, <2>3, <2>4, <2>5
<1>5. CASE l.i + 1 # n_buckets
  <2>1. PICK l2 : l2 = [l EXCEPT !.i = @ + 1, !.c = buckets[l.i + 1]]
    OBVIOUS
  <2>2. local' = [local EXCEPT ![t] = l2]
    BY <1>2, <1>5, <2>1
  <2>3. l.i + 1 \in 0 .. n_buckets - 1 /\ l.i + 1 \in Nat
    BY <1>3, <1>5, ReadIs
  <2>4. buckets[l.i + 1] \in Pointer /\ PointsAt(buckets[l.i + 1], l.i + 1, 0, M, pos, n_buckets)
    BY <2>3, ReadIs
  <2>5. /\ l2 \in Local /\ l2.pc = "iterate" /\ l2.call = l.call /\ l2.visited = l.visited
        /\ l2.i = l.i + 1 /\ l2.c = buckets[l.i + 1]
    BY <1>2, <2>1, <2>3, <2>4 DEF Local
  <2>6. Shown(l2, Current, M, pos)
    <3>1. \A k \in M : ~(Hash(k, n_buckets) = l2.i /\ (l2.c = Null \/ pos[k] < pos[l2.c]))
      BY <2>4, <2>5, ReadIs DEF PointsAt
    <3> QED
      BY <1>3, <2>3, <2>4, <2>5, <3>1, ReadIs DEF Shown, PointsAt
  <2>7. LocalInv(l2, Current, M, pos) /\ Out(l2) = Out(local[t])
    BY <1>2, <1>8, <2>5, <2>6 DEF LocalInv, Out
  <2>8. TableInv' /\ Entries' = M \cup Out(l2)
    BY <1>2, <1>8, <2>2, <2>5, <2>7, StepOn
  <2>9. local'[t] = l2
    BY <1>2, <2>2 DEF TableShape
  <2> QED
    BY <1>8, <2>5, <2>7, <2>8, <2>9
<1> QED
  BY <1>4, <1>5

LEMMA CallbackKeeps ==
    ASSUME TableShape, NEW t, NEW M, NEW pos, Alone(t, M, pos), Callback(t)
    PROVE  /\ TableInv' /\ Entries' = M \cup Out(local[t])
           /\ \/ local'[t].pc = "iterate"
              \/ local[t].visited \subseteq M /\ local' = [local EXCEPT ![t] = Ended(local[t], local[t].visited)]
<1>1. PICK l : l = local[t]
  OBVIOUS
<1>2. /\ l \in Local /\ UNCHANGED table /\ t \in Callers /\ l.pc = "callback"
      /\ l.call \in {"iterate", "broadcast"} /\ Shown(l, Current, M, pos) /\ l.c \in l.visited
  BY <1>1, ReadIs DEF Callback, Alone, LocalInv
<1>3. Out(local[t]) = {} /\ l.c \in M /\ l.visited \subseteq M /\ l.i \in 0 .. n_buckets - 1
  BY <1>1, <1>2, ReadIs DEF Out, Shown
<1>4. CASE local' = [local EXCEPT ![t] = Ended(l, l.visited)]
  <2>1. PICK l2 : l2 = Ended(l, l.visited)
    OBVIOUS
  <2>2. l.visited \in SUBSET Keys
    BY <1>3, ReadIs
  <2>3. l2 \in Local /\ l2.pc = "idle" /\ Out(l2) = Out(local[t]) /\ LocalInv(l2, Current, M, pos)
    BY <1>2, <1>3, <2>1, <2>2, EndedIs
  <2>4. TableInv' /\ Entries' = M \cup Out(l2)
    BY <1>2, <1>4, <2>1, <2>3, StepOn
  <2> QED
    BY <1>1, <1>3, <1>4, <2>3, <2>4
<1>5. CASE local' = [local EXCEPT ![t].pc = "iterate", ![t].c = next[l.c]]
  <2>1. PICK l2 : l2 = [l EXCEPT !.pc = "iterate", !.c = next[l.c]]
    OBVIOUS
  <2>2. local' = [local EXCEPT ![t] = l2]
    BY <1>1, <1>2, <1>5, <2>1 DEF TableShape
  <2>3. /\ next[l.c] \in Pointer /\ Hash(l.c, n_buckets) = l.i
        /\ PointsAt(next[l.c], l.i, pos[l.c] + 1, M, pos, n_buckets)
    BY <1>2, <1>3, ReadIs DEF Shown
  <2>4. /\ l2 \in Local /\ l2.pc = "iterate" /\ l2.call = l.call /\ l2.visited = l.visited
        /\ l2.i = l.i /\ l2.c = next[l.c]
    BY <1>2, <2>1, <2>3 DEF Local
  <2>5. ASSUME NEW k \in M, Hash(k, n_buckets) = l.i, l2.c = Null \/ pos[k] < pos[l2.c]
        PROVE  k \in l.visited
    <3>1. pos[k] \in Nat /\ pos[l.c] \in Nat /\ pos[k] < pos[l.c] + 1
      BY <1>3, <2>3, <2>4, <2>5, ReadIs DEF PointsAt
    <3>2. CASE pos[k] = pos[l.c]
      BY <1>2, <1>3, <2>3, <2>5, <3>2, ReadIs
    <3>3. CASE pos[k] < pos[l.c]
      BY <1>2, <2>5, <3>3, ReadIs DEF Shown
    <3> QED
      BY <3>1, <3>2, <3>3
  <2>6. l2.c # Null => l2.c \in M /\ Hash(l2.c, n_buckets) = l2.i
    BY <2>3, <2>4 DEF PointsAt
  <2>7. Shown(l2, Current, M, pos)
    BY <1>2, <1>3, <2>4, <2>5, <2>6, ReadIs DEF Shown
  <2>8. LocalInv(l2, Current, M, pos) /\ Out(l2) = Out(local[t])
    BY <1>2, <1>3, <2>4, <2>7 DEF LocalInv, Out
  <2>9. TableInv' /\ Entries' = M \cup Out(l2)
    BY <1>2, <2>2, <2>4, <2>8, StepOn
  <2>10. local'[t] = l2
    BY <1>2, <2>2 DEF TableShape
  <2> QED
    BY <2>4, <2>8, <2>9, <2>10
<1> QED
  BY <1>1, <1>4, <1>5 DEF Callback

LEMMA CallbackLooksUpKeeps ==
    ASSUME TableShape, NEW t, NEW M, NEW pos, Alone(t, M, pos), CallbackLooksUp(t)
    PROVE  TableInv' /\ Entries' = M \cup Out(local[t])
<1>1. PICK l : l = local[t]
  OBVIOUS
<1>2. /\ l \in Local /\ UNCHANGED table /\ t \in Callers /\ l.pc = "callback" /\ l.call = "broadcast"
      /\ local' = [local EXCEPT ![t] = Walk(l, l.c)]
      /\ Shown(l, Current, M, pos) /\ l.c \in l.visited
  BY <1>1, ReadIs DEF CallbackLooksUp, Alone, LocalInv
<1>3. PICK l2 : l2 = Walk(l, l.c)
  OBVIOUS
<1>4. l.c \in M /\ Hash(l.c, n_buckets) = l.i /\ l.visited \subseteq M /\ l.i \in 0 .. n_buckets - 1
  BY <1>2, ReadIs DEF Shown
<1>5. l.c \in Keys /\ buckets[l.i] \in Pointer /\ PointsAt(buckets[l.i], l.i, 0, M, pos, n_buckets)
  BY <1>4, ReadIs
<1>6. /\ l2 \in Local /\ l2.pc = "walk" /\ l2.call = "broadcast" /\ l2.key = l.c /\ l2.c = l.c /\ l2.n = Null
      /\ l2.o = buckets[l.i] /\ l2.i = l.i /\ l2.visited = l.visited
  BY <1>2, <1>3, <1>4, <1>5 DEF Walk, Local, Pointer
<1>7. l2.o # Null /\ pos[l2.o] <= pos[l2.key]
  <2>1. pos[l.c] \in Nat
    BY <1>5, ReadIs
  <2> QED
    BY <1>4, <1>5, <1>6, <2>1 DEF PointsAt
<1>8. Walking(l2, Current, M, pos)
  BY <1>4, <1>6, <1>7, ReadIs DEF Walking
<1>9. LookingUp(l2, Current, M)
  BY <1>2, <1>4, <1>6, ReadIs DEF LookingUp, Shown
<1>10. LocalInv(l2, Current, M, pos) /\ Out(l2) = Out(local[t])
  BY <1>1, <1>2, <1>6, <1>8, <1>9 DEF LocalInv, Out
<1>11. TableInv' /\ Entries' = M \cup Out(l2)
  BY <1>2, <1>3, <1>6, <1>10, StepOn
<1> QED
  BY <1>10, <1>11

(* o leaves its chain, and only n pointed at it. *)
LEMMA LeaveChainKeeps ==
    ASSUME TableShape, NEW t, NEW M, NEW pos, Alone(t, M, pos), LeaveChain(t)
    PROVE  TableInv' /\ Entries' = M \cup Out(local[t])
<1>1. PICK l : l = local[t]
  OBVIOUS
<1>2. /\ l \in Local /\ t \in Callers /\ l.pc = "unlink" /\ LeavingChain(l, Current, M)
      /\ l.call = "lookup" \/ (l.call = "broadcast" /\ LookingUp(l, Current, M))
      /\ next' = IF l.n = Null THEN next ELSE [next EXCEPT ![l.n] = next[l.o]]
      /\ local' = [local EXCEPT ![t].pc = IF l.n = Null THEN "fault" ELSE "relink"]
      /\ UNCHANGED <<n_nodes, n_buckets, buckets>>
      /\ n_nodes = Cardinality(M \cup Out(l)) /\ Chained(Current, M, pos)
      /\ \A v \in Callers \ {t} : local[v].pc = "idle"
  BY <1>1, ReadIs DEF LeaveChain, Alone, LocalInv
<1>3. l.o = l.key /\ l.o \in M /\ l.n \in M /\ next[l.n] = l.o /\ l.n # Null /\ l.n \in Keys /\ l.o \in Keys
  BY <1>2, ReadIs DEF LeavingChain
<1>4. next' = [next EXCEPT ![l.n] = next[l.o]]
  BY <1>2, <1>3
<1>5. PICK l2 : l2 = [l EXCEPT !.pc = "relink"]
  OBVIOUS
<1>6. local' = [local EXCEPT ![t] = l2]
  BY <1>1, <1>2, <1>3, <1>5
<1>7. /\ l2 \in Local /\ l2.pc = "relink" /\ l2.call = l.call /\ l2.key = l.key /\ l2.o = l.o /\ l2.i = l.i
      /\ l2.c = l.c /\ l2.visited = l.visited
  BY <1>2, <1>5 DEF Local
<1>8. PICK u : u = Current'
  OBVIOUS
<1>9. u.count = n_buckets /\ u.buckets = buckets /\ u.next = next'
  BY <1>2, <1>8 DEF Current
<1>10. IsTable(u)
  <2>1. next' \in [Keys -> Pointer]
    BY <1>3, <1>4, ReadIs
  <2>2. u = [count |-> n_buckets, buckets |-> buckets, next |-> next']
    BY <1>2, <1>8 DEF Current
  <2> QED
    BY <2>1, <2>2, ReadIs DEF IsTable
<1>11. Hash(l.n, n_buckets) = Hash(l.o, n_buckets) /\ pos[l.o] = pos[l.n] + 1 /\ pos[l.n] \in Nat
  <2>1. /\ PointsAt(next[l.n], Hash(l.n, n_buckets), pos[l.n] + 1, M, pos, n_buckets)
        /\ pos[l.n] \in Nat /\ Null \notin Keys
    BY <1>3, ReadIs
  <2>2. PointsAt(l.o, Hash(l.n, n_buckets), pos[l.n] + 1, M, pos, n_buckets) /\ l.o # Null
    BY <1>3, <2>1
  <2> QED
    BY <2>1, <2>2 DEF PointsAt
<1>12. \A b \in 0 .. n_buckets - 1 : buckets[b] # l.o
  <2> SUFFICES ASSUME NEW b \in 0 .. n_buckets - 1, buckets[b] = l.o PROVE FALSE
    OBVIOUS
  <2>1. PointsAt(l.o, b, 0, M, pos, n_buckets) /\ l.o # Null
    BY <1>3, ReadIs
  <2>2. pos[l.o] = 0
    BY <2>1 DEF PointsAt
  <2> QED
    BY <1>11, <2>2
<1>13. \A j \in M \ {l.o} : u.next[j] = IF next[j] = l.o THEN next[l.o] ELSE next[j]
  <2> TAKE j \in M \ {l.o}
  <2>1. CASE j = l.n
    BY <1>3, <1>4, <1>9, <2>1, ReadIs
  <2>2. CASE j # l.n
    <3>1. next'[j] = next[j] /\ pos[j] \in Nat
      BY <1>4, <2>2, ReadIs
    <3>2. next[j] # l.o
      <4>1. SUFFICES ASSUME next[j] = l.o PROVE FALSE
        OBVIOUS
      <4>2. Hash(l.o, n_buckets) = Hash(j, n_buckets) /\ pos[l.o] = pos[j] + 1
        BY <1>3, <4>1, ReadIs DEF PointsAt
      <4>3. pos[j] = pos[l.n]
        BY <1>11, <3>1, <4>2
      <4> QED
        BY <1>3, <1>11, <2>2, <4>2, <4>3, ReadIs
    <3> QED
      BY <1>9, <3>1, <3>2
  <2> QED
    BY <2>1, <2>2
<1>14. Chained(u, M \ {l.o}, Without(l.o, n_buckets, pos))
  <2>1. \A b \in 0 .. Current.count - 1 :
           u.buckets[b] = IF Current.buckets[b] = l.o THEN Current.next[l.o] ELSE Current.buckets[b]
    BY <1>9, <1>12, ReadIs
  <2>2. \A j \in M \ {l.o} : u.next[j] = IF Current.next[j] = l.o THEN Current.next[l.o] ELSE Current.next[j]
    BY <1>13, ReadIs
  <2>3. u.count = Current.count /\ n_buckets = Current.count
    BY <1>9, ReadIs
  <2> QED
    BY <1>2, <1>3, <1>10, <2>1, <2>2, <2>3, NodeOut
<1>15. LocalInv(l2, u, M \ {l.o}, Without(l.o, n_buckets, pos))
  <2>1. OutOfChain(l2, M \ {l.o})
    BY <1>3, <1>7 DEF OutOfChain
  <2>2. l.call = "broadcast" => LookingUp(l2, u, M \ {l.o})
    BY <1>2, <1>3, <1>7, <1>9, ReadIs DEF LookingUp
  <2> QED
    BY <1>2, <1>7, <2>1, <2>2 DEF LocalInv
<1>16. Out(l) = {} /\ Out(l2) = {l.o} /\ (M \ {l.o}) \cup Out(l2) = M \cup Out(l)
  BY <1>2, <1>3, <1>7 DEF Out
<1>17. /\ u.count \in {Primes[i] : i \in DOMAIN Primes} /\ n_nodes' \in Nat
       /\ n_nodes' = Cardinality((M \ {l.o}) \cup Out(l2))
       /\ M \ {l.o} \in SUBSET Keys /\ Without(l.o, n_buckets, pos) \in [Keys -> Nat]
  BY <1>2, <1>9, <1>14, <1>16 DEF TableShape, Chained
<1>18. TableInv' /\ Entries' = (M \ {l.o}) \cup Out(l2)
  BY <1>2, <1>6, <1>7, <1>8, <1>14, <1>15, <1>17, StepTo
<1> QED
  BY <1>1, <1>16, <1>18

(* o is in no chain, and next[o] changes. *)
LEMMA PointAtFrontKeeps ==
    ASSUME TableShape, NEW t, NEW M, NEW pos, Alone(t, M, pos), PointAtFront(t)
    PROVE  TableInv' /\ Entries' = M \cup Out(local[t])
<1>1. PICK l : l = local[t]
  OBVIOUS
<1>2. /\ l \in Local /\ t \in Callers /\ l.pc = "relink" /\ OutOfChain(l, M)
      /\ l.call = "lookup" \/ (l.call = "broadcast" /\ LookingUp(l, Current, M))
      /\ next' = [next EXCEPT ![l.o] = buckets[Hash(l.key, n_buckets)]]
      /\ local' = [local EXCEPT ![t].pc = "front"]
      /\ UNCHANGED <<n_nodes, n_buckets, buckets>>
      /\ n_nodes = Cardinality(M \cup Out(l)) /\ Chained(Current, M, pos)
      /\ \A v \in Callers \ {t} : local[v].pc = "idle"
  BY <1>1, ReadIs DEF PointAtFront, Alone, LocalInv
<1>3. /\ l.o = l.key /\ l.o \notin M /\ l.o \in Keys /\ Hash(l.key, n_buckets) \in 0 .. n_buckets - 1
      /\ buckets[Hash(l.key, n_buckets)] \in Pointer
  BY <1>2, ReadIs DEF OutOfChain, Local
<1>4. PICK l2 : l2 = [l EXCEPT !.pc = "front"]
  OBVIOUS
<1>5. local' = [local EXCEPT ![t] = l2]
  BY <1>1, <1>2, <1>4
<1>6. /\ l2 \in Local /\ l2.pc = "front" /\ l2.call = l.call /\ l2.key = l.key /\ l2.o = l.o /\ l2.i = l.i
      /\ l2.c = l.c /\ l2.visited = l.visited
  BY <1>2, <1>4 DEF Local
<1>7. PICK u : u = Current'
  OBVIOUS
<1>8. u.count = n_buckets /\ u.buckets = buckets /\ u.next = next'
  BY <1>2, <1>7 DEF Current
<1>9. IsTable(u)
  <2>1. next' \in [Keys -> Pointer]
    BY <1>2, <1>3, ReadIs
  <2>2. u = [count |-> n_buckets, buckets |-> buckets, next |-> next']
    BY <1>2, <1>7 DEF Current
  <2> QED
    BY <2>1, <2>2, ReadIs DEF IsTable
<1>10. \A j \in M : u.next[j] = next[j]
  BY <1>2, <1>3, <1>8, ReadIs
<1>11. u.next[l.o] = u.buckets[Hash(l.key, u.count)]
  BY <1>2, <1>3, <1>8, ReadIs
<1>12. Chained(u, M, pos)
  <2>1. /\ \A k \in M : \A p \in 0 .. pos[k] : \E j \in M : Hash(j, n_buckets) = Hash(k, n_buckets) /\ pos[j] = p
        /\ \A b \in 0 .. n_buckets - 1 : PointsAt(u.buckets[b], b, 0, M, pos, n_buckets)
        /\ \A k \in M : PointsAt(u.next[k], Hash(k, n_buckets), pos[k] + 1, M, pos, n_buckets)
    BY <1>2, <1>8, <1>10, ReadIs DEF Chained
  <2>2. /\ M \subseteq Keys /\ pos \in [Keys -> Nat]
        /\ \A j, k \in M : Hash(j, n_buckets) = Hash(k, n_buckets) /\ pos[j] = pos[k] => j = k
    BY ReadIs
  <2>3. u.count = n_buckets
    BY <1>8
  <2> QED
    BY <1>9, <2>1, <2>2, <2>3, ChainedIs
<1>13. LocalInv(l2, u, M, pos)
  <2>1. OutOfChain(l2, M)
    BY <1>3, <1>6 DEF OutOfChain
  <2>2. l.call = "broadcast" => LookingUp(l2, u, M)
    BY <1>2, <1>3, <1>6, <1>8, ReadIs DEF LookingUp
  <2> QED
    BY <1>2, <1>6, <1>11, <2>1, <2>2 DEF LocalInv
<1>14. Out(l) = {l.o} /\ Out(l2) = {l.o}
  BY <1>2, <1>6 DEF Out
<1>15. /\ u.count \in {Primes[i] : i \in DOMAIN Primes} /\ n_nodes' \in Nat
       /\ n_nodes' = Cardinality(M \cup Out(l2)) /\ M \in SUBSET Keys /\ pos \in [Keys -> Nat]
  BY <1>2, <1>8, <1>14, ReadIs DEF TableShape
<1>16. TableInv' /\ Entries' = M \cup Out(l2)
  BY <1>2, <1>5, <1>6, <1>7, <1>12, <1>13, <1>15, StepTo
<1> QED
  BY <1>1, <1>14, <1>16

LEMMA BecomeFrontKeeps ==
    ASSUME TableShape, NEW t, NEW M, NEW pos, Alone(t, M, pos), BecomeFront(t)
    PROVE  /\ TableInv' /\ Entries' = M \cup Out(local[t])
           /\ local[t].call # "broadcast" =>
                  local' = [local EXCEPT ![t] = Ended(local[t], Entries' \cap {local[t].key})]
<1>1. PICK l : l = local[t]
  OBVIOUS
<1>2. /\ l \in Local /\ t \in Callers /\ l.pc = "front" /\ OutOfChain(l, M)
      /\ l.call = "lookup" \/ (l.call = "broadcast" /\ LookingUp(l, Current, M))
      /\ next[l.o] = buckets[Hash(l.key, n_buckets)]
      /\ buckets' = [buckets EXCEPT ![Hash(l.key, n_buckets)] = l.o]
      /\ local' = [local EXCEPT ![t] = Returned(l, {l.o})]
      /\ UNCHANGED <<n_nodes, n_buckets, next>>
      /\ n_nodes = Cardinality(M \cup Out(l)) /\ Chained(Current, M, pos)
      /\ \A v \in Callers \ {t} : local[v].pc = "idle"
  BY <1>1, ReadIs DEF BecomeFront, Alone, LocalInv
<1>3. /\ l.o = l.key /\ l.o \notin M /\ l.o \in Keys /\ l.o \in Pointer
      /\ Hash(l.key, n_buckets) \in 0 .. n_buckets - 1
  BY <1>2, ReadIs DEF OutOfChain, Local, Pointer
<1>4. PICK u : u = Current'
  OBVIOUS
<1>5. u.count = n_buckets /\ u.buckets = buckets' /\ u.next = next
  BY <1>2, <1>4 DEF Current
<1>6. IsTable(u)
  <2>1. buckets' \in [0 .. n_buckets - 1 -> Pointer]
    BY <1>2, <1>3, ReadIs
  <2>2. u = [count |-> n_buckets, buckets |-> buckets', next |-> next]
    BY <1>2, <1>4 DEF Current
  <2> QED
    BY <2>1, <2>2, ReadIs DEF IsTable
<1>7. PICK pos2 : pos2 = Ahead(l.o, n_buckets, pos)
  OBVIOUS
<1>8. u.buckets[Hash(l.o, n_buckets)] = l.o
  BY <1>2, <1>3, <1>5, ReadIs
<1>9. Chained(u, M \cup {l.o}, pos2)
  <2>1. n_buckets = Current.count /\ u.count = Current.count
    BY <1>5, ReadIs
  <2>2. u.next[l.o] = Current.buckets[Hash(l.o, Current.count)]
    BY <1>2, <1>3, <1>5, ReadIs
  <2>3. \A b \in 0 .. Current.count - 1 : b # Hash(l.o, Current.count) => u.buckets[b] = Current.buckets[b]
    BY <1>2, <1>3, <1>5, ReadIs
  <2>4. \A j \in M : u.next[j] = Current.next[j]
    BY <1>5, ReadIs
  <2> QED
    BY <1>2, <1>3, <1>6, <1>7, <1>8, <2>1, <2>2, <2>3, <2>4, NodeIn
<1>10. Out(l) = {l.o}
  BY <1>2 DEF Out
<1>11. /\ u.count \in {Primes[i] : i \in DOMAIN Primes} /\ n_nodes' \in Nat
       /\ n_nodes' = Cardinality(M \cup {l.o}) /\ M \cup {l.o} \in SUBSET Keys /\ pos2 \in [Keys -> Nat]
  BY <1>2, <1>5, <1>9, <1>10 DEF TableShape, Chained
<1>12. CASE l.call # "broadcast"
  <2>1. PICK l2 : l2 = Ended(l, {l.o})
    OBVIOUS
  <2>2. local' = [local EXCEPT ![t] = l2]
    BY <1>2, <1>12, <2>1 DEF Returned
  <2>3. l2 \in Local /\ l2.pc = "idle" /\ Out(l2) = {} /\ LocalInv(l2, u, M \cup {l.o}, pos2)
    BY <1>2, <1>3, <2>1, EndedIs
  <2>4. n_nodes' = Cardinality((M \cup {l.o}) \cup Out(l2))
    BY <1>11, <2>3
  <2>5. TableInv' /\ Entries' = (M \cup {l.o}) \cup Out(l2)
    BY <1>2, <1>4, <1>9, <1>11, <2>2, <2>3, <2>4, StepTo
  <2>6. Entries' \cap {l.key} = {l.o} /\ Entries' = M \cup {l.o}
    BY <1>3, <2>3, <2>5
  <2> QED
    BY <1>1, <1>10, <2>1, <2>2, <2>5, <2>6
<1>13. CASE l.call = "broadcast"
  <2>1. PICK l2 : l2 = [l EXCEPT !.pc = "iterate", !.n = Null, !.o = Null, !.c = next[l.c]]
    OBVIOUS
  <2>2. LookingUp(l, Current, M)
    BY <1>2, <1>13
  <2>3. l.c = l.key /\ next[l.c] \in Pointer
    BY <1>3, <2>2, ReadIs DEF LookingUp
  <2>4. local' = [local EXCEPT ![t] = l2]
    <3>1. next' = next
      BY <1>2
    <3> QED
      BY <1>2, <1>13, <2>1, <3>1 DEF Returned
  <2>5. /\ l2 \in Local /\ l2.pc = "iterate" /\ l2.call = "broadcast" /\ l2.c = next[l.o]
        /\ l2.i = l.i /\ l2.visited = l.visited
    BY <1>2, <1>3, <1>13, <2>1, <2>3 DEF Local, Pointer
  <2>6. Shown(l2, u, M \cup {l.o}, pos2)
    <3>1. /\ l2.i = Hash(l.o, u.count) /\ l2.visited \subseteq M \cup {l.o} /\ l.o \in l2.visited
          /\ \A j \in M : Hash(j, u.count) < l2.i => j \in l2.visited
      BY <1>3, <1>5, <2>2, <2>5, ReadIs DEF LookingUp
    <3>2. \A j \in M \cup {l.o} : Hash(j, u.count) < l2.i => j \in l2.visited
      BY <3>1
    <3>3. u.buckets[Hash(l.o, u.count)] = l.o /\ l2.c = u.next[l.o]
      BY <1>5, <1>8, <2>5
    <3> QED
      BY <1>9, <3>1, <3>2, <3>3, FrontShown
  <2>7. LocalInv(l2, u, M \cup {l.o}, pos2) /\ Out(l2) = {}
    BY <2>5, <2>6 DEF LocalInv, Out
  <2>8. n_nodes' = Cardinality((M \cup {l.o}) \cup Out(l2))
    BY <1>11, <2>7
  <2>9. TableInv' /\ Entries' = (M \cup {l.o}) \cup Out(l2)
    BY <1>2, <1>4, <1>9, <1>11, <2>4, <2>5, <2>7, <2>8, StepTo
  <2> QED
    BY <1>1, <1>10, <1>13, <2>7, <2>9
<1> QED
  BY <1>12, <1>13

(* An exclusive call, to the table w. *)
LEMMA WriteIs ==
    ASSUME TableShape, NEW t \in Callers, \A v \in Callers \ {t} : local[v].pc = "idle",
           local[t].pc = "idle",
           NEW call \in {"insert", "remove"}, NEW k \in Keys, NEW answer \in SUBSET Keys, Set(t, call, k, answer),
           NEW w, IsTable(w), Store(w), w.count \in {Primes[i] : i \in DOMAIN Primes},
           NEW M \in SUBSET Keys, NEW pos \in [Keys -> Nat], Chained(w, M, pos),
           n_nodes' = Cardinality(M)
    PROVE  TableInv' /\ Entries' = M
<1>1. PICK l : l = local[t]
  OBVIOUS
<1>2. PICK l2 : l2 = [l EXCEPT !.call = call, !.key = k, !.answer = answer]
  OBVIOUS
<1>3. l \in Local /\ l.pc = "idle" /\ local' = [local EXCEPT ![t] = l2]
  BY <1>1, <1>2 DEF TableShape, Set
<1>4. l2 \in Local /\ l2.pc = "idle"
  BY <1>2, <1>3 DEF Local
<1>5. Out(l2) = {} /\ LocalInv(l2, w, M, pos)
  BY <1>4 DEF Out, LocalInv
<1>6. w = Current'
  BY DEF Store, Current, IsTable
<1>7. n_nodes' \in Nat /\ n_nodes' = Cardinality(M \cup Out(l2))
  <2>1. IsFiniteSet(M)
    BY KeysAssumption, FS_Subset
  <2> QED
    BY <1>5, <2>1, FS_CardinalityType
<1>8. TableInv' /\ Entries' = M \cup Out(l2)
  BY <1>3, <1>4, <1>5, <1>6, <1>7, StepTo
<1> QED
  BY <1>5, <1>8

LEMMA InsertKeeps ==
    ASSUME TableShape, NEW t, NEW M, NEW pos, Alone(t, M, pos), Contents = M, local[t].pc = "idle",
           NEW k \in Keys, collection_insert(t, k)
    PROVE  TableInv' /\ Entries' = M \cup {k}
<1>1. /\ t \in Callers /\ M \in SUBSET Keys /\ \A v \in Callers \ {t} : local[v].pc = "idle"
      /\ Chained(Current, M, pos) /\ n_nodes = Cardinality(M)
  BY DEF Alone, Out
<1>2. n_buckets \in {Primes[i] : i \in DOMAIN Primes}
  BY DEF TableShape
<1>3. PICK p \in [Keys -> Nat] : Chained(hash_table_grow, M, p)
  BY <1>1, <1>2, GrowIs
<1>4. hash_table_grow.count \in {Primes[i] : i \in DOMAIN Primes}
  BY <1>1, <1>2, GrowIs
<1>5. PICK g : g = hash_table_grow
  OBVIOUS
<1>6. Set(t, "insert", k, M \cap {k}) /\ M \cap {k} \in SUBSET Keys
  BY <1>1 DEF collection_insert
<1>7. CASE k \in M
  <2>1. Store(g) /\ n_nodes' = Cardinality(M) /\ M \cup {k} = M
    BY <1>1, <1>5, <1>7 DEF collection_insert
  <2>2. IsTable(g) /\ Chained(g, M, p) /\ g.count \in {Primes[i] : i \in DOMAIN Primes}
    BY <1>3, <1>4, <1>5 DEF Chained
  <2> QED
    BY <1>1, <1>3, <1>6, <2>1, <2>2, WriteIs
<1>8. CASE k \notin M
  <2>1. PICK w : w = Push(g, k)
    OBVIOUS
  <2>2. Store(w) /\ n_nodes' = n_nodes + 1
    BY <1>5, <1>8, <2>1 DEF collection_insert
  <2>3. PICK q : q = Ahead(k, g.count, p)
    OBVIOUS
  <2>4. Chained(w, M \cup {k}, q) /\ w.count = g.count
    BY <1>3, <1>5, <1>8, <2>1, <2>3, PushIs
  <2>5. IsTable(w) /\ q \in [Keys -> Nat]
    BY <2>4 DEF Chained
  <2>6. n_nodes' = Cardinality(M \cup {k})
    <3>1. IsFiniteSet(M)
      BY <1>1, KeysAssumption, FS_Subset
    <3> QED
      BY <1>1, <1>8, <2>2, <3>1, FS_AddElement
  <2>7. w.count \in {Primes[i] : i \in DOMAIN Primes} /\ M \cup {k} \in SUBSET Keys
    BY <1>1, <1>4, <1>5, <2>4
  <2> QED
    BY <1>1, <1>6, <2>2, <2>4, <2>5, <2>6, <2>7, WriteIs
<1> QED
  BY <1>7, <1>8

LEMMA RemoveKeeps ==
    ASSUME TableShape, NEW t, NEW M, NEW pos, Alone(t, M, pos), Contents = M, local[t].pc = "idle",
           NEW k \in Keys, collection_remove(t, k)
    PROVE  TableInv' /\ Entries' = M \ {k}
<1>1. /\ t \in Callers /\ M \in SUBSET Keys /\ \A v \in Callers \ {t} : local[v].pc = "idle"
      /\ Chained(Current, M, pos) /\ n_nodes = Cardinality(M)
  BY DEF Alone, Out
<1>2. n_buckets \in {Primes[i] : i \in DOMAIN Primes}
  BY DEF TableShape
<1>3. PICK p \in [Keys -> Nat] : Chained(hash_table_shrink, M, p)
  BY <1>1, <1>2, ShrinkIs
<1>4. hash_table_shrink.count \in {Primes[i] : i \in DOMAIN Primes}
  BY <1>1, <1>2, ShrinkIs
<1>5. PICK g : g = hash_table_shrink
  OBVIOUS
<1>6. Set(t, "remove", k, M \cap {k}) /\ M \cap {k} \in SUBSET Keys
  BY <1>1 DEF collection_remove
<1>7. CASE k \notin M
  <2>1. Store(g) /\ n_nodes' = Cardinality(M) /\ M \ {k} = M
    BY <1>1, <1>5, <1>7 DEF collection_remove
  <2>2. IsTable(g) /\ Chained(g, M, p) /\ g.count \in {Primes[i] : i \in DOMAIN Primes}
    BY <1>3, <1>4, <1>5 DEF Chained
  <2> QED
    BY <1>1, <1>3, <1>6, <2>1, <2>2, WriteIs
<1>8. CASE k \in M
  <2>1. PICK w : w = TakenOut(g, k)
    OBVIOUS
  <2>2. Store(w) /\ n_nodes' = n_nodes - 1
    BY <1>5, <1>8, <2>1 DEF collection_remove
  <2>3. PICK q : q = Without(k, g.count, p)
    OBVIOUS
  <2>4. Chained(w, M \ {k}, q) /\ w.count = g.count
    BY <1>3, <1>5, <1>8, <2>1, <2>3, TakenOutIs
  <2>5. IsTable(w) /\ q \in [Keys -> Nat]
    BY <2>4 DEF Chained
  <2>6. n_nodes' = Cardinality(M \ {k})
    <3>1. IsFiniteSet(M)
      BY <1>1, KeysAssumption, FS_Subset
    <3> QED
      BY <1>1, <1>8, <2>2, <3>1, FS_RemoveElement
  <2>7. w.count \in {Primes[i] : i \in DOMAIN Primes} /\ M \ {k} \in SUBSET Keys
    BY <1>1, <1>4, <1>5, <2>4
  <2> QED
    BY <1>1, <1>6, <2>2, <2>4, <2>5, <2>6, <2>7, WriteIs
<1> QED
  BY <1>7, <1>8

-------------------------------------------------------------------------------
(* The invariant, and the promise. *)

LEMMA TableStarts == TableInit => TableInv
<1> SUFFICES ASSUME TableInit PROVE TableInv
  OBVIOUS
<1>1. Primes[1] \in Nat \ {0} /\ 1 \in DOMAIN Primes
  BY PrimesAssumption
<1>2. \A t \in Callers : local[t] \in Local /\ local[t].pc = "idle"
  <2> TAKE t \in Callers
  <2>1. (CHOOSE k \in Keys : TRUE) \in Keys
    BY KeysAssumption
  <2> QED
    BY <2>1 DEF TableInit, Local, Pointer
<1>3. TableShape
  <2>1. local \in [Callers -> Local]
    BY <1>2 DEF TableInit
  <2> QED
    BY <1>1, <1>2, <2>1 DEF TableShape, TableInit
<1>4. Current = [count |-> Primes[1], buckets |-> [b \in 0 .. Primes[1] - 1 |-> Null],
                 next |-> [k \in Keys |-> Null]]
  BY DEF Current, TableInit
<1>5. PICK p \in [Keys -> Nat] : Chained(Current, {}, p)
  BY <1>1, <1>4, EmptyIs
<1>6. Moving = {}
  BY <1>2 DEF Moving
<1>7. n_nodes = Cardinality({} \cup Moving)
  BY <1>6, FS_EmptySet DEF TableInit
<1>8. \A t \in Callers : LocalInv(local[t], Current, {}, p)
  BY <1>2 DEF LocalInv
<1> QED
  BY <1>3, <1>5, <1>7, <1>8 DEF TableInv

AskedNow == [t \in Callers |-> AskedBy(local[t])]
AnswerNow == [t \in Callers |-> local[t].answer]

LEMMA Maps ==
    ASSUME TableShape, NEW t \in Callers, NEW l, local' = [local EXCEPT ![t] = l]
    PROVE  /\ AskedNow' = [AskedNow EXCEPT ![t] = AskedBy(l)]
           /\ AnswerNow' = [AnswerNow EXCEPT ![t] = l.answer]
           /\ AskedNow[t] = AskedBy(local[t]) /\ AnswerNow[t] = local[t].answer
<1>1. local'[t] = l /\ \A u \in Callers \ {t} : local'[u] = local[u]
  BY DEF TableShape
<1>2. AskedNow' = [u \in Callers |-> AskedBy(local'[u])] /\ AnswerNow' = [u \in Callers |-> local'[u].answer]
  BY DEF AskedNow, AnswerNow, AskedBy
<1>3. AskedNow = [u \in Callers |-> AskedBy(local[u])] /\ AnswerNow = [u \in Callers |-> local[u].answer]
  BY DEF AskedNow, AnswerNow
<1>4. AskedNow' = [AskedNow EXCEPT ![t] = AskedBy(l)]
  <2>1. \A u \in Callers : AskedNow'[u] = [AskedNow EXCEPT ![t] = AskedBy(l)][u]
    <3> TAKE u \in Callers
    <3>1. CASE u = t
      BY <1>1, <1>2, <1>3, <3>1
    <3>2. CASE u # t
      BY <1>1, <1>2, <1>3, <3>2
    <3> QED
      BY <3>1, <3>2
  <2> QED
    BY <1>2, <1>3, <2>1
<1>5. AnswerNow' = [AnswerNow EXCEPT ![t] = l.answer]
  BY <1>1, <1>2, <1>3
<1> QED
  BY <1>3, <1>4, <1>5

(* A step that the caller does not see. *)
LEMMA Silent ==
    ASSUME TableShape, NEW t \in Callers, NEW l, local' = [local EXCEPT ![t] = l],
           l.call = local[t].call, l.answer = local[t].answer,
           l.key = local[t].key \/ l.call = "broadcast", Entries' = Entries
    PROVE  UNCHANGED Promise!vars
<1>1. AskedBy(l) = AskedBy(local[t])
  BY DEF AskedBy
<1>m. /\ AskedNow' = [AskedNow EXCEPT ![t] = AskedBy(l)] /\ AnswerNow' = [AnswerNow EXCEPT ![t] = l.answer]
      /\ AskedNow[t] = AskedBy(local[t]) /\ AnswerNow[t] = local[t].answer
  BY Maps
<1>2. AskedNow' = [AskedNow EXCEPT ![t] = AskedNow[t]] /\ AnswerNow' = [AnswerNow EXCEPT ![t] = AnswerNow[t]]
  BY <1>1, <1>m
<1>3. AskedNow' = AskedNow /\ AnswerNow' = AnswerNow
  BY <1>2 DEF AskedNow, AnswerNow
<1> QED
  BY <1>3 DEF Promise!vars, Entries, AskedNow, AnswerNow

LEMMA UpdateMaps ==
    ASSUME TableShape, NEW t \in Callers, NEW call \in {"insert", "remove"}, NEW k \in Keys,
           Set(t, call, k, Entries \cap {k}),
           Entries' = IF call = "insert" THEN Entries \cup {k} ELSE Entries \ {k}
    PROVE  Promise!Next
<1>1. PICK l : l = [local[t] EXCEPT !.call = call, !.key = k, !.answer = Entries \cap {k}]
  OBVIOUS
<1>2. local' = [local EXCEPT ![t] = l]
  BY <1>1 DEF Set
<1>3. local[t] \in Local
  BY DEF TableShape
<1>4. l.call = call /\ l.key = k /\ l.answer = Entries \cap {k}
  BY <1>1, <1>3 DEF Local
<1>5. AskedBy(l) = [call |-> call, key |-> k]
  BY <1>4 DEF AskedBy
<1>6. /\ AskedNow' = [AskedNow EXCEPT ![t] = [call |-> call, key |-> k]]
      /\ AnswerNow' = [AnswerNow EXCEPT ![t] = Entries \cap {k}]
  <2>1. AskedNow' = [AskedNow EXCEPT ![t] = AskedBy(l)] /\ AnswerNow' = [AnswerNow EXCEPT ![t] = l.answer]
    BY <1>2, Maps
  <2> QED
    BY <1>4, <1>5, <2>1
<1> QED
  BY <1>6 DEF Promise!Next, Promise!Update, Entries, AskedNow, AnswerNow

LEMMA AskMaps ==
    ASSUME TableShape, NEW t \in Callers, NEW l, local' = [local EXCEPT ![t] = l],
           l.call \in {"lookup", "iterate", "broadcast"}, l.key \in Keys, l.answer = {}, Entries' = Entries
    PROVE  Promise!Next
<1>1. PICK c \in {"lookup", "iterate"}, k \in Keys : AskedBy(l) = [call |-> c, key |-> k]
  <2>1. (CHOOSE k \in Keys : TRUE) \in Keys
    BY KeysAssumption
  <2>2. CASE l.call = "lookup"
    BY <2>2 DEF AskedBy
  <2>3. CASE l.call # "lookup"
    BY <2>1, <2>3 DEF AskedBy
  <2> QED
    BY <2>2, <2>3
<1>2. c \in Promise!Calls \ {"none"}
  BY DEF Promise!Calls
<1>3. AskedNow' = [AskedNow EXCEPT ![t] = [call |-> c, key |-> k]] /\ AnswerNow' = [AnswerNow EXCEPT ![t] = {}]
  <2>1. AskedNow' = [AskedNow EXCEPT ![t] = AskedBy(l)] /\ AnswerNow' = [AnswerNow EXCEPT ![t] = l.answer]
    BY Maps
  <2> QED
    BY <1>1, <2>1
<1>4. Promise!Ask(t)
  BY <1>2, <1>3 DEF Promise!Ask, Entries, AskedNow, AnswerNow
<1> QED
  BY <1>4 DEF Promise!Next

LEMMA AnswerMaps ==
    ASSUME TableShape, NEW t \in Callers, NEW answer \in SUBSET Keys,
           local' = [local EXCEPT ![t] = Ended(local[t], answer)],
           Entries' = Entries,
           \/ local[t].call = "lookup" /\ answer = Entries \cap {local[t].key}
           \/ local[t].call \in {"iterate", "broadcast"} /\ answer \subseteq Entries
    PROVE  Promise!Next
<1>1. PICK l : l = Ended(local[t], answer)
  OBVIOUS
<1>2. local[t] \in Local
  BY DEF TableShape
<1>3. l.call = local[t].call /\ l.key = local[t].key /\ l.answer = answer
  BY <1>1, <1>2, EndedIs
<1>4. AskedBy(l) = AskedBy(local[t])
  BY <1>3 DEF AskedBy
<1>5. AskedNow' = [AskedNow EXCEPT ![t] = AskedNow[t]] /\ AnswerNow' = [AnswerNow EXCEPT ![t] = answer]
  <2>1. AskedNow' = [AskedNow EXCEPT ![t] = AskedBy(l)] /\ AnswerNow' = [AnswerNow EXCEPT ![t] = l.answer]
    BY <1>1, Maps
  <2>2. AskedNow[t] = AskedBy(local[t])
    BY <1>1, Maps
  <2> QED
    BY <1>3, <1>4, <2>1, <2>2
<1>6. AskedNow' = AskedNow
  BY <1>5 DEF AskedNow
<1>7. CASE local[t].call = "lookup"
  <2>1. AskedNow[t] = [call |-> "lookup", key |-> local[t].key] /\ answer = Entries \cap {local[t].key}
    BY <1>7 DEF AskedNow, AskedBy
  <2>2. AskedNow[t].call = "lookup" /\ AnswerNow' = [AnswerNow EXCEPT ![t] = Entries \cap {AskedNow[t].key}]
    BY <1>5, <2>1
  <2> QED
    BY <1>6, <2>2 DEF Promise!Next, Promise!Answer, Entries, AskedNow, AnswerNow
<1>8. CASE local[t].call \in {"iterate", "broadcast"}
  <2>1. AskedNow[t].call = "iterate" /\ answer \in SUBSET Entries
    BY <1>8 DEF AskedNow, AskedBy
  <2> QED
    BY <1>5, <1>6, <2>1 DEF Promise!Next, Promise!Answer, Entries, AskedNow, AnswerNow
<1> QED
  BY <1>7, <1>8

(* Behind a mutex, a thread that takes a step is alone in the table. *)
LEMMA Excludes ==
    ASSUME TableShape, Environment = {}, NEW t \in Callers,
           \/ \E k \in Keys : collection_insert(t, k) \/ collection_remove(t, k) \/ Lookup(t, k)
           \/ \E call \in {"iterate", "broadcast"} : Iterate(t, call)
           \/ Running(t)
    PROVE  \A v \in Callers \ {t} : local[v].pc = "idle"
<1>1. CASE Running(t)
  <2>1. local[t].pc # "idle"
    BY <1>1 DEF Running, LookOn, Found, LeaveChain, PointAtFront, BecomeFront, Visit, NextBucket,
                Callback, CallbackLooksUp
  <2> QED
    BY <2>1 DEF TableShape
<1>2. CASE Others(t) = {}
  BY <1>2 DEF Others
<1>3. CASE \E k \in Keys : collection_insert(t, k) \/ collection_remove(t, k) \/ Lookup(t, k)
  <2>1. Others(t) = {}
    BY <1>3 DEF collection_insert, collection_remove, Lookup, MayWrite, MayRead
  <2> QED
    BY <1>2, <2>1
<1>4. CASE \E call \in {"iterate", "broadcast"} : Iterate(t, call)
  <2>1. Others(t) = {}
    BY <1>4 DEF Iterate, MayRead
  <2> QED
    BY <1>2, <2>1
<1> QED
  BY <1>1, <1>3, <1>4

LEMMA WritesMap ==
    ASSUME TableShape, NEW t, NEW M, NEW pos, Alone(t, M, pos), Contents = M, Entries = M \cup Out(local[t]),
           NEW k \in Keys, collection_insert(t, k) \/ collection_remove(t, k)
    PROVE  TableInv' /\ Promise!Next /\ local[t].pc = "idle"
<1>1. t \in Callers
  BY DEF Alone
<1>2. local[t].pc = "idle" /\ Entries = M
  BY DEF collection_insert, collection_remove, MayWrite, Out
<1>3. CASE collection_insert(t, k)
  <2>1. TableInv' /\ Entries' = M \cup {k}
    BY <1>2, <1>3, InsertKeeps
  <2>2. Set(t, "insert", k, Entries \cap {k})
    BY <1>2, <1>3 DEF collection_insert
  <2>3. Entries' = IF "insert" = "insert" THEN Entries \cup {k} ELSE Entries \ {k}
    BY <1>2, <2>1
  <2>4. Promise!Next
    BY <1>1, <2>2, <2>3, UpdateMaps
  <2> QED
    BY <1>2, <2>1, <2>4
<1>4. CASE collection_remove(t, k)
  <2>1. TableInv' /\ Entries' = M \ {k}
    BY <1>2, <1>4, RemoveKeeps
  <2>2. Set(t, "remove", k, Entries \cap {k})
    BY <1>2, <1>4 DEF collection_remove
  <2>3. Entries' = IF "remove" = "insert" THEN Entries \cup {k} ELSE Entries \ {k}
    BY <1>2, <2>1
  <2>4. Promise!Next
    BY <1>1, <2>2, <2>3, UpdateMaps
  <2> QED
    BY <1>2, <2>1, <2>4
<1> QED
  BY <1>3, <1>4

LEMMA AsksMap ==
    ASSUME TableShape, NEW t, NEW M, NEW pos, Alone(t, M, pos), Entries = M \cup Out(local[t]),
           \/ \E k \in Keys : Lookup(t, k)
           \/ \E call \in {"iterate", "broadcast"} : Iterate(t, call)
    PROVE  TableInv' /\ Promise!Next /\ local[t].pc = "idle"
<1>1. t \in Callers /\ local[t] \in Local
  BY ReadIs DEF Alone
<1>2. local[t].pc = "idle"
  BY DEF Lookup, Iterate, MayRead
<1>3. ASSUME NEW k \in Keys, Lookup(t, k)
      PROVE  TableInv' /\ Promise!Next
  <2>1. TableInv' /\ Entries' = M \cup Out(local[t])
    BY <1>2, <1>3, LookupKeeps
  <2>2. PICK l : l = [Walk(local[t], k) EXCEPT !.call = "lookup", !.answer = {}]
    OBVIOUS
  <2>3. local' = [local EXCEPT ![t] = l]
    BY <1>3, <2>2 DEF Lookup
  <2>4. l.call = "lookup" /\ l.key = k /\ l.answer = {}
    BY <1>1, <2>2 DEF Walk, Local
  <2>5. Promise!Next
    BY <1>1, <2>1, <2>3, <2>4, AskMaps
  <2> QED
    BY <2>1, <2>5
<1>4. ASSUME NEW call \in {"iterate", "broadcast"}, Iterate(t, call)
      PROVE  TableInv' /\ Promise!Next
  <2>1. TableInv' /\ Entries' = M \cup Out(local[t])
    BY <1>2, <1>4, IterateKeeps
  <2>2. PICK l : l = [local[t] EXCEPT !.pc = "iterate", !.call = call, !.answer = {}, !.visited = {},
                                      !.i = 0, !.c = buckets[0]]
    OBVIOUS
  <2>3. local' = [local EXCEPT ![t] = l]
    BY <1>4, <2>2 DEF Iterate
  <2>4. l.call = call /\ l.key = local[t].key /\ l.answer = {} /\ l.key \in Keys
    BY <1>1, <2>2 DEF Local
  <2>5. Promise!Next
    BY <1>1, <2>1, <2>3, <2>4, AskMaps
  <2> QED
    BY <2>1, <2>5
<1> QED
  BY <1>2, <1>3, <1>4

(* Statements that the caller does not see. *)
LEMMA StatementsMap ==
    ASSUME TableShape, NEW t, NEW M, NEW pos, Alone(t, M, pos), Entries = M \cup Out(local[t]),
           \/ LookOn(t) \/ LeaveChain(t) \/ PointAtFront(t) \/ Visit(t) \/ CallbackLooksUp(t)
    PROVE  TableInv' /\ UNCHANGED Promise!vars /\ (local[t].pc = "iterate" => local'[t].pc # "idle")
<1>1. TableInv' /\ Entries' = Entries
  BY LookOnKeeps, LeaveChainKeeps, PointAtFrontKeeps, VisitKeeps, CallbackLooksUpKeeps
<1>2. t \in Callers /\ local[t] \in Local /\ local \in [Callers -> Local]
  BY ReadIs DEF Alone, TableShape
<1>3. PICK l : local' = [local EXCEPT ![t] = l] /\ l.call = local[t].call /\ l.answer = local[t].answer
               /\ (l.key = local[t].key \/ l.call = "broadcast") /\ l.pc # "idle"
  <2>1. CASE LookOn(t) /\ local[t].o = local[t].key
    <3>1. PICK l : l = [local[t] EXCEPT !.pc = "unlink"]
      OBVIOUS
    <3>2. local' = [local EXCEPT ![t] = l]
      BY <2>1, <3>1 DEF LookOn
    <3>3. l.call = local[t].call /\ l.answer = local[t].answer /\ l.key = local[t].key /\ l.pc = "unlink"
      BY <1>2, <3>1 DEF Local
    <3> QED
      BY <3>2, <3>3
  <2>2. CASE LookOn(t) /\ local[t].o # local[t].key
    <3>1. PICK l : l = [local[t] EXCEPT !.n = local[t].o, !.o = next[local[t].o]]
      OBVIOUS
    <3>2. local' = [local EXCEPT ![t] = l]
      BY <1>2, <2>2, <3>1 DEF LookOn
    <3>3. l.call = local[t].call /\ l.answer = local[t].answer /\ l.key = local[t].key /\ l.pc = local[t].pc
      BY <1>2, <3>1 DEF Local
    <3> QED
      BY <2>2, <3>2, <3>3 DEF LookOn
  <2>3. CASE LeaveChain(t)
    <3>1. PICK to : to = IF local[t].n = Null THEN "fault" ELSE "relink"
      OBVIOUS
    <3>2. PICK l : l = [local[t] EXCEPT !.pc = to]
      OBVIOUS
    <3>3. local' = [local EXCEPT ![t] = l]
      BY <2>3, <3>1, <3>2 DEF LeaveChain
    <3>4. l.call = local[t].call /\ l.answer = local[t].answer /\ l.key = local[t].key /\ l.pc # "idle"
      BY <1>2, <3>1, <3>2 DEF Local
    <3> QED
      BY <3>3, <3>4
  <2>4. CASE PointAtFront(t)
    <3>1. PICK l : l = [local[t] EXCEPT !.pc = "front"]
      OBVIOUS
    <3>2. local' = [local EXCEPT ![t] = l]
      BY <2>4, <3>1 DEF PointAtFront
    <3>3. l.call = local[t].call /\ l.answer = local[t].answer /\ l.key = local[t].key /\ l.pc = "front"
      BY <1>2, <3>1 DEF Local
    <3> QED
      BY <3>2, <3>3
  <2>5. CASE Visit(t)
    <3>1. PICK l : l = [local[t] EXCEPT !.pc = "callback", !.visited = @ \cup {local[t].c}]
      OBVIOUS
    <3>2. local' = [local EXCEPT ![t] = l]
      BY <1>2, <2>5, <3>1 DEF Visit
    <3>3. l.call = local[t].call /\ l.answer = local[t].answer /\ l.key = local[t].key /\ l.pc = "callback"
      BY <1>2, <3>1 DEF Local
    <3> QED
      BY <3>2, <3>3
  <2>6. CASE CallbackLooksUp(t)
    <3>1. PICK l : l = Walk(local[t], local[t].c)
      OBVIOUS
    <3>2. local' = [local EXCEPT ![t] = l] /\ local[t].call = "broadcast"
      BY <2>6, <3>1 DEF CallbackLooksUp
    <3>3. l.call = local[t].call /\ l.answer = local[t].answer /\ l.pc = "walk"
      BY <1>2, <3>1 DEF Walk, Local
    <3> QED
      BY <3>2, <3>3
  <2> QED
    BY <2>1, <2>2, <2>3, <2>4, <2>5, <2>6
<1>4. UNCHANGED Promise!vars
  BY <1>1, <1>2, <1>3, Silent
<1>5. local'[t] = l
  BY <1>2, <1>3
<1> QED
  BY <1>1, <1>3, <1>4, <1>5

(* Statements with which a call may end. *)
LEMMA LookupEndsMap ==
    ASSUME TableShape, NEW t, NEW M, NEW pos, Alone(t, M, pos), Entries = M \cup Out(local[t]),
           Found(t) \/ BecomeFront(t)
    PROVE  TableInv' /\ [Promise!Next]_Promise!vars /\ local[t].pc # "iterate"
<1>1. t \in Callers /\ local[t] \in Local
  BY ReadIs DEF Alone
<1>2. local[t].pc \in {"walk", "front"} /\ local[t].pc # "iterate"
  BY DEF Found, BecomeFront
<1>3. TableInv' /\ Entries' = Entries
  BY FoundKeeps, BecomeFrontKeeps
<1>4. local[t].call \in {"lookup", "broadcast"}
  BY <1>2 DEF Alone, LocalInv
<1>5. CASE local[t].call = "lookup"
  <2>1. local' = [local EXCEPT ![t] = Ended(local[t], Entries \cap {local[t].key})]
    <3>1. CASE Found(t)
      <4>1. Out(local[t]) = {}
        BY <3>1 DEF Found, Out
      <4>2. local' = [local EXCEPT ![t] = Ended(local[t], M \cap {local[t].key})]
        BY <1>5, <3>1, FoundKeeps
      <4> QED
        BY <4>1, <4>2
    <3>2. CASE BecomeFront(t)
      BY <1>3, <1>5, <3>2, BecomeFrontKeeps
    <3> QED
      BY <3>1, <3>2
  <2>2. Entries \cap {local[t].key} \in SUBSET Keys
    BY <1>1 DEF Local
  <2>3. Promise!Next
    BY <1>1, <1>3, <1>5, <2>1, <2>2, AnswerMaps
  <2> QED
    BY <1>2, <1>3, <2>3
<1>6. CASE local[t].call = "broadcast"
  <2>1. PICK l : l = [local[t] EXCEPT !.pc = "iterate", !.n = Null, !.o = Null, !.c = next'[local[t].c]]
    OBVIOUS
  <2>2. local' = [local EXCEPT ![t] = l]
    BY <1>6, <2>1 DEF Found, BecomeFront, Returned
  <2>3. l.call = local[t].call /\ l.answer = local[t].answer /\ l.key = local[t].key
    BY <1>1, <2>1 DEF Local
  <2>4. UNCHANGED Promise!vars
    BY <1>1, <1>3, <2>2, <2>3, Silent
  <2> QED
    BY <1>2, <1>3, <2>4
<1> QED
  BY <1>4, <1>5, <1>6

LEMMA TraversalEndsMap ==
    ASSUME TableShape, NEW t, NEW M, NEW pos, Alone(t, M, pos), Entries = M \cup Out(local[t]),
           NextBucket(t) \/ Callback(t)
    PROVE  /\ TableInv' /\ [Promise!Next]_Promise!vars
           /\ local[t].pc = "iterate" /\ local'[t].pc = "idle" => local'[t].answer = M
<1>1. t \in Callers /\ local[t] \in Local /\ local \in [Callers -> Local] /\ M \in SUBSET Keys
  BY ReadIs DEF Alone, TableShape
<1>2. local[t].pc \in {"iterate", "callback"} /\ local[t].call \in {"iterate", "broadcast"}
  BY DEF NextBucket, Callback, Alone, LocalInv
<1>3. TableInv' /\ Entries' = Entries /\ Entries = M
  BY <1>2, NextBucketKeeps, CallbackKeeps DEF Out
<1>4. CASE local'[t].pc = "iterate"
  <2>1. PICK l : local' = [local EXCEPT ![t] = l] /\ l.call = local[t].call /\ l.answer = local[t].answer
                 /\ l.key = local[t].key
    <3>1. CASE NextBucket(t)
      <4>1. PICK l : l = [local[t] EXCEPT !.i = @ + 1, !.c = buckets[local[t].i + 1]]
        OBVIOUS
      <4>2. local[t].i + 1 # n_buckets
        <5>1. SUFFICES ASSUME local[t].i + 1 = n_buckets PROVE FALSE
          OBVIOUS
        <5>2. local' = [local EXCEPT ![t] = Ended(local[t], local[t].visited)]
          BY <3>1, <5>1 DEF NextBucket
        <5>3. local'[t].pc = "idle"
          BY <1>1, <5>2 DEF Ended, Local
        <5> QED
          BY <1>4, <5>3
      <4>3. local' = [local EXCEPT ![t] = l]
        BY <3>1, <4>1, <4>2 DEF NextBucket
      <4>4. l.call = local[t].call /\ l.answer = local[t].answer /\ l.key = local[t].key
        BY <1>1, <4>1 DEF Local
      <4> QED
        BY <4>3, <4>4
    <3>2. CASE local' = [local EXCEPT ![t].pc = "iterate", ![t].c = next[local[t].c]]
      <4>1. PICK l : l = [local[t] EXCEPT !.pc = "iterate", !.c = next[local[t].c]]
        OBVIOUS
      <4>2. local' = [local EXCEPT ![t] = l]
        BY <1>1, <3>2, <4>1
      <4>3. l.call = local[t].call /\ l.answer = local[t].answer /\ l.key = local[t].key
        BY <1>1, <4>1 DEF Local
      <4> QED
        BY <4>2, <4>3
    <3>3. local' # [local EXCEPT ![t] = Ended(local[t], local[t].visited)]
      <4>1. SUFFICES ASSUME local' = [local EXCEPT ![t] = Ended(local[t], local[t].visited)] PROVE FALSE
        OBVIOUS
      <4>2. local'[t].pc = "idle"
        BY <1>1, <4>1 DEF Ended, Local
      <4> QED
        BY <1>4, <4>2
    <3> QED
      BY <3>1, <3>2, <3>3 DEF Callback
  <2>2. UNCHANGED Promise!vars
    BY <1>1, <1>3, <2>1, Silent
  <2> QED
    BY <1>3, <1>4, <2>2
<1>5. ASSUME NEW answer \in SUBSET M, local' = [local EXCEPT ![t] = Ended(local[t], answer)]
      PROVE  /\ TableInv' /\ [Promise!Next]_Promise!vars /\ local'[t].answer = answer
  <2>1. answer \in SUBSET Keys /\ answer \subseteq Entries
    BY <1>1, <1>3
  <2>2. Promise!Next
    BY <1>1, <1>2, <1>3, <1>5, <2>1, AnswerMaps
  <2>3. local'[t].answer = answer
    BY <1>1, <1>5 DEF Ended, Local
  <2> QED
    BY <1>3, <2>2, <2>3
<1>6. CASE NextBucket(t) /\ local'[t].pc # "iterate"
  <2>1. local' = [local EXCEPT ![t] = Ended(local[t], M)]
    BY <1>6, NextBucketKeeps
  <2> QED
    BY <1>5, <2>1
<1>7. CASE Callback(t) /\ local'[t].pc # "iterate"
  <2>1. local[t].visited \in SUBSET M /\ local' = [local EXCEPT ![t] = Ended(local[t], local[t].visited)]
    BY <1>7, CallbackKeeps
  <2>2. local[t].pc = "callback"
    BY <1>7 DEF Callback
  <2> QED
    BY <1>5, <2>1, <2>2
<1> QED
  BY <1>4, <1>6, <1>7

LEMMA TableStep ==
    ASSUME TableInv, Environment = {}, TableNext
    PROVE  /\ TableInv' /\ [Promise!Next]_Promise!vars
           /\ \A t \in Callers : local[t].pc = "iterate" /\ local'[t].pc = "idle" => local'[t].answer = Contents
<1>1. PICK t \in Callers :
        \/ \E k \in Keys : collection_insert(t, k) \/ collection_remove(t, k) \/ Lookup(t, k)
        \/ \E call \in {"iterate", "broadcast"} : Iterate(t, call)
        \/ Running(t)
  BY DEF TableNext
<1>2. TableShape
  BY DEF TableInv
<1>3. \A v \in Callers \ {t} : local[v].pc = "idle"
  BY <1>1, <1>2, Excludes
<1>4. PICK M, pos : Alone(t, M, pos) /\ Entries = M \cup Out(local[t]) /\ Contents = M
  BY <1>3, AloneIs
<1>5. /\ TableInv' /\ [Promise!Next]_Promise!vars
      /\ local[t].pc = "iterate" /\ local'[t].pc = "idle" => local'[t].answer = M
  <2>1. CASE \E k \in Keys : collection_insert(t, k) \/ collection_remove(t, k)
    BY <1>2, <1>4, <2>1, WritesMap
  <2>2. CASE (\E k \in Keys : Lookup(t, k)) \/ (\E call \in {"iterate", "broadcast"} : Iterate(t, call))
    BY <1>2, <1>4, <2>2, AsksMap
  <2>3. CASE LookOn(t) \/ LeaveChain(t) \/ PointAtFront(t) \/ Visit(t) \/ CallbackLooksUp(t)
    BY <1>2, <1>4, <2>3, StatementsMap
  <2>4. CASE Found(t) \/ BecomeFront(t)
    BY <1>2, <1>4, <2>4, LookupEndsMap
  <2>5. CASE NextBucket(t) \/ Callback(t)
    BY <1>2, <1>4, <2>5, TraversalEndsMap
  <2> QED
    BY <1>1, <2>1, <2>2, <2>3, <2>4, <2>5 DEF Running
<1> QED
  BY <1>3, <1>4, <1>5

LEMMA TableInvariant ==
    ASSUME Environment = {}
    PROVE  TableSpec => []TableInv
<1>1. TableInv /\ [TableNext]_tableVars => TableInv'
  <2> SUFFICES ASSUME TableInv, [TableNext]_tableVars PROVE TableInv'
    OBVIOUS
  <2>1. CASE TableNext
    BY <2>1, TableStep
  <2>2. CASE UNCHANGED tableVars
    BY <2>2 DEF tableVars, table, TableInv, TableShape, Current, Moving
  <2> QED
    BY <2>1, <2>2
<1> QED
  BY <1>1, TableStarts, PTL DEF TableSpec

(* Behind a mutex, while no call runs, every chain ends, holds only nodes that  *)
(* hash to it, and n_nodes counts them: lookups that move nodes, insertions and *)
(* removals that rebuild, and traversals, in any order (Collection.c).          *)
THEOREM Chains ==
    ASSUME Environment = {}
    PROVE  TableSpec => []ChainsSound
<1>1. TableInv => ChainsSound
  <2> SUFFICES ASSUME TableInv, \A t \in Callers : local[t].pc = "idle"
               PROVE  /\ Intact
                      /\ \A i \in DOMAIN buckets : \A k \in Reached(i) : Hash(k, n_buckets) = i
    BY DEF ChainsSound
  <2>1. PICK M \in SUBSET Keys, pos \in [Keys -> Nat] :
           Chained(Current, M, pos) /\ n_nodes = Cardinality(M \cup Moving)
    BY DEF TableInv
  <2>2. Moving = {}
    BY DEF Moving
  <2> QED
    BY <2>1, <2>2, ContentsAre DEF Intact
<1> QED
  BY <1>1, TableInvariant, PTL

(* Behind a mutex, a traversal that reaches the end of the table has shown      *)
(* every entry, also when its callback looked up the node it was called with    *)
(* and so moved it to the front of the chain under the traversal                *)
(* (collection_iterate).                                                        *)
THEOREM Traversals ==
    ASSUME Environment = {}
    PROVE  TableSpec => VisitsAll
<1>1. TableInv /\ [TableNext]_tableVars =>
          [\A t \in Callers :
              /\ local[t].pc = "iterate" /\ local'[t].pc = "idle"
              => local'[t].answer = Contents]_tableVars
  BY TableStep
<1> QED
  BY <1>1, TableInvariant, PTL DEF TableSpec, VisitsAll

(* Behind a mutex, the table is what Collection.h promises, a set of keys: each *)
(* call is one step of it, insertions refuse and lookups return exactly what    *)
(* the set holds, and no statement in between changes the set.                  *)
THEOREM Promised ==
    ASSUME Environment = {}
    PROVE  TableSpec => ImplementsDictionary
<1>1. TableInit => Promise!Init
  <2> SUFFICES ASSUME TableInit PROVE Promise!Init
    OBVIOUS
  <2>1. TableInv
    BY TableStarts
  <2>2. \A t \in Callers : /\ local[t].pc = "idle" /\ local[t].answer = {} /\ local[t].call = "none"
                           /\ local[t].key \in Keys
    <3>1. (CHOOSE k \in Keys : TRUE) \in Keys
      BY KeysAssumption
    <3> QED
      BY <3>1 DEF TableInit
  <2>3. Moving = {}
    BY <2>2 DEF Moving
  <2>4. Contents = {}
    <3>1. PICK M \in SUBSET Keys, pos \in [Keys -> Nat] :
             Chained(Current, M, pos) /\ n_nodes = Cardinality(M \cup Moving)
      BY <2>1 DEF TableInv
    <3>2. IsFiniteSet(M) /\ Cardinality(M) = 0
      BY <2>3, <3>1, KeysAssumption, FS_Subset DEF TableInit
    <3>3. M = {}
      BY <3>2, FS_EmptySet
    <3> QED
      BY <3>1, <3>3, ContentsAre
  <2>5. \A t \in Callers : AskedBy(local[t]) \in [call : {"none"}, key : Keys]
    BY <2>2 DEF AskedBy
  <2>6. [t \in Callers |-> local[t].answer] = [t \in Callers |-> {}]
    BY <2>2
  <2> QED
    BY <2>3, <2>4, <2>5, <2>6 DEF Promise!Init
<1>2. TableInv /\ [TableNext]_tableVars => [Promise!Next]_Promise!vars
  <2> SUFFICES ASSUME TableInv, [TableNext]_tableVars
               PROVE  [Promise!Next]_Promise!vars
    OBVIOUS
  <2>1. CASE TableNext
    BY <2>1, TableStep
  <2>2. CASE UNCHANGED tableVars
    <3>1. UNCHANGED Contents /\ UNCHANGED Moving
      BY <2>2 DEF tableVars, table, Contents, Reached, Path, Moving
    <3>2. UNCHANGED [t \in Callers |-> AskedBy(local[t])] /\ UNCHANGED [t \in Callers |-> local[t].answer]
      BY <2>2 DEF tableVars, AskedBy
    <3> QED
      BY <3>1, <3>2 DEF Promise!vars
  <2> QED
    BY <2>1, <2>2
<1> QED
  BY <1>1, <1>2, TableInvariant, PTL DEF TableSpec, ImplementsDictionary, Promise!Spec
=============================================================================
