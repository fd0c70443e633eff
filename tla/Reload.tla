------------------------------- MODULE Reload -------------------------------
(* Configuration values and their users, while SIGHUP runs server_init in     *)
(* several threads at once: the signal is blocked only in the thread that is   *)
(* handling it.  Config.c, main.c, tracker.c, and how the init functions of    *)
(* the other managers come to their values.  What the managers do with them is *)
(* in their modules, and threads that had locks when the signal came are in    *)
(* ServerLocks.                                                                *)
EXTENDS Naturals, Sequences, Functions

CONSTANTS Threads, None,
          Configs,     \* the files that the administrator writes
          Defaults,    \* what an empty table stands for
          MaxHups      \* bound: how often SIGHUP arrives

(* Of a file: its trackers, the name and description of the server, and its    *)
(* limit of downloads, each None if it is not there.  Other values are told    *)
(* apart by the file that they come from.  An empty table has no trackers.     *)
ASSUME ConfigsAssumption ==
    /\ Defaults.trackers = <<>>
    /\ \A c \in Configs \cup {Defaults} :
           /\ DOMAIN c = {"trackers", "name", "description", "max_downloads"}
           /\ c.trackers \in Seq(Range(c.trackers)) /\ IsInjective(c.trackers)
ASSUME NoneAssumption == None \notin Threads
ASSUME BoundAssumption == MaxHups \in Nat

(* The managers that server_init comes to, in its order; all but the           *)
(* connection handler keep others out while they read their values.            *)
Inits == <<"config", "tm", "ch", "f", "tfm", "tracker">>
Managers == {"tm", "ch", "f", "tfm"}
Locked == {"tm", "f", "tfm", "tracker"}

VARIABLES conf_table, \* the file that was read last
          stage,      \* stage[t]: the function of server_init that thread t is in
          hand,       \* hand[t]: the file of the first value it has read there
          owner,      \* owner[m]: who has the lock of manager m, or None
          setting,    \* setting[m]: the files that m's two values come from
          adding,     \* what f_addpath has read of base_path in a helper: the
                      \* path that the length is of, and the path that it copied
          path,       \* its last result: "none", "whole" or "broken"
          tlist, server_name, server_desc, tthread_active,
          tthread,    \* the tracker thread: "none", "sleeps" or "ended"
          told,       \* the datagrams of its last round
          hups        \* the SIGHUPs so far

tracker == <<tlist, server_name, server_desc, tthread_active, tthread, told>>
addpath == <<adding, path>>
reloadVars == <<conf_table, stage, hand, owner, setting, addpath, tracker, hups>>

Datagram(host, name, description) == [to |-> host, name |-> name, description |-> description]

ReloadInit == /\ conf_table = Defaults
              /\ stage = [t \in Threads |-> "idle"]
              /\ hand = [t \in Threads |-> None]
              /\ owner = [m \in Locked |-> None]
              /\ setting = [m \in Managers |-> <<Defaults, Defaults>>]
              /\ tlist = <<>> /\ server_name = None /\ server_desc = None
              /\ tthread_active = FALSE /\ tthread = "none" /\ told = {}
              /\ adding = [l |-> None, copy |-> None] /\ path = "none"
              /\ hups = 0

Idle(t) == stage[t] = "idle"
Goes(t, where) == stage' = [stage EXCEPT ![t] = where]

(* The function that server_init calls after m. *)
After(m) == IF m = "tracker" THEN "idle"
            ELSE Inits[1 + CHOOSE k \in DOMAIN Inits : Inits[k] = m]

Sighup(t) == /\ Idle(t) /\ hups < MaxHups
             /\ hups' = hups + 1
             /\ Goes(t, "config")
             /\ UNCHANGED <<conf_table, hand, owner, setting, addpath, tracker>>

(* A file that cannot be opened leaves the table as it was. *)
config_init(t) ==
    /\ stage[t] = "config"
    /\ conf_table' \in Configs \cup {conf_table}
    /\ Goes(t, After("config"))
    /\ UNCHANGED <<hand, owner, setting, addpath, tracker, hups>>

(* The mutex or the write lock of a manager. *)
Lock(t) ==
    /\ stage[t] \in Locked \ {"tracker"} /\ owner[stage[t]] = None
    /\ owner' = [owner EXCEPT ![stage[t]] = t]
    /\ UNCHANGED <<conf_table, stage, hand, setting, addpath, tracker, hups>>

\* mutant: a manager reads its first value before it has its lock
ReadFirst_unlocked(t) ==
    /\ stage[t] \in Managers /\ hand[t] = None
    /\ hand' = [hand EXCEPT ![t] = conf_table]
    /\ UNCHANGED <<conf_table, stage, owner, setting, addpath, tracker, hups>>

(* config_value; the table may change until the next one. *)
ReadFirst(t) ==
    /\ stage[t] \in Managers /\ hand[t] = None
    /\ stage[t] \in Locked => owner[stage[t]] = t
    /\ hand' = [hand EXCEPT ![t] = conf_table]
    /\ UNCHANGED <<conf_table, stage, owner, setting, addpath, tracker, hups>>

(* max_downloads keeps its value when the file has none, and so does           *)
(* max_uploads; other values have defaults.                                    *)
ReadSecond(t) ==
    /\ stage[t] \in Managers /\ hand[t] # None
    /\ stage[t] \in Locked => owner[stage[t]] = t
    /\ LET m == stage[t]
           keeps == m = "tfm" /\ conf_table.max_downloads = None
       IN setting' = [setting EXCEPT ![m] =
                          <<hand[t], IF keeps THEN @[2] ELSE conf_table>>]
    /\ owner' = [m \in Locked |-> IF m = stage[t] THEN None ELSE owner[m]]
    /\ hand' = [hand EXCEPT ![t] = None]
    /\ Goes(t, After(stage[t]))
    /\ UNCHANGED <<conf_table, addpath, tracker, hups>>
-----------------------------------------------------------------------------
(* f_addpath in a helper: the length is read without the lock, the path with   *)
(* it, and the length again without (fileops.c:163-167).  Of different paths   *)
(* the lengths differ, too.                                                    *)

ReadLength == /\ adding.l = None
              /\ adding' = [adding EXCEPT !.l = setting["f"]]
              /\ UNCHANGED <<conf_table, stage, hand, owner, setting, path, tracker, hups>>

CopyPath == /\ adding.l # None /\ adding.copy = None /\ owner["f"] = None
            /\ adding' = [adding EXCEPT !.copy = setting["f"]]
            /\ UNCHANGED <<conf_table, stage, hand, owner, setting, path, tracker, hups>>

AppendName == /\ adding.copy # None
              /\ path' = IF adding.l = adding.copy /\ setting["f"] = adding.copy
                         THEN "whole" ELSE "broken"
              /\ adding' = [l |-> None, copy |-> None]
              /\ UNCHANGED <<conf_table, stage, hand, owner, setting, tracker, hups>>
-----------------------------------------------------------------------------
(* tracker_init, which has tlock from its first step to its last *)

tlist_clear(t) ==
    /\ stage[t] = "tracker" /\ owner["tracker"] = None
    /\ owner' = [owner EXCEPT !["tracker"] = t]
    /\ tlist' = <<>> /\ told' = {}
    /\ UNCHANGED <<conf_table, stage, hand, setting, addpath, server_name, server_desc,
                   tthread_active, tthread, hups>>

HasTlock(t) == stage[t] = "tracker" /\ owner["tracker"] = t
Unlock(t) == /\ owner' = [owner EXCEPT !["tracker"] = None]
             /\ hand' = [hand EXCEPT ![t] = None]
             /\ Goes(t, After("tracker"))

(* The next host of the list, by its number. *)
tlist_add(t) ==
    /\ HasTlock(t) /\ hand[t] = None /\ Len(tlist) < Len(conf_table.trackers)
    /\ tlist' = Append(tlist, conf_table.trackers[Len(tlist) + 1])
    /\ UNCHANGED <<conf_table, stage, hand, owner, setting, addpath, server_name, server_desc,
                   tthread_active, tthread, told, hups>>

(* No further host.  Without any, or without a name, the rest is skipped; a    *)
(* name that the file does not have any more stays.                            *)
ReadName(t) ==
    /\ HasTlock(t) /\ hand[t] = None /\ Len(tlist) >= Len(conf_table.trackers)
    /\ IF tlist = <<>> \/ (server_name = None /\ conf_table.name = None)
       THEN /\ Unlock(t)
            /\ UNCHANGED server_name
       ELSE /\ server_name' = IF conf_table.name = None THEN server_name ELSE conf_table.name
            /\ hand' = [hand EXCEPT ![t] = conf_table]
            /\ UNCHANGED <<stage, owner>>
    /\ UNCHANGED <<conf_table, setting, addpath, tlist, server_desc, tthread_active, tthread, told, hups>>

\* mutant: the test of tthread_active is the wrong way round
Spawn_inverted(t) ==
    /\ HasTlock(t) /\ hand[t] # None
    /\ server_desc' = IF server_name = None THEN conf_table.description ELSE server_desc
    /\ tthread_active' = tthread_active
    /\ tthread' = IF tthread_active THEN "sleeps" ELSE tthread
    /\ Unlock(t)
    /\ UNCHANGED <<conf_table, setting, addpath, tlist, server_name, told, hups>>

(* The description is taken only by a server that has no name yet, but by now  *)
(* it has one (tracker.c:206).  Then tracker_thread_spawn.                     *)
Spawn(t) ==
    /\ HasTlock(t) /\ hand[t] # None
    /\ server_desc' = IF server_name = None THEN conf_table.description ELSE server_desc
    /\ tthread_active' = TRUE
    /\ tthread' = IF tthread_active THEN tthread ELSE "sleeps"
    /\ Unlock(t)
    /\ UNCHANGED <<conf_table, setting, addpath, tlist, server_name, told, hups>>

(* The tracker thread begins, or wakes: a round, or its end. *)
tracker_main ==
    /\ tthread = "sleeps" /\ owner["tracker"] = None
    /\ IF tlist = <<>>
       THEN tthread' = "ended" /\ UNCHANGED told
       ELSE /\ told' = {Datagram(h, server_name, server_desc) : h \in Range(tlist)}
            /\ UNCHANGED tthread
    /\ UNCHANGED <<conf_table, stage, hand, owner, setting, addpath, tlist, server_name, server_desc,
                   tthread_active, hups>>
-----------------------------------------------------------------------------
Step(t) == \/ config_init(t) \/ Lock(t) \/ ReadFirst(t) \/ ReadSecond(t)
           \/ tlist_clear(t) \/ tlist_add(t) \/ ReadName(t) \/ Spawn(t)

f_addpath == ReadLength \/ CopyPath \/ AppendName

ReloadNext == (\E t \in Threads : Sighup(t) \/ Step(t)) \/ f_addpath \/ tracker_main
ReloadSpec == ReloadInit /\ [][ReloadNext]_reloadVars

(* A reload goes on, and the tracker thread's sleep ends. *)
FairReloadSpec == /\ ReloadSpec
                  /\ WF_reloadVars(tracker_main)
                  /\ \A t \in Threads : WF_reloadVars(Step(t))
-----------------------------------------------------------------------------
ReloadTypeOK == /\ conf_table \in Configs \cup {Defaults}
                /\ stage \in [Threads -> Range(Inits) \cup {"idle"}]
                /\ hand \in [Threads -> Configs \cup {Defaults, None}]
                /\ owner \in [Locked -> Threads \cup {None}]
                /\ setting \in [Managers -> (Configs \cup {Defaults}) \X (Configs \cup {Defaults})]
                /\ path \in {"none", "whole", "broken"}
                /\ tlist \in Seq(UNION {Range(c.trackers) : c \in Configs \cup {Defaults}})
                /\ server_name \in {c.name : c \in Configs \cup {Defaults}} \cup {None}
                /\ server_desc \in {c.description : c \in Configs \cup {Defaults}} \cup {None}
                /\ tthread_active \in BOOLEAN
                /\ tthread \in {"none", "sleeps", "ended"}
                /\ hups \in 0 .. MaxHups

Quiet == \A t \in Threads : Idle(t)
Follows(m) == /\ setting[m][1] = conf_table
              /\ \/ setting[m][2] = conf_table
                 \/ m = "tfm" /\ conf_table.max_downloads = None

(* Reloads that overlap, each of which may have read old values and new ones,  *)
(* leave every manager with the values of the last file, in the end: because   *)
(* it has its lock while it reads them.  (A manager without a lock:            *)
(* AddressFollows.)                                                            *)
SettingsFollow ==
    Quiet => /\ \A m \in {"tm", "f", "tfm"} : Follows(m)
             /\ tlist = conf_table.trackers
             /\ tlist # <<>> /\ conf_table.name # None => server_name = conf_table.name

(* The same of the addresses that the server listens at. *)
AddressFollows == Quiet => Follows("ch")

(* The path of a file is put together of one base path. *)
PathIsWhole == path # "broken"

(* A tracker on the list is told the name of the server, if it has one, unless *)
(* the tracker thread has ended for want of trackers once (tracker.c:37).      *)
ListedAreTold ==
    \A h \in UNION {Range(c.trackers) : c \in Configs}, n \in {c.name : c \in Configs} \ {None} :
        h \in Range(tlist) /\ server_name = n ~>
            \/ \E d \in told : d.to = h /\ d.name = n
            \/ h \notin Range(tlist) \/ server_name # n \/ tthread = "ended"

ListedAreToldAlways ==
    \A h \in UNION {Range(c.trackers) : c \in Configs} :
        h \in Range(tlist) /\ server_name # None ~>
            (\E d \in told : d.to = h) \/ h \notin Range(tlist)

(* doc/README.config, server_description: "A short description of the server". *)
DescriptionIsTold ==
    Quiet => \A d \in told : conf_table.description # None => d.description = conf_table.description
=============================================================================
