-------------------------------- MODULE Claim --------------------------------
(***************************************************************************)
(* Who may use a block device: multipath, or the rest of the system? For   *)
(* each uevent udev runs "multipath -u" (multipath/multipath.rules,        *)
(* multipath/main.c, libmultipath/valid.c), which answers 1 (multipath), 0 *)
(* (released to systemd) or 2 (maybe: wait for a sibling, find_multipaths  *)
(* smart). It reads what multipathd and other multipath(8) runs leave: the *)
(* WWIDs file, the markers of failed WWIDs (libmultipath/wwids.c) and the  *)
(* kernel's maps. A run of multipath -u is two steps: is_path_valid(), and *)
(* the rest; the rules store what it says in a third. Everyone else may    *)
(* act in between.                                                         *)
(*                                                                         *)
(* One operation on the WWIDs file is one step: it is done under the lock  *)
(* of the file (open_file(), see Aliases).                                 *)
(***************************************************************************)
EXTENDS Integers, Sequences, FiniteSets

CONSTANTS
  BlockDevs,            \* block devices
  Lun,             \* the WWID of each
  FindMultipaths,  \* the setting: "off", "on", "strict", "greedy" or "smart"
  FindTimeout,     \* find_multipaths_timeout
  ServiceEnabled,  \* will systemd start multipathd?
  MaxUevs,         \* bound on the uevents queued for a device
  MaxSteps         \* bound on the events from outside

ClaimWwids == {Lun[d] : d \in BlockDevs}

ASSUME ClaimConstants ==
  /\ FindMultipaths \in {"off", "on", "strict", "greedy", "smart"}
  /\ FindTimeout \in Nat \ {0} /\ ServiceEnabled \in BOOLEAN

VARIABLES
  present,     \* devices the kernel has
  used,        \* devices somebody else has open exclusively
  maps,        \* the paths of the map of each WWID; none: there is no map
  wwids_file,  \* WWIDs in the WWIDs file
  failed,      \* WWIDs marked as failed, in /dev/shm
  remembered,  \* WWIDs ever in the WWIDs file (history)
  wait_file,   \* time left in /dev/shm/multipath/find_multipaths, -1: no file
  timer,       \* time left to cancel-multipath-wait, -1: not running
  stale,       \* devices whose timer runs for an earlier device of that name
  db,          \* udev's properties of a device
  uevs,        \* uevents of a device
  verdict,      \* what is_path_valid(), and then multipath -u, says
  daemon,      \* is multipathd running?
  known,       \* the properties multipathd has of the paths it knows
  notified,    \* uevents on their way to multipathd
  steps

claim_vars == <<present, used, maps, wwids_file, failed, remembered, wait_file, timer,
                stale, db, uevs, verdict, daemon, known, notified, steps>>

NoAnswer == [says |-> "none", until |-> "none"]
NoProps == [path |-> "none", until |-> "none", cancelled |-> FALSE]
NotKnown == [path |-> "unknown", until |-> "none", cancelled |-> FALSE]

sysfs_is_multipathed(d) == d \in maps[Lun[d]]

Siblings(d) == {e \in present : Lun[e] = Lun[d]}

Queue(q, ds, act) == [d \in BlockDevs |-> IF d \in ds /\ Len(q[d]) < MaxUevs THEN Append(q[d], act) ELSE q[d]]

-----------------------------------------------------------------------------
(* multipath -u                                                            *)

is_path_valid(d) ==
  IF sysfs_is_multipathed(d) THEN "valid_no_check"
  ELSE IF ~daemon /\ ~ServiceEnabled THEN "not_valid"
  ELSE IF Lun[d] \in failed THEN "not_valid"
  ELSE IF FindMultipaths = "greedy" THEN "valid"
  ELSE IF Lun[d] \in wwids_file THEN "valid_no_check"
  ELSE IF maps[Lun[d]] # {} THEN "valid"
  ELSE IF FindMultipaths = "smart" THEN "maybe" ELSE "not_valid"

\* multipath -u that does not ask whether the path was released (mutant).
released_to_systemd_Never(d) == FALSE

\* A path that was released to systemd before is not claimed any more, unless
\* it is certain that it is a path.
released_to_systemd(d) == db[d].path = "0"

\* check_path_valid() behind is_path_valid(): a maybe is denied if somebody has
\* the path open, and confirmed if there is a second path.
check_path_valid(d, a) ==
  LET r == IF a \in {"valid", "maybe"} /\ released_to_systemd(d) THEN "not_valid"
           ELSE IF a = "valid_no_check" THEN "valid" ELSE a
  IN  IF r # "maybe" THEN r
      ELSE IF d \in used THEN "not_valid"
      ELSE IF sysfs_is_multipathed(d) THEN "valid"
      ELSE IF Cardinality(Siblings(d)) > 1 THEN "valid" ELSE "maybe"

\* find_multipaths_check_timeout(): the file left for the wait with tmo > 0.
WaitFile(d, tmo) == IF wait_file[d] = -1 /\ tmo > 0 THEN tmo ELSE wait_file[d]

\* A path that still waits when its file's time has come (mutant).
Waiting_Inclusive(d, tmo) == WaitFile(d, tmo) >= 0

\* The path waits until its file's time, no longer (whole seconds).
Waiting(d, tmo) == WaitFile(d, tmo) > 0

-----------------------------------------------------------------------------
(* The udev rules, around multipath -u.                                    *)

\* "remove" deletes the wait file and the properties, not the timer; multipath
\* is not run.
UeventRemove(d) ==
  /\ uevs[d] # <<>> /\ Head(uevs[d]) = "remove" /\ verdict[d] = NoAnswer
  /\ uevs' = [uevs EXCEPT ![d] = Tail(@)]
  /\ wait_file' = [wait_file EXCEPT ![d] = -1]
  /\ db' = [db EXCEPT ![d] = NoProps]
  /\ notified' = [notified EXCEPT ![d] = "remove"]
  /\ UNCHANGED <<present, used, maps, wwids_file, failed, remembered, timer, stale, verdict, daemon, known, steps>>

UeventStart(d) ==
  /\ uevs[d] # <<>> /\ Head(uevs[d]) # "remove" /\ verdict[d] = NoAnswer
  /\ verdict' = [verdict EXCEPT ![d].says = is_path_valid(d)]
  /\ UNCHANGED <<present, used, maps, wwids_file, failed, remembered, wait_file, timer, stale, db, uevs, daemon, known, notified, steps>>

\* The rest of multipath -u: the verdict and, for the rules, whether the device
\* waits. A wait file is only looked at with a list of paths.
UeventCheck(d) ==
  LET a    == verdict[d].says
      r    == check_path_valid(d, a)
      two  == r = "valid" /\ a = "maybe" /\ d \notin used /\ ~sysfs_is_multipathed(d)
      wait == r = "maybe" /\ Waiting(d, FindTimeout)
  IN  /\ a \in {"valid_no_check", "valid", "maybe", "not_valid"}
      /\ wait_file' = [wait_file EXCEPT ![d] = IF r = "maybe" THEN WaitFile(d, FindTimeout) ELSE @]
      /\ verdict' = [verdict EXCEPT ![d] =
           [says  |-> IF wait THEN "2" ELSE IF r = "valid" THEN "1" ELSE "0",
            until |-> IF wait \/ (two /\ wait_file[d] > 0) THEN "wait"
                      ELSE IF r = "maybe" \/ (two /\ wait_file[d] = 0) THEN "0" ELSE "same"]]
      /\ UNCHANGED <<present, used, maps, wwids_file, failed, remembered, timer, stale, db, uevs, daemon, known, notified, steps>>

\* The wait is for siblings of a path seen for the first time; the timer only
\* makes sure that there is another uevent.
StartsTimer(d, act) == act = "add" /\ db[d].until = "none"

UeventEnd(d) ==
  LET act   == Head(uevs[d])
      maybe == verdict[d].says = "2"
      until == IF verdict[d].until = "same" THEN db[d].until ELSE verdict[d].until
      stop  == ~maybe /\ until = "wait" /\ ~db[d].cancelled
  IN  /\ verdict[d].says \in {"0", "1", "2"}
      /\ db' = [db EXCEPT ![d] = [path      |-> IF maybe THEN "1" ELSE verdict[d].says,
                                  until     |-> until,
                                  cancelled |-> ~maybe /\ (stop \/ db[d].cancelled)]]
      /\ timer' = [timer EXCEPT ![d] = IF stop THEN -1
                                       ELSE IF maybe /\ StartsTimer(d, act) /\ @ = -1
                                       THEN wait_file[d] ELSE @]
      /\ stale' = IF stop THEN stale \ {d} ELSE stale
      /\ uevs' = [uevs EXCEPT ![d] = Tail(@)]
      /\ verdict' = [verdict EXCEPT ![d] = NoAnswer]
      /\ notified' = [notified EXCEPT ![d] = IF @ = "add" THEN @ ELSE act]
      /\ UNCHANGED <<present, used, maps, wwids_file, failed, remembered, wait_file, daemon, known, steps>>

\* The timer triggers an "add" for the device it was started for. A later one
\* of the same name may have another path in sysfs, and then gets none.
TimerFires(d) ==
  /\ timer[d] = 0 /\ Len(uevs[d]) < MaxUevs
  /\ timer' = [timer EXCEPT ![d] = -1] /\ stale' = stale \ {d}
  /\ \/ d \in present /\ uevs' = Queue(uevs, {d}, "add")
     \/ (d \notin present \/ d \in stale) /\ UNCHANGED uevs
  /\ UNCHANGED <<present, used, maps, wwids_file, failed, remembered, wait_file, db, verdict, daemon, known, notified, steps>>

Count(t) == IF t > 0 THEN t - 1 ELSE t

TimePasses ==
  /\ \A d \in BlockDevs : timer[d] # 0
  /\ \E d \in BlockDevs : wait_file[d] > 0 \/ timer[d] > 0
  /\ wait_file' = [d \in BlockDevs |-> Count(wait_file[d])]
  /\ timer' = [d \in BlockDevs |-> Count(timer[d])]
  /\ UNCHANGED <<present, used, maps, wwids_file, failed, remembered, stale, db, uevs, verdict, daemon, known, notified, steps>>

-----------------------------------------------------------------------------
(* multipathd and multipath(8): maps.                                      *)

\* trigger_paths_udev_change(): a uevent for the paths whose properties (as the
\* caller knows them) do not tell yet what they are.
trigger_paths_udev_change(ds, props, is_mpath) ==
  {d \in ds : IF is_mpath THEN props[d].path # "1" \/ props[d].until \notin {"none", "0"}
              ELSE props[d].path \notin {"none", "0"}}

\* domap(ACT_CREATE): the kernel refuses devices that are in use. A new entry in
\* the WWIDs file, and a marker made or removed, are announced to the paths.
domap_create(w, ds, props) ==
  IF ds \cap used = {}
  THEN /\ maps' = [maps EXCEPT ![w] = ds]
       /\ wwids_file' = wwids_file \cup {w} /\ remembered' = remembered \cup {w}
       /\ failed' = failed \ {w}
       /\ uevs' = IF w \notin wwids_file \/ w \in failed
                  THEN Queue(uevs, trigger_paths_udev_change(ds, props, TRUE), "change") ELSE uevs
  ELSE /\ failed' = failed \cup {w}
       /\ uevs' = IF w \notin failed
                  THEN Queue(uevs, trigger_paths_udev_change(ds, props, FALSE), "add") ELSE uevs
       /\ UNCHANGED <<maps, wwids_file, remembered>>

\* Is a map wanted for these paths of a WWID?
should_multipath(w, ds) ==
  \/ FindMultipaths \in {"off", "greedy"} \/ w \in wwids_file
  \/ FindMultipaths # "strict" /\ (maps[w] # {} \/ Cardinality(ds) > 1)

KnownPaths(k, w) == {d \in BlockDevs : k[d] # NotKnown /\ Lun[d] = w}

\* A path added to a map by a reload, which the kernel refuses as well.
AddToMap(w, d) ==
  /\ maps' = IF d \in used THEN maps ELSE [maps EXCEPT ![w] = @ \cup {d}]
  /\ UNCHANGED <<uevs, wwids_file, remembered, failed>>

NoMapChange == UNCHANGED <<maps, wwids_file, failed, remembered, uevs>>

\* multipathd handles a uevent: a path it does not know is added, to its map or
\* with a new map; a change updates what it knows.
uev_trigger(d) ==
  LET k == [known EXCEPT ![d] = IF notified[d] = "remove" THEN NotKnown
                                ELSE IF notified[d] = "change" \/ @ = NotKnown THEN db[d] ELSE @]
      w == Lun[d]
      ds == KnownPaths(k, w)
  IN  /\ daemon /\ notified[d] # "no"
      /\ known' = k
      /\ notified' = [notified EXCEPT ![d] = "no"]
      /\ CASE notified[d] = "remove" ->
                /\ maps' = [maps EXCEPT ![w] = @ \ {d}]
                /\ UNCHANGED <<wwids_file, failed, remembered, uevs>>
           [] notified[d] = "add" /\ known[d] = NotKnown /\ maps[w] # {} -> AddToMap(w, d)
           [] notified[d] = "add" /\ known[d] = NotKnown /\ maps[w] = {}
                /\ should_multipath(w, ds) -> domap_create(w, ds, k)
           [] OTHER -> NoMapChange
      /\ UNCHANGED <<present, used, wait_file, timer, stale, db, verdict, daemon, steps>>

\* multipathd starts and finds the paths that udev has initialized or a map
\* has. Maps are created or reloaded with the paths there are, and their WWIDs
\* remembered; maps that are not wanted or not reloaded are removed.
MultipathdStarts ==
  LET k       == [d \in BlockDevs |->
                    IF d \in present /\ (db[d] # NoProps \/ sysfs_is_multipathed(d))
                    THEN db[d] ELSE NotKnown]
      ds      == [w \in ClaimWwids |-> KnownPaths(k, w)]
      wanted  == {w \in ClaimWwids : ds[w] # {} /\ should_multipath(w, ds[w])}
      refused == {w \in wanted : ds[w] \cap used # {}}
      kept    == wanted \ refused
      newly   == {w \in refused : maps[w] = {}}
      tell    == {w \in kept : w \notin wwids_file \/ (maps[w] = {} /\ w \in failed)}
      deny    == newly \ failed
      Told(W, is_mpath) == trigger_paths_udev_change(UNION {ds[w] : w \in W}, k, is_mpath)
  IN  /\ ~daemon /\ daemon' = TRUE
      /\ known' = k /\ notified' = [d \in BlockDevs |-> "no"]
      /\ maps' = [w \in ClaimWwids |-> IF w \in kept THEN ds[w] ELSE {}]
      /\ wwids_file' = wwids_file \cup kept /\ remembered' = remembered \cup kept
      /\ failed' = {w \in failed : maps[w] # {} \/ w \notin kept} \cup newly
      /\ uevs' = Queue(Queue(uevs, Told(tell, TRUE), "change"), Told(deny, FALSE), "add")
      /\ UNCHANGED <<present, used, wait_file, timer, stale, db, verdict, steps>>

\* multipathd is stopped and forgets what it knew.
MultipathdStops ==
  /\ daemon /\ steps < MaxSteps /\ steps' = steps + 1
  /\ daemon' = FALSE /\ known' = [d \in BlockDevs |-> NotKnown]
  /\ UNCHANGED <<present, used, maps, wwids_file, failed, remembered, wait_file, timer, stale, db, uevs, verdict, notified>>

-----------------------------------------------------------------------------
(* Commands of multipath(8).                                               *)

Command == steps < MaxSteps /\ steps' = steps + 1

CommandKeeps == UNCHANGED <<present, used, wait_file, timer, stale, db, verdict, daemon, known, notified>>

\* multipath, multipath <device>: the paths are discovered anew.
CreateMaps(w) ==
  LET ds == {d \in present : db[d] # NoProps /\ Lun[d] = w}
  IN  /\ Command /\ ds # {} /\ maps[w] = {} /\ should_multipath(w, ds)
      /\ domap_create(w, ds, db) /\ CommandKeeps

\* multipath -f: delegated to multipathd or done here, with the same outcome.
FlushMap(w) ==
  /\ Command /\ maps[w] # {}
  /\ maps' = [maps EXCEPT ![w] = {}]
  /\ UNCHANGED <<wwids_file, failed, remembered, uevs>> /\ CommandKeeps

\* multipath -a, -w and -W.
remember_wwid(w) ==
  /\ Command /\ wwids_file' = wwids_file \cup {w} /\ remembered' = remembered \cup {w}
  /\ UNCHANGED <<maps, failed, uevs>> /\ CommandKeeps
remove_wwid(w) ==
  /\ Command /\ wwids_file' = wwids_file \ {w}
  /\ UNCHANGED <<maps, failed, remembered, uevs>> /\ CommandKeeps
replace_wwids ==
  /\ Command /\ wwids_file' = {w \in ClaimWwids : maps[w] # {}}
  /\ remembered' = remembered \cup wwids_file'
  /\ UNCHANGED <<maps, failed, uevs>> /\ CommandKeeps

-----------------------------------------------------------------------------
(* The rest of the system (external).                                      *)

\* A name is not used again while a map holds the old device, or before udev
\* has handled its remove uevent. The timer of the old device may still run.
Appears(d) ==
  /\ Command /\ d \notin present /\ ~sysfs_is_multipathed(d) /\ uevs[d] = <<>>
  /\ present' = present \cup {d} /\ uevs' = Queue(uevs, {d}, "add")
  /\ stale' = IF timer[d] # -1 THEN stale \cup {d} ELSE stale
  /\ UNCHANGED <<used, maps, wwids_file, failed, remembered, wait_file, timer, db, verdict, daemon, known, notified>>

Disappears(d) ==
  /\ Command /\ d \in present /\ Len(uevs[d]) < MaxUevs
  /\ present' = present \ {d} /\ used' = used \ {d} /\ uevs' = Queue(uevs, {d}, "remove")
  /\ UNCHANGED <<maps, wwids_file, failed, remembered, wait_file, timer, stale, db, verdict, daemon, known, notified>>

\* Any other uevent: a close after writing, a rescan.
Change(d) ==
  /\ Command /\ d \in present /\ uevs[d] = <<>>
  /\ uevs' = Queue(uevs, {d}, "change")
  /\ UNCHANGED <<present, used, maps, wwids_file, failed, remembered, wait_file, timer, stale, db, verdict, daemon, known, notified>>

\* systemd mounts a device that was released to it.
Mount(d) ==
  /\ d \in present \ used /\ db[d].path = "0" /\ ~sysfs_is_multipathed(d)
  /\ used' = used \cup {d}
  /\ UNCHANGED <<present, maps, wwids_file, failed, remembered, wait_file, timer, stale, db, uevs, verdict, daemon, known, notified, steps>>

-----------------------------------------------------------------------------
ClaimInit ==
  /\ present = {} /\ used = {} /\ maps = [w \in ClaimWwids |-> {}]
  /\ wwids_file = {} /\ failed = {} /\ remembered = {}
  /\ wait_file = [d \in BlockDevs |-> -1] /\ timer = [d \in BlockDevs |-> -1]
  /\ stale = {} /\ db = [d \in BlockDevs |-> NoProps] /\ uevs = [d \in BlockDevs |-> <<>>]
  /\ verdict = [d \in BlockDevs |-> NoAnswer] /\ daemon = TRUE
  /\ known = [d \in BlockDevs |-> NotKnown] /\ notified = [d \in BlockDevs |-> "no"] /\ steps = 0

Udev(d) == UeventRemove(d) \/ UeventStart(d) \/ UeventCheck(d) \/ UeventEnd(d)
ClaimNext ==
  \/ \E d \in BlockDevs : Udev(d) \/ TimerFires(d) \/ uev_trigger(d)
  \/ TimePasses \/ MultipathdStarts \/ MultipathdStops
  \/ \E w \in ClaimWwids : CreateMaps(w) \/ FlushMap(w) \/ remember_wwid(w) \/ remove_wwid(w)
  \/ replace_wwids
  \/ \E d \in BlockDevs : Appears(d) \/ Disappears(d) \/ Change(d) \/ Mount(d)

\* udev works through its queue, the timer fires, and time passes.
ClaimFairness ==
  /\ \A d \in BlockDevs : WF_claim_vars(Udev(d)) /\ WF_claim_vars(TimerFires(d))
  /\ WF_claim_vars(TimePasses)

ClaimSpec == ClaimInit /\ [][ClaimNext]_claim_vars /\ ClaimFairness

\* A device that was released to systemd and is in use is not taken away again
\* (SYSTEMD_READY=0) because a path of the same LUN has shown up, but only when
\* the LUN was put into the WWIDs file (check_path_valid(): "it might cause
\* systemd to umount the device").
InUseNotHidden ==
  \A d \in used : db[d].path = "1" => Lun[d] \in remembered

\* A device that is hidden to wait for siblings.
Hidden(d) == d \in present /\ db[d].until = "wait" /\ ~db[d].cancelled

\* A device that is hidden while the timer that the rules started for it runs
\* does not stay so for ever: it is released, or confirmed as a path.
TimedWaitEnds ==
  \A d \in BlockDevs : (Hidden(d) /\ timer[d] # -1 /\ d \notin stale) ~> ~Hidden(d)

\* The timer is there "to make sure we will receive another uevent eventually"
\* that ends the wait (multipath.rules), so every hidden device should be
\* released or confirmed. A device hidden by a "change" has no timer, and one
\* that returns under the name of a device whose timer still runs gets none:
\* systemd-run refuses a second one of that name, and the old one fires too
\* early, or for another device.
MaybeEnds ==
  \A d \in BlockDevs : Hidden(d) ~> ~Hidden(d)
=============================================================================
