-------------------------------- MODULE Maps --------------------------------
(***************************************************************************)
(* The daemon's tables of paths and maps, vecs->pathvec and vecs->mpvec,   *)
(* and the kernel's multipath tables they mirror: path and map uevents,    *)
(* the operator's add and del commands, the parts of check_path() and of   *)
(* the ticks that add, drop or resynchronise paths and maps (main.c,       *)
(* structs_vec.c, configure.c, dmparser.c).                                *)
(*                                                                         *)
(* A device name stands for the struct path of that device, a map's WWID   *)
(* for its struct multipath, its alias and its dm device. Uevents may be   *)
(* stale or spurious, so a handler may run at any time. Every handler runs *)
(* under vecs->lock and is one step; it composes operators on the state    *)
(* w = [pv, mp, tab, broken], and o says how the calls it makes into the   *)
(* kernel, sysfs and udev turn out. Path states are in module PathCheck;   *)
(* device sizes and blacklisting are left out.                             *)
(***************************************************************************)
EXTENDS Naturals, FiniteSets

CONSTANTS
  Devs,          \* the names of block devices
  Wwids,         \* the WWIDs of LUNs, and of the maps built on them
  MaxEnv,        \* bound on changes of devices and of maps by others
  Failures       \* the calls that may fail: a subset of FailPoints

None   == "none"    \* a NULL pointer, an empty WWID, a device or map not there
FailPoints == {"setup", "load", "table", "status", "flush", "info"}

ASSUME MapsAssumption ==
  /\ None \notin Devs \cup Wwids
  /\ MaxEnv \in Nat
  /\ Failures \subseteq FailPoints

VARIABLES
  dev,     \* the WWID of each device that exists
  pv,      \* vecs->pathvec: struct path of each device
  mp,      \* vecs->mpvec: struct multipath of each WWID
  tab,     \* the devices in the kernel's table of each map
  reinit,  \* the device uev_update_path() is about to add again
  broken,  \* a struct path was used after it was freed, or stored twice
  env      \* what is left of the environment's budget

vars == <<dev, pv, mp, tab, reinit, broken, env>>

\* pp->initialized, pp->wwid and pp->mpp
NoPath == [init |-> None, wwid |-> None, mpp |-> None]
Inits  == {"NEW", "OK", "MISSING", "REQUESTED", "FAILED", "REMOVED"}

\* mpp->paths, the paths of mpp->pg and mpp->wait_for_udev
NoMp  == [known |-> FALSE, paths |-> {}, pg |-> {}, wait |-> 0]
NewMp == [NoMp EXCEPT !.known = TRUE]

\* The table of a map the kernel does not have
NoTab == {None}

\* How the calls of a handler turn out. fail: the call that fails; up: some
\* path of the map is up; wwids: the WWID is in the wwids file; uid: whether
\* pathinfo() of a device that is there gets its WWID from udev, not yet, or
\* finds the path offline ("blank"). One thing at a time is out of order.
Normal   == [fail |-> None, up |-> TRUE, wwids |-> TRUE, uid |-> "yes"]
Outcomes ==
  {Normal, [Normal EXCEPT !.up = FALSE], [Normal EXCEPT !.wwids = FALSE],
   [Normal EXCEPT !.uid = "no"], [Normal EXCEPT !.uid = "blank"]}
  \cup {[Normal EXCEPT !.fail = f] : f \in Failures}

W == [pv |-> pv, mp |-> mp, tab |-> tab, broken |-> broken]
In(w) == {d \in Devs : w.pv[d].init # None}

-----------------------------------------------------------------------------
(* structs_vec.c                                                           *)

\* free_path(), for the paths D of vecs->pathvec
free_path(w, D) == [w EXCEPT !.pv = [d \in Devs |-> IF d \in D THEN NoPath ELSE w.pv[d]]]

orphan_path(w, D) ==
  [w EXCEPT !.pv = [d \in Devs |-> IF d \in D THEN [w.pv[d] EXCEPT !.mpp = None] ELSE w.pv[d]]]

set_path_removed(w, D) ==
  [w EXCEPT !.pv = [d \in Devs |-> IF d \in D /\ w.pv[d].mpp # None
                                   THEN [w.pv[d] EXCEPT !.init = "REMOVED"] ELSE w.pv[d]]]

orphan_paths(w, m) ==
  LET mine == {d \in In(w) : w.pv[d].mpp = m}
      gone == {d \in mine : w.pv[d].init = "REMOVED"}
  IN  orphan_path(free_path(w, gone), mine \ gone)

\* Mutant: paths keep their pointer to the freed map.
remove_map_only(w, m) == [w EXCEPT !.mp[m] = NoMp]

remove_map(w, m) == [orphan_paths(w, m) EXCEPT !.mp[m] = NoMp]

\* Mutant: removed paths come back with the path groups.
update_mpp_paths_all(w, m) == [w EXCEPT !.mp[m].paths = @ \cup (w.mp[m].pg \cap In(w))]

\* Paths that were removed but are still in a path group stay out.
update_mpp_paths(w, m) ==
  [w EXCEPT !.mp[m].paths = @ \cup {d \in w.mp[m].pg \cap In(w) : w.pv[d].init # "REMOVED"}]

\* Mutant: the WWID of the paths is not compared with the map's.
adopt_paths_any(w, m) ==
  LET v == update_mpp_paths(w, m)
      A == {d \in In(v) : v.pv[d].init # "REMOVED" /\ v.pv[d].mpp = None}
  IN  [v EXCEPT !.mp[m].paths = @ \cup A,
                !.pv = [d \in Devs |-> IF d \in A THEN [v.pv[d] EXCEPT !.mpp = m] ELSE v.pv[d]]]

\* adopt_paths(): every path with the map's WWID becomes its own. pathinfo()
\* forgets the WWID of a path that is gone and was never initialized.
adopt_paths(w, m) ==
  LET v == update_mpp_paths(w, m)
      A == {d \in In(v) : v.pv[d].wwid = m /\ v.pv[d].init # "REMOVED"}
      blank(d) == dev[d] = None /\ v.pv[d].init \in {"NEW", "FAILED"}
  IN  [v EXCEPT !.mp[m].paths = @ \cup A,
                !.pv = [d \in Devs |->
                   IF d \in A THEN [v.pv[d] EXCEPT !.mpp = m,
                                                   !.wwid = IF blank(d) THEN None ELSE @]
                   ELSE v.pv[d]]]

\* verify_paths(): paths without a sysfs entry are marked removed.
verify_paths(w, m) ==
  LET lost == {d \in w.mp[m].paths : dev[d] = None}
  IN  set_path_removed([w EXCEPT !.mp[m].paths = @ \ lost], lost)

\* Mutant: a path of another map in the table is taken for the map's own.
update_pathvec_from_dm_any(w, m, o) ==
  LET T == w.tab[m] \cap In(w)
      A == {d \in In(w) : w.pv[d].wwid = m}
  IN  [w EXCEPT !.mp[m].pg = T \cup A]

\* update_pathvec_from_dm(), after disassemble_map() has filled mpp->pg from
\* the table: paths of other maps, of another WWID and without a device are
\* taken out; devices the daemon has not met are added to pathvec.
update_pathvec_from_dm(w, m, o) ==
  LET T     == w.tab[m]
      other == {d \in T \cap In(w) : w.pv[d].mpp \notin {None, m}}
      new   == {d \in T \ In(w) : dev[d] # None /\ o.fail # "info"}
      found(d) == IF d \in new
                  THEN [init |-> IF o.uid = "no" THEN "MISSING" ELSE "NEW", mpp |-> m,
                        wwid |-> IF o.uid = "yes" THEN dev[d] ELSE None]
                  ELSE [w.pv[d] EXCEPT !.mpp = m]
      mine  == ((T \cap In(w)) \ other) \cup new
      wrong == {d \in mine : found(d).wwid \notin {None, m}}
  IN  [w EXCEPT !.mp[m].pg = mine \ wrong,
                !.pv = [d \in Devs |->
                   IF d \in wrong THEN [found(d) EXCEPT !.mpp = None]
                   ELSE IF d \in mine THEN [found(d) EXCEPT !.wwid = m]
                   ELSE w.pv[d]]]

\* Mutant: removed paths are freed while the table still has them.
sync_paths_free(w, m) ==
  LET gone == {d \in In(w) : w.pv[d].init = "REMOVED" /\ w.pv[d].mpp = m}
  IN  update_mpp_paths([free_path(w, gone) EXCEPT !.mp[m].paths = @ \cap w.mp[m].pg], m)

\* sync_paths() with check_removed_paths(): paths that left the table are
\* orphaned, removed paths that left it are freed.
sync_paths(w, m) ==
  LET pg   == w.mp[m].pg
      v    == orphan_path(w, w.mp[m].paths \ pg)
      gone == {d \in In(v) : v.pv[d].init = "REMOVED" /\ v.pv[d].mpp = m /\ d \notin pg}
      u    == update_mpp_paths([free_path(v, gone) EXCEPT !.mp[m].paths = @ \cap pg], m)
  IN  [u EXCEPT !.pv = [d \in Devs |-> IF d \in u.mp[m].paths
                                       THEN [u.pv[d] EXCEPT !.mpp = m] ELSE u.pv[d]]]

\* The result of reading the table and the status
Rc(w, m, o) == IF w.tab[m] = NoTab THEN "NOT_FOUND"
               ELSE IF o.fail \in {"table", "status"} THEN "ERR" ELSE "OK"

update_multipath_strings(w, m, o) ==
  LET v == [update_mpp_paths(w, m) EXCEPT !.mp[m].pg = {}]
  IN  IF w.tab[m] = NoTab \/ o.fail = "table" THEN v
      ELSE sync_paths(update_pathvec_from_dm(v, m, o), m)

-----------------------------------------------------------------------------
(* main.c and configure.c: from the tables to the kernel                   *)

\* setup_multipath(): a map that cannot be read is dropped.
setup_multipath(w, m, o) ==
  IF Rc(w, m, o) # "OK"
  THEN remove_map(IF w.tab[m] = NoTab THEN w ELSE update_multipath_strings(w, m, o), m)
  ELSE update_multipath_strings(w, m, o)

\* setup_map(): group_paths() moves the paths to the path groups.
setup_map(w, m) == [w EXCEPT !.mp[m].pg = w.mp[m].paths, !.mp[m].paths = {}]

\* A table can be loaded if each of its devices is in the old table, or
\* exists and is in the table of no other map.
Loadable(w, m) ==
  \A d \in w.mp[m].pg : \/ d \in w.tab[m]
                        \/ dev[d] # None /\ \A n \in Wwids : d \notin w.tab[n]

\* Whether domap() succeeds: a reload needs a map
domap_ok(w, m, create, o) ==
  o.fail # "load" /\ Loadable(w, m) /\ (create \/ w.tab[m] # NoTab)

\* domap(): a new map waits for its creation uevent.
domap(w, m) ==
  [w EXCEPT !.tab[m] = w.mp[m].pg, !.mp[m].wait = IF w.tab[m] = NoTab THEN 1 ELSE @]

\* flush_map()
flush_ok(w, m, o) == w.tab[m] = NoTab \/ o.fail # "flush"
flush_map(w, m) == [remove_map(w, m) EXCEPT !.tab[m] = NoTab]

\* update_map(): with new = TRUE a map that cannot be loaded is dropped.
update_map(w, m, new, o) ==
  LET v == verify_paths(adopt_paths(w, m), m)
      s == IF o.fail = "setup" THEN v ELSE setup_map(v, m)
      ok == o.fail # "setup" /\ domap_ok(s, m, FALSE, o)
  IN  IF new /\ ~ok THEN remove_map(s, m)
      ELSE setup_multipath(IF ok THEN domap(s, m) ELSE s, m, o)

should_multipath(w, d, o) ==
  o.wwids \/ \E e \in In(w) \ {d} : w.pv[e].wwid = w.pv[d].wwid

\* ev_add_path(): d is in pathvec. A map that still waits for its creation
\* uevent is not reloaded, the path is left to update_map(). A reload that
\* fails is tried again and given up, a creation that fails drops the map.
ev_add_path(w, d, need_do_map, o) ==
  LET m      == w.pv[d].wwid
      known  == w.mp[m].known
      a      == [w EXCEPT !.pv[d].mpp = IF known THEN m ELSE None]
      v      == IF known THEN verify_paths(adopt_paths(a, m), m)
                ELSE adopt_paths([a EXCEPT !.mp[m] = NewMp], m)
      first  == setup_map(v, m)
      again  == setup_map(verify_paths(adopt_paths(first, m), m), m)
      s      == IF domap_ok(first, m, TRUE, o) \/ w.tab[m] = NoTab THEN first ELSE again
      ok     == domap_ok(s, m, TRUE, o)
      end    == setup_multipath(IF ok THEN domap(s, m) ELSE s, m, o)
  IN  IF m = None THEN orphan_path(w, {d})
      ELSE IF known /\ w.mp[m].wait > 0 /\ w.mp[m].pg # {} /\ o.up
      THEN orphan_path([w EXCEPT !.mp[m].wait = 2], {d})
      ELSE IF ~known /\ ~should_multipath(w, d, o) THEN orphan_path(w, {d})
      ELSE IF ~need_do_map THEN v
      ELSE IF o.fail = "setup" \/ (~ok /\ s.tab[m] = NoTab)
      THEN orphan_path(remove_map(IF o.fail = "setup" THEN v ELSE s, m), {d})
      ELSE IF ok /\ Rc(end, m, o) = "OK" THEN end
      ELSE orphan_path(end, {d})

\* Mutant: wait_for_udev counts the delayed actions.
ev_remove_path_count(w, d, need_do_map, o) ==
  IF w.pv[d].mpp = None THEN <<free_path(w, {d}), TRUE>>
  ELSE <<[set_path_removed(w, {d}) EXCEPT !.mp[w.pv[d].mpp].wait = @ + 1], TRUE>>

\* ev_remove_path(): <<the state, whether it returned 0>>. The last path
\* takes the map with it. A map that waits for its creation uevent is not
\* reloaded; nor is it for a uevent that was merged with a later one.
ev_remove_path(w, d, need_do_map, o) ==
  LET m == w.pv[d].mpp
      u == update_mpp_paths(w, m)
      r == set_path_removed([u EXCEPT !.mp[m].paths = @ \ {d}], {d})
      s == setup_map(r, m)
      n == domap(s, m)
  IN  IF m = None THEN <<free_path(w, {d}), TRUE>>
      ELSE IF r.mp[m].paths = {} /\ flush_ok(r, m, o) THEN <<flush_map(r, m), TRUE>>
      ELSE IF o.fail = "setup" THEN <<remove_map(r, m), FALSE>>
      ELSE IF s.mp[m].wait > 0 THEN <<[s EXCEPT !.mp[m].wait = 2], TRUE>>
      ELSE IF ~need_do_map THEN <<s, TRUE>>
      ELSE IF ~domap_ok(s, m, FALSE, o) THEN <<s, FALSE>>
      ELSE <<setup_multipath(n, m, o), Rc(n, m, o) = "OK">>

\* reload_and_sync_map()
reload_and_sync_map(w, m, o) ==
  LET u == update_mpp_paths(w, m)
      s == setup_map(u, m)
  IN  IF o.fail = "setup" THEN u
      ELSE IF ~domap_ok(s, m, FALSE, o) THEN s
      ELSE setup_multipath(domap(s, m), m, o)

-----------------------------------------------------------------------------
(* Path uevents                                                            *)

\* pathinfo(DI_ALL) of a path without a WWID: <<the state, PATHINFO_OK>>
pathinfo(w, d, o) ==
  IF dev[d] = None \/ o.fail = "info" \/ w.pv[d].init = "REMOVED" THEN <<w, FALSE>>
  ELSE <<CASE o.uid = "yes"   -> [w EXCEPT !.pv[d].wwid = dev[d], !.pv[d].init = "OK"]
           [] o.uid = "no"    -> [w EXCEPT !.pv[d].init = IF @ = "FAILED" THEN @ ELSE "MISSING"]
           [] o.uid = "blank" -> w,
         TRUE>>

\* alloc_path_with_pathinfo(), store_path() and ev_add_path(). A struct path
\* of the device that is still there makes this the second one.
AddNew(w, d, need_do_map, o) ==
  LET p == pathinfo([w EXCEPT !.pv[d] = [NoPath EXCEPT !.init = "NEW"]], d, o)
  IN  IF dev[d] = None \/ o.fail = "info" THEN w
      ELSE IF d \in In(w) THEN [w EXCEPT !.broken = "twice"]
      ELSE ev_add_path(p[1], d, need_do_map, o)

\* A path in INIT_REMOVED state, of map prev, is found again: it stays in the
\* map if that still is its WWID, otherwise it is to be removed for good.
\* What follows a removal that fails writes to the path. uev_add_path() also
\* gets there when the removal worked and pathinfo() had failed.
Readd(w, d, need_do_map, strict, o) ==
  LET prev == w.pv[d].mpp
      p    == pathinfo([w EXCEPT !.pv[d] = [NoPath EXCEPT !.init = "NEW"]], d, o)
      e    == ev_remove_path([p[1] EXCEPT !.pv[d].mpp = prev], d, TRUE, o)
  IN  IF prev = None
      THEN IF p[2] THEN ev_add_path(p[1], d, need_do_map, o) ELSE p[1]
      ELSE IF p[2] /\ p[1].pv[d].wwid = prev THEN [p[1] EXCEPT !.pv[d].mpp = prev]
      ELSE IF e[2] /\ (p[2] \/ ~strict) THEN AddNew(e[1], d, need_do_map, o)
      ELSE IF d \in In(e[1]) THEN e[1] ELSE [e[1] EXCEPT !.broken = "freed"]

uev_add_path(w, d, need_do_map, o) ==
  LET x == w.pv[d]
      p == pathinfo(w, d, o)
  IN  CASE x.init = None      -> AddNew(w, d, need_do_map, o)
        [] x.init = "REMOVED" -> Readd(w, d, need_do_map, TRUE, o)
        [] x.init \notin {None, "REMOVED"} /\ x.mpp = None /\ x.wwid = None ->
             IF p[2] THEN ev_add_path(p[1], d, need_do_map, o) ELSE w
        [] OTHER -> w

Assign(w) == pv' = w.pv /\ mp' = w.mp /\ tab' = w.tab /\ broken' = w.broken

\* The uevent dispatcher is one thread.
Dispatch == broken = None /\ reinit = None

UevAddPath(d, need_do_map, o) ==
  /\ Dispatch
  /\ Assign(uev_add_path(W, d, need_do_map, o))
  /\ UNCHANGED <<dev, reinit, env>>

uev_remove_path(d, need_do_map, o) ==
  /\ Dispatch
  /\ d \in In(W)
  /\ Assign(ev_remove_path(W, d, need_do_map, o)[1])
  /\ UNCHANGED <<dev, reinit, env>>

\* uev_update_path(): a change uevent of a known path. A new WWID removes the
\* path; it is added again once vecs->lock has been released (reinit). ro:
\* DISK_RO is set, and the map is reloaded for it.
uev_update_path(d, ro, o) ==
  LET x == pv[d]
      changed == dev[d] # None /\ o.uid = "yes" /\ dev[d] # x.wwid
      v == reload_and_sync_map(W, x.mpp, o)
  IN  /\ Dispatch
      /\ \/ /\ x.init = "REQUESTED"
            /\ reinit' = d
            /\ UNCHANGED <<pv, mp, tab, broken>>
         \/ /\ x.init \notin {None, "REQUESTED"} /\ x.wwid # None /\ changed
            /\ reinit' = d
            /\ Assign(ev_remove_path([W EXCEPT !.pv[d].wwid = dev[d]], d, TRUE, o)[1])
         \/ /\ x.init \notin {None, "REQUESTED"} /\ x.wwid # None /\ ~changed
            /\ x.mpp # None /\ ro
            /\ Assign(IF mp[x.mpp].wait > 0 THEN [W EXCEPT !.mp[x.mpp].wait = 2]
                      ELSE IF v.mp[x.mpp].known /\ v.pv[d].mpp = None
                      THEN [v EXCEPT !.broken = "freed"] ELSE v)
            /\ UNCHANGED reinit
      /\ UNCHANGED <<dev, env>>

Reinit(o) ==
  /\ broken = None
  /\ reinit # None
  /\ Assign(uev_add_path(W, reinit, TRUE, o))
  /\ reinit' = None
  /\ UNCHANGED <<dev, env>>

-----------------------------------------------------------------------------
(* Map uevents and dm events                                               *)

\* add_map_without_path(): a map that somebody else created
add_map_without_path(w, m, o) ==
  LET v == [w EXCEPT !.mp[m] = NewMp]
  IN  IF Rc(v, m, o) # "OK"
      THEN remove_map(IF o.fail = "status" THEN update_pathvec_from_dm(v, m, o) ELSE v, m)
      ELSE update_map(update_pathvec_from_dm(v, m, o), m, TRUE, o)

\* ev_add_map() of a map the kernel has: it stops to wait, and the delayed
\* additions and removals of paths are made up for.
ev_add_map(w, m, o) ==
  LET v == IF w.mp[m].wait > 1 THEN update_map(w, m, FALSE, o) ELSE w
  IN  IF ~w.mp[m].known THEN add_map_without_path(w, m, o)
      ELSE IF v.mp[m].known THEN [v EXCEPT !.mp[m].wait = 0] ELSE v

uev_add_map(m, o) ==
  /\ Dispatch
  /\ tab[m] # NoTab
  /\ Assign(ev_add_map(W, m, o))
  /\ UNCHANGED <<dev, reinit, env>>

uev_remove_map(m) ==
  /\ Dispatch
  /\ mp[m].known
  /\ Assign(remove_map(W, m))
  /\ UNCHANGED <<dev, reinit, env>>

\* update_multipath() on a dm event
update_multipath(m, o) ==
  /\ broken = None
  /\ mp[m].known
  /\ Assign(setup_multipath(W, m, o))
  /\ UNCHANGED <<dev, reinit, env>>

-----------------------------------------------------------------------------
(* The operator                                                            *)

cli_add_path(d, o) ==
  LET x == pv[d]
  IN  /\ broken = None
      /\ \/ x.init = None /\ Assign(AddNew(W, d, TRUE, o))
         \/ x.init = "REMOVED" /\ Assign(Readd(W, d, TRUE, FALSE, o))
         \/ /\ x.init \notin {None, "REMOVED"} /\ x.mpp = None
            /\ Assign(ev_add_path(W, d, TRUE, o))
      /\ UNCHANGED <<dev, reinit, env>>

cli_del_path(d, o) ==
  /\ broken = None
  /\ d \in In(W)
  /\ Assign(ev_remove_path(W, d, TRUE, o)[1])
  /\ UNCHANGED <<dev, reinit, env>>

\* cli_del_map() and ev_remove_map(): flush_map(), if the map is not in use
cli_del_map(m) ==
  /\ broken = None
  /\ tab[m] # NoTab /\ mp[m].known
  /\ Assign(flush_map(W, m))
  /\ UNCHANGED <<dev, reinit, env>>

\* cli_reload(), and the reload of check_path() when priorities have changed
cli_reload(m, o) ==
  /\ broken = None
  /\ mp[m].known /\ mp[m].wait = 0
  /\ Assign(reload_and_sync_map(W, m, o))
  /\ UNCHANGED <<dev, reinit, env>>

-----------------------------------------------------------------------------
(* checkerloop()                                                           *)

\* check_path(): a path without a map whose udev data were missing is given
\* a change uevent, up to retrigger_tries times; one that could not be
\* initialized and is up is added; the map of a path is read again.
check_path(d, o) ==
  LET x == pv[d]
      p == pathinfo(W, d, o)
  IN  /\ broken = None
      /\ \/ /\ x.mpp = None /\ x.init = "MISSING"
            /\ \E i \in {"REQUESTED", "FAILED"} : pv' = [pv EXCEPT ![d].init = i]
            /\ UNCHANGED <<mp, tab, broken>>
         \/ /\ x.mpp = None /\ x.init \in {"NEW", "FAILED"} /\ x.wwid = None /\ o.up
            /\ Assign(IF p[1].pv[d].init = "OK" THEN ev_add_path(p[1], d, TRUE, o) ELSE p[1])
         \/ /\ x.mpp # None /\ x.init # "REMOVED"
            /\ Assign(update_multipath_strings(W, x.mpp, o))
      /\ UNCHANGED <<dev, reinit, env>>

\* missing_uev_wait_tick() of a map whose creation uevent is overdue
missing_uev_wait_tick(m, o) ==
  LET v == IF mp[m].wait > 1 THEN update_map(W, m, FALSE, o) ELSE W
  IN  /\ broken = None
      /\ mp[m].wait > 0
      /\ Assign(IF v.mp[m].known THEN [v EXCEPT !.mp[m].wait = 0] ELSE v)
      /\ UNCHANGED <<dev, reinit, env>>

\* ghost_delay_tick() of a map created on ghost paths only, when its time is up
ghost_delay_tick(m, o) ==
  /\ broken = None
  /\ mp[m].known /\ ~o.up
  /\ Assign(update_map(W, m, FALSE, o))
  /\ UNCHANGED <<dev, reinit, env>>

mpvec_garbage_collector ==
  LET dead == {m \in Wwids : mp[m].known /\ tab[m] = NoTab}
  IN  /\ broken = None
      /\ \E m \in dead : Assign(remove_map(W, m))
      /\ UNCHANGED <<dev, reinit, env>>

-----------------------------------------------------------------------------
(* Devices, and others that change maps (multipath(8), dmsetup(8))         *)

\* A device name is not used again while a table holds the device.
DevAdd(d, m) ==
  /\ env > 0 /\ env' = env - 1
  /\ dev[d] = None /\ \A n \in Wwids : d \notin tab[n]
  /\ dev' = [dev EXCEPT ![d] = m]
  /\ UNCHANGED <<pv, mp, tab, reinit, broken>>

DevRemove(d) ==
  /\ env > 0 /\ env' = env - 1
  /\ dev[d] # None
  /\ dev' = [dev EXCEPT ![d] = None]
  /\ UNCHANGED <<pv, mp, tab, reinit, broken>>

MapGone(m) ==
  /\ env > 0 /\ env' = env - 1
  /\ tab[m] # NoTab
  /\ tab' = [tab EXCEPT ![m] = NoTab]
  /\ UNCHANGED <<dev, pv, mp, reinit, broken>>

MapLoad(m, D) ==
  /\ env > 0 /\ env' = env - 1
  /\ \A d \in D : dev[d] = m /\ \A n \in Wwids \ {m} : d \notin tab[n]
  /\ tab[m] # D
  /\ tab' = [tab EXCEPT ![m] = D]
  /\ UNCHANGED <<dev, pv, mp, reinit, broken>>

-----------------------------------------------------------------------------
Init ==
  /\ dev = [d \in Devs |-> None]
  /\ pv = [d \in Devs |-> NoPath]
  /\ mp = [m \in Wwids |-> NoMp]
  /\ tab = [m \in Wwids |-> NoTab]
  /\ reinit = None
  /\ broken = None
  /\ env = MaxEnv

Daemon ==
  \/ \E o \in Outcomes :
       \/ Reinit(o)
       \/ \E d \in Devs :
            \/ \E need_do_map \in BOOLEAN : \/ UevAddPath(d, need_do_map, o)
                                            \/ uev_remove_path(d, need_do_map, o)
            \/ \E ro \in BOOLEAN : uev_update_path(d, ro, o)
            \/ cli_add_path(d, o) \/ cli_del_path(d, o) \/ check_path(d, o)
       \/ \E m \in Wwids : \/ uev_add_map(m, o) \/ update_multipath(m, o)
                           \/ cli_reload(m, o) \/ missing_uev_wait_tick(m, o)
                           \/ ghost_delay_tick(m, o)
  \/ \E m \in Wwids : uev_remove_map(m) \/ cli_del_map(m)
  \/ mpvec_garbage_collector

Environment ==
  \/ \E d \in Devs : DevRemove(d) \/ \E m \in Wwids : DevAdd(d, m)
  \/ \E m \in Wwids : MapGone(m) \/ \E D \in SUBSET Devs \ {{}} : MapLoad(m, D)

Next == Daemon \/ Environment

Spec == Init /\ [][Next]_vars

-----------------------------------------------------------------------------
(* Properties                                                              *)

\* The types of the state; wait_for_udev is 0, 1 or, with an action delayed, 2.
TypeOK ==
  /\ dev \in [Devs -> Wwids \cup {None}]
  /\ pv \in [Devs -> {NoPath} \cup [init : Inits, wwid : Wwids \cup {None},
                                    mpp : Wwids \cup {None}]]
  /\ mp \in [Wwids -> [known : BOOLEAN, paths : SUBSET Devs, pg : SUBSET Devs, wait : 0..2]]
  /\ tab \in [Wwids -> {NoTab} \cup SUBSET Devs]
  /\ reinit \in Devs \cup {None}
  /\ broken \in {None, "twice", "freed"}
  /\ env \in 0..MaxEnv

\* mpp->paths and mpp->pg hold no path that has been freed, whatever order
\* removals, reloads that fail and resynchronisations come in.
PathsAlive == \A m \in Wwids : mp[m].paths \cup mp[m].pg \subseteq In(W)

\* No path points to a map that has been freed: remove_map() has orphaned or
\* freed each path of the map, those outside mpp->paths too.
MapsAlive == \A d \in Devs : pv[d].mpp # None => mp[pv[d].mpp].known

\* A path is in the paths of no map but its own.
OwnPaths == \A m \in Wwids : \A d \in mp[m].paths : pv[d].mpp \in {m, None}

\* The tables are sound: no dangling reference in either direction, and no path
\* in two maps.
TablesSound == TypeOK /\ PathsAlive /\ MapsAlive /\ OwnPaths

\* Daemon steps load no device into the table of a map that, as far as
\* the daemon knows, is a path to another LUN, or that was removed. A path of
\* which pathinfo() has forgotten the WWID (adopt_paths) is none to another LUN.
NoWrongPath ==
  [][\A m \in Wwids : \A d \in tab'[m] \ tab[m] :
       env' = env /\ d \in Devs => pv'[d].wwid \in {m, None} /\ pv'[d].init # "REMOVED"]_vars

\* The LUNs that something connects a device with: the udev data, its struct
\* path, a table, the paths of a map.
Luns(d) == ({dev[d], pv[d].wwid, pv[d].mpp} \ {None})
           \cup {m \in Wwids : d \in tab[m] \cup mp[m].paths \cup mp[m].pg}

\* No handler connects a device with a LUN that nothing connected it with:
\* not the recovery from a failed reload, not a stale uevent, not a re-add.
NoStranger == [][env' = env => \A d \in Devs : Luns(d)' \subseteq Luns(d)]_vars

\* What the daemon does about a device, in the kernel's tables or its own, it
\* does for the LUN of that device.
NoStray == NoWrongPath /\ NoStranger

\* A device name is given to another LUN only when the daemon has no struct
\* path of the name any more, or has one that fits. Uevents that are late may
\* break this: then the kernel refuses a reload as in MC_MapsGiveup.
NamesKept ==
  \A d \in Devs : dev'[d] \notin {dev[d], None} => {pv[d].wwid, pv[d].mpp} \subseteq {None, dev'[d]}

\* A path that is found again after it was removed is not used once
\* ev_remove_path() has freed it, and it is not stored in pathvec a second
\* time while the first struct path of the device is still there.
ReaddSafe == broken = None
=============================================================================
