------------------------------ MODULE DmEvents ------------------------------
(***************************************************************************)
(* The device-mapper events of multipathd/dmevents.c. The thread of        *)
(* wait_dmevents() polls /dev/mapper/control for all maps at once, arms the *)
(* poll again, reads the event numbers of all maps, compares them with     *)
(* those of the maps that are watched, and refreshes or removes the maps   *)
(* that differ. Other threads add and remove maps meanwhile.               *)
(*                                                                         *)
(* waiter->events is guarded by events_lock, the maps of the daemon by     *)
(* vecs->lock. A section under events_lock is one step; adding a map holds *)
(* vecs->lock for several steps. Every ioctl is a step.                    *)
(***************************************************************************)
EXTENDS Naturals

CONSTANTS
  DmMaps,        \* the names of the maps
  MaxChanges     \* bound on what happens to the maps in the kernel

ASSUME DmAssumption == MaxChanges \in Nat

VARIABLES
  kmap,       \* the maps in the kernel: incarnation, 0 without a map, and event number
  changes,    \* number of changes in the kernel so far
  readable,   \* poll() of waiter->fd would return
  mpvec,      \* the maps of the daemon, with what it saw of the kernel last
  events,     \* waiter->events; inc, which the code has not, says whose number it is
  adder,      \* the thread that adds a map and holds vecs->lock
  poller,     \* the thread of wait_dmevents()
  unread      \* the last dm_get_events() failed after the poll was armed

dm_vars == <<kmap, changes, readable, mpvec, events, adder, poller, unread>>

None == [inc |-> 0, nr |-> 0]
NoEvent == [inc |-> 0, nr |-> 0, action |-> "nothing"]
On(r) == r.inc # 0
Idle == [pc |-> "idle"]

-----------------------------------------------------------------------------
(* The kernel                                                              *)

KernelStep ==
  /\ changes < MaxChanges
  /\ changes' = changes + 1
  /\ readable' = TRUE
  /\ UNCHANGED <<mpvec, events, adder, poller, unread>>

KernelCreate(m) ==
  /\ KernelStep /\ ~On(kmap[m])
  /\ kmap' = [kmap EXCEPT ![m] = [inc |-> changes + 1, nr |-> 0]]

KernelEvent(m) ==
  /\ KernelStep /\ On(kmap[m])
  /\ kmap' = [kmap EXCEPT ![m].nr = @ + 1]

KernelRemove(m) ==
  /\ KernelStep /\ On(kmap[m])
  /\ kmap' = [kmap EXCEPT ![m] = None]

-----------------------------------------------------------------------------
(* Other threads of the daemon, under vecs->lock                           *)

\* wait_for_events() of a map that was added: watch_dmevents() as far as
\* dm_geteventnr(). If the map is not there, or something fails, the caller
\* removes it.
watch_dmevents(m, ok) ==
  /\ adder = Idle
  /\ IF On(kmap[m]) /\ ok
     THEN adder' = [pc |-> "insert", m |-> m, nr |-> kmap[m].nr, inc |-> kmap[m].inc] /\ UNCHANGED mpvec
     ELSE mpvec' = [mpvec EXCEPT ![m] = None] /\ UNCHANGED adder
  /\ UNCHANGED <<kmap, changes, readable, events, poller, unread>>

\* The part of watch_dmevents() under events_lock
watch_insert ==
  /\ adder.pc = "insert"
  /\ events' = [events EXCEPT ![adder.m] =
                   [inc |-> adder.inc, nr |-> adder.nr, action |-> "nothing"]]
  /\ adder' = [pc |-> "setup", m |-> adder.m]
  /\ UNCHANGED <<kmap, changes, readable, mpvec, poller, unread>>

\* What __setup_multipath() leaves of a map: its state as the kernel has it, or
\* nothing if the map is not there or its table or status cannot be read
Refreshed(m, ok) == IF ok THEN kmap[m] ELSE None

\* setup_multipath() after watch_dmevents()
add_setup(ok) ==
  /\ adder.pc = "setup"
  /\ mpvec' = [mpvec EXCEPT ![adder.m] = Refreshed(adder.m, ok)]
  /\ adder' = Idle
  /\ UNCHANGED <<kmap, changes, readable, events, poller, unread>>

\* The daemon gives up a map and leaves its entry of waiter->events to the poller.
remove_map_and_stop_waiter(m) ==
  /\ adder = Idle /\ On(mpvec[m])
  /\ mpvec' = [mpvec EXCEPT ![m] = None]
  /\ UNCHANGED <<kmap, changes, readable, events, adder, poller, unread>>

\* All maps are given up, before a reconfiguration and at exit.
remove_maps_and_stop_waiters ==
  /\ adder = Idle
  /\ mpvec' = [m \in DmMaps |-> None]
  /\ events' = [m \in DmMaps |-> NoEvent]
  /\ UNCHANGED <<kmap, changes, readable, adder, poller, unread>>

-----------------------------------------------------------------------------
(* dmevent_loop()                                                          *)

poll_and_arm ==
  /\ poller.pc = "poll" /\ readable
  /\ readable' = FALSE
  /\ poller' = [pc |-> "list"]
  /\ UNCHANGED <<kmap, changes, mpvec, events, adder, unread>>

\* DM_DEVICE_LIST of dm_get_events(), before events_lock is taken
dm_list ==
  /\ poller.pc = "list"
  /\ poller' = [pc |-> "mark", names |-> kmap]
  /\ UNCHANGED <<kmap, changes, readable, mpvec, events, adder, unread>>

dm_list_fails ==
  /\ poller.pc = "list"
  /\ poller' = [pc |-> "poll"]
  /\ unread' = TRUE
  /\ UNCHANGED <<kmap, changes, readable, mpvec, events, adder>>

\* Mutant: the entries are not preset to EVENT_REMOVE.
Compared_keeps(evt, name) ==
  IF ~On(evt) \/ ~On(name) THEN evt
  ELSE IF name.nr # evt.nr THEN [evt EXCEPT !.nr = name.nr, !.inc = name.inc, !.action = "update"]
  ELSE [evt EXCEPT !.action = "nothing"]

\* An entry of waiter->events, compared with the entry of the list
Compared(evt, name) ==
  IF ~On(evt) THEN evt
  ELSE IF ~On(name) THEN [evt EXCEPT !.action = "remove"]
  ELSE IF name.nr # evt.nr THEN [evt EXCEPT !.nr = name.nr, !.inc = name.inc, !.action = "update"]
  ELSE [evt EXCEPT !.action = "nothing"]

\* Mutant: the poll is armed after the event numbers were read.
dm_get_events_arms ==
  /\ poller.pc = "mark"
  /\ events' = [m \in DmMaps |-> Compared(events[m], poller.names[m])]
  /\ poller' = [pc |-> "scan"]
  /\ unread' = FALSE
  /\ readable' = FALSE
  /\ UNCHANGED <<kmap, changes, mpvec, adder>>

\* The part of dm_get_events() under events_lock
dm_get_events ==
  /\ poller.pc = "mark"
  /\ events' = [m \in DmMaps |-> Compared(events[m], poller.names[m])]
  /\ poller' = [pc |-> "scan"]
  /\ unread' = FALSE
  /\ UNCHANGED <<kmap, changes, readable, mpvec, adder>>

\* The next entry with something to do, or none
dmevent_scan ==
  /\ poller.pc = "scan"
  /\ \/ /\ \A m \in DmMaps : On(events[m]) => events[m].action = "nothing"
        /\ poller' = [pc |-> "poll"]
        /\ UNCHANGED events
     \/ \E m \in DmMaps :
          /\ On(events[m]) /\ events[m].action # "nothing"
          /\ poller' = [pc |-> "handle", m |-> m, action |-> events[m].action]
          /\ events' = [events EXCEPT ![m] = IF @.action = "remove" THEN NoEvent
                                             ELSE [@ EXCEPT !.action = "nothing"]]
  /\ UNCHANGED <<kmap, changes, readable, mpvec, adder, unread>>

\* remove_map_by_alias() or update_multipath(), under vecs->lock
dmevent_handle(ok) ==
  /\ poller.pc = "handle" /\ adder = Idle
  /\ LET m == poller.m IN
     /\ mpvec' = [mpvec EXCEPT ![m] = IF poller.action = "update" /\ On(@) THEN Refreshed(m, ok) ELSE None]
     /\ poller' = IF poller.action = "update" /\ ~On(mpvec'[m])
                  THEN [pc |-> "unwatch", m |-> m] ELSE [pc |-> "scan"]
  /\ UNCHANGED <<kmap, changes, readable, events, adder, unread>>

unwatch_dmevents ==
  /\ poller.pc = "unwatch"
  /\ events' = [events EXCEPT ![poller.m] = NoEvent]
  /\ poller' = [pc |-> "scan"]
  /\ UNCHANGED <<kmap, changes, readable, mpvec, adder, unread>>

-----------------------------------------------------------------------------
DmInit ==
  /\ kmap = [m \in DmMaps |-> None] /\ changes = 0 /\ readable = FALSE
  /\ mpvec = [m \in DmMaps |-> None] /\ events = [m \in DmMaps |-> NoEvent]
  /\ adder = Idle /\ poller = [pc |-> "poll"] /\ unread = FALSE

Kernel == \E m \in DmMaps : KernelCreate(m) \/ KernelEvent(m) \/ KernelRemove(m)

Adder ==
  \/ \E m \in DmMaps, ok \in BOOLEAN : watch_dmevents(m, ok)
  \/ \E m \in DmMaps : remove_map_and_stop_waiter(m)
  \/ watch_insert
  \/ \E ok \in BOOLEAN : add_setup(ok)
  \/ remove_maps_and_stop_waiters

Poller ==
  \/ poll_and_arm \/ dm_list \/ dm_list_fails \/ dm_get_events
  \/ dmevent_scan \/ unwatch_dmevents
  \/ \E ok \in BOOLEAN : dmevent_handle(ok)

DmNext == Kernel \/ Adder \/ Poller

\* The poller runs and gets vecs->lock in the end; so does who adds a map.
DmFairness ==
  /\ WF_dm_vars(watch_insert) /\ WF_dm_vars(\E ok \in BOOLEAN : add_setup(ok))
  /\ WF_dm_vars(poll_and_arm) /\ WF_dm_vars(dm_list) /\ WF_dm_vars(dm_get_events)
  /\ WF_dm_vars(dmevent_scan) /\ WF_dm_vars(unwatch_dmevents)
  /\ SF_dm_vars(\E ok \in BOOLEAN : dmevent_handle(ok))

DmSpec == DmInit /\ [][DmNext]_dm_vars /\ DmFairness

-----------------------------------------------------------------------------
(* Properties                                                              *)

\* The daemon has the map that the kernel has, not an earlier one of that name.
Registered(m) == On(mpvec[m]) /\ On(kmap[m]) /\ mpvec[m].inc = kmap[m].inc

\* The poller has an entry for the map, or is about to handle what it took.
Watched(m) == On(events[m]) \/ (poller.pc = "handle" /\ poller.m = m)

\* While the poller sleeps in poll(), the daemon has seen the last event of each
\* map it watches: no event falls between reading the event numbers, arming the
\* poll, adding the map and setting it up. Only a failed dm_get_events() loses one,
\* and a map that was created again with an event number that the entry had from
\* the earlier map of its name.
NoLostEvent ==
  poller.pc = "poll" /\ ~readable /\ adder = Idle /\ ~unread =>
    \A m \in DmMaps :
      Registered(m) /\ On(events[m]) /\ events[m].inc = kmap[m].inc => mpvec[m].nr = kmap[m].nr

\* A watched map that is gone from the kernel is dropped, unless one of its
\* name comes back, dm_get_events() fails or the map is not watched any more.
GoneMapsDropped ==
  \A m \in DmMaps :
    On(mpvec[m]) /\ ~On(kmap[m]) /\ Watched(m)
      ~> ~On(mpvec[m]) \/ On(kmap[m]) \/ unread \/ ~Watched(m)

\* What case 3 in dmevent_loop() says: what the poller handles as a removal is a
\* map that has gone away, not one that is there and was set up.
RemovedMapsAreGone ==
  [][poller.pc = "handle" /\ poller' # poller /\ poller.action = "remove"
       => ~Registered(poller.m)]_dm_vars
=============================================================================
