------------------------------- MODULE Waiter -------------------------------
(***************************************************************************)
(* The waiter threads (multipathd/waiter.c), which multipathd uses for     *)
(* device-mapper events when the kernel does not support polling for them, *)
(* or with option -w. Every map in the tables has a thread that waits in   *)
(* an ioctl for the next event of the map and then, with vecs->lock held,  *)
(* reads the map's status anew. One map name, which the kernel may lose    *)
(* and get again, is modelled, with all the threads started for it.        *)
(***************************************************************************)
EXTENDS Integers

CONSTANTS
  Waiters,      \* threads
  MaxWtEvents,  \* bound on events, removals and additions in the kernel
  MaxWtFaults   \* bound on failures of libdevmapper

NoMap == "no map"          \* the map is not in vecs->mpvec
NoWaiter == "no waiter"    \* mpp->waiter == 0
Other == "other"           \* a thread that removes the map from the tables
Free == "free"

ASSUME WaiterConstants ==
  /\ MaxWtEvents \in Nat /\ MaxWtFaults \in Nat
  /\ \A w \in Waiters : w \notin {NoMap, NoWaiter, Other, Free}

VARIABLES
  wt_kern,     \* the kernel's map: generation, event number, "up" or "gone"
  wt_mpp,      \* mpp->waiter, or NoMap
  wt_view,     \* wt_kern when the status was last read
  wt_pc, wt_nr,   \* per thread: place, event_nr
  wt_cancel,   \* threads that were pthread_cancel()ed
  wt_sleeps,   \* per thread, the generation it waits for in the ioctl, or 0
  wt_born,     \* per thread, the generation it was started for
  wt_counted,  \* threads whose event_nr follows a reading of the status
  wt_vecs,     \* holder of vecs->lock
  wt_lock,     \* holder of waiter_lock
  wt_stop,     \* stop_waiter_thread() of the other thread: place, target
  wt_env, wt_faults

wt_vars == <<wt_kern, wt_mpp, wt_view, wt_pc, wt_nr, wt_cancel, wt_sleeps,
             wt_born, wt_counted, wt_vecs, wt_lock, wt_stop, wt_env, wt_faults>>

wt_shared == <<wt_born, wt_kern, wt_mpp, wt_view, wt_vecs, wt_lock, wt_stop, wt_env, wt_faults>>

WtInit ==
  /\ wt_kern = [gen |-> 1, nr |-> 0, state |-> "up"] /\ wt_view = wt_kern
  /\ wt_mpp = NoMap
  /\ wt_pc = [w \in Waiters |-> "none"] /\ wt_nr = [w \in Waiters |-> 0]
  /\ wt_cancel = {} /\ wt_sleeps = [w \in Waiters |-> 0]
  /\ wt_counted = {} /\ wt_born = [w \in Waiters |-> 0]
  /\ wt_vecs = Free /\ wt_lock = Free
  /\ wt_stop = [at |-> "idle", thread |-> NoWaiter] /\ wt_env = 0 /\ wt_faults = 0

MapUp == wt_kern.state = "up"

\* dm_geteventnr()
dm_geteventnr == IF MapUp THEN wt_kern.nr ELSE -1

GoTo(w, pc) == wt_pc' = [wt_pc EXCEPT ![w] = pc]

\* start_waiter_thread() for a map that was just set up, with vecs->lock held:
\* its status has been read. pthread_create() may fail.
start_waiter_thread ==
  /\ wt_vecs = Free /\ wt_mpp = NoMap /\ MapUp
  /\ wt_view' = wt_kern
  /\ \/ LET w == CHOOSE w \in Waiters : wt_pc[w] = "none"
        IN  /\ \E v \in Waiters : wt_pc[v] = "none"
            /\ GoTo(w, "start") /\ wt_mpp' = w /\ UNCHANGED wt_faults
            /\ wt_born' = [wt_born EXCEPT ![w] = wt_kern.gen]
     \/ /\ wt_faults < MaxWtFaults /\ wt_faults' = wt_faults + 1
        /\ wt_mpp' = NoWaiter /\ UNCHANGED <<wt_pc, wt_born>>
  /\ UNCHANGED <<wt_kern, wt_nr, wt_cancel, wt_sleeps, wt_counted, wt_vecs,
                 wt_lock, wt_stop, wt_env>>

\* remove_map_and_stop_waiter() of another thread: it takes vecs->lock ...
StopBegins ==
  /\ wt_vecs = Free /\ wt_mpp # NoMap
  /\ wt_vecs' = Other
  /\ wt_stop' = [at |-> IF wt_mpp = NoWaiter THEN "remove" ELSE "lock", thread |-> wt_mpp]
  /\ wt_mpp' = NoWaiter
  /\ UNCHANGED <<wt_born, wt_kern, wt_view, wt_pc, wt_nr, wt_cancel, wt_sleeps, wt_counted,
                 wt_lock, wt_env, wt_faults>>

\* ... and waiter_lock,
StopLocks ==
  /\ wt_stop.at = "lock" /\ wt_lock = Free
  /\ wt_lock' = Other /\ wt_stop' = [wt_stop EXCEPT !.at = "kill"]
  /\ UNCHANGED <<wt_born, wt_kern, wt_mpp, wt_view, wt_pc, wt_nr, wt_cancel, wt_sleeps,
                 wt_counted, wt_vecs, wt_env, wt_faults>>

\* sends SIGUSR2, which only interrupts the ioctl,
StopKills ==
  /\ wt_stop.at = "kill"
  /\ IF wt_pc[wt_stop.thread] = "ioctl"
     THEN /\ GoTo(wt_stop.thread, "failed")
          /\ wt_sleeps' = [wt_sleeps EXCEPT ![wt_stop.thread] = 0]
     ELSE UNCHANGED <<wt_pc, wt_sleeps>>
  /\ wt_stop' = [wt_stop EXCEPT !.at = "cancel"]
  /\ UNCHANGED <<wt_born, wt_kern, wt_mpp, wt_view, wt_nr, wt_cancel, wt_counted,
                 wt_vecs, wt_lock, wt_env, wt_faults>>

\* cancels the thread, and
StopCancels ==
  /\ wt_stop.at = "cancel"
  /\ wt_cancel' = wt_cancel \cup {wt_stop.thread}
  /\ wt_lock' = Free /\ wt_stop' = [wt_stop EXCEPT !.at = "remove"]
  /\ UNCHANGED <<wt_born, wt_kern, wt_mpp, wt_view, wt_pc, wt_nr, wt_sleeps, wt_counted,
                 wt_vecs, wt_env, wt_faults>>

\* removes the map from the tables.
StopRemoves ==
  /\ wt_stop.at = "remove"
  /\ wt_mpp' = NoMap /\ wt_vecs' = Free
  /\ wt_stop' = [at |-> "idle", thread |-> NoWaiter]
  /\ UNCHANGED <<wt_born, wt_kern, wt_view, wt_pc, wt_nr, wt_cancel, wt_sleeps, wt_counted,
                 wt_lock, wt_env, wt_faults>>

\* A cancellation point at which the thread ends if it was canceled and goes
\* on to pc otherwise.
TestCancel(w, pc) == GoTo(w, IF w \in wt_cancel THEN "end" ELSE pc)

\* waiteventloop(): event_nr 0 is read anew; creating the task may fail.
WaitStart(w) ==
  /\ wt_pc[w] = "start"
  /\ IF wt_nr[w] = 0
     THEN /\ wt_nr' = [wt_nr EXCEPT ![w] = dm_geteventnr]
          /\ wt_counted' = wt_counted \ {w}
     ELSE UNCHANGED <<wt_nr, wt_counted>>
  /\ \/ GoTo(w, "prepared") /\ UNCHANGED wt_faults
     \/ /\ wt_faults < MaxWtFaults /\ wt_faults' = wt_faults + 1 /\ GoTo(w, "sleep")
  /\ UNCHANGED <<wt_born, wt_kern, wt_mpp, wt_view, wt_cancel, wt_sleeps, wt_vecs, wt_lock,
                 wt_stop, wt_env>>

\* pthread_testcancel() before dm_task_run()
WaitTest(w) ==
  /\ wt_pc[w] = "prepared" /\ TestCancel(w, "run")
  /\ UNCHANGED <<wt_shared, wt_nr, wt_cancel, wt_sleeps, wt_counted>>

\* dm_task_run(): the ioctl fails without the map, or waits
WaitIoctl(w) ==
  /\ wt_pc[w] = "run"
  /\ GoTo(w, IF MapUp THEN "ioctl" ELSE "failed")
  /\ wt_sleeps' = [wt_sleeps EXCEPT ![w] = IF MapUp THEN wt_kern.gen ELSE 0]
  /\ UNCHANGED <<wt_shared, wt_nr, wt_cancel, wt_counted>>

\* ... until the event number differs from event_nr, or the map is removed.
WaitWakes(w) ==
  /\ wt_pc[w] = "ioctl"
  /\ wt_sleeps[w] # wt_kern.gen \/ ~MapUp \/ wt_nr[w] # wt_kern.nr
  /\ GoTo(w, "woken") /\ wt_sleeps' = [wt_sleeps EXCEPT ![w] = 0]
  /\ UNCHANGED <<wt_shared, wt_nr, wt_cancel, wt_counted>>

\* pthread_testcancel() after dm_task_run(): upon an event it is counted,
WaitCounts(w) ==
  /\ wt_pc[w] = "woken" /\ TestCancel(w, "event")
  /\ wt_nr' = [wt_nr EXCEPT ![w] = @ + 1]
  /\ UNCHANGED <<wt_shared, wt_cancel, wt_sleeps, wt_counted>>

\* after an interruption stop_waiter_thread() is given the time to cancel.
WaitInterrupted(w) ==
  /\ wt_pc[w] = "failed" /\ TestCancel(w, "interrupted")
  /\ UNCHANGED <<wt_shared, wt_nr, wt_cancel, wt_sleeps, wt_counted>>

WaitCheckLock(w) ==
  /\ wt_pc[w] = "interrupted" /\ wt_lock = Free /\ TestCancel(w, "sleep")
  /\ UNCHANGED <<wt_shared, wt_nr, wt_cancel, wt_sleeps, wt_counted>>

\* sleep(1) in waitevent(), a cancellation point
WaitSleeps(w) ==
  /\ wt_pc[w] = "sleep" /\ TestCancel(w, "start")
  /\ UNCHANGED <<wt_shared, wt_nr, wt_cancel, wt_sleeps, wt_counted>>

\* lock(&waiter->vecs->lock)
WaitLock(w) ==
  /\ wt_pc[w] = "event" /\ wt_vecs = Free
  /\ wt_vecs' = w /\ GoTo(w, "locked")
  /\ UNCHANGED <<wt_born, wt_kern, wt_mpp, wt_view, wt_nr, wt_cancel, wt_sleeps, wt_counted,
                 wt_lock, wt_stop, wt_env, wt_faults>>

\* pthread_testcancel() with vecs->lock held; cleanup_lock() releases it.
WaitCanceled(w) ==
  /\ wt_pc[w] = "locked" /\ w \in wt_cancel
  /\ GoTo(w, "end") /\ wt_vecs' = Free
  /\ UNCHANGED <<wt_born, wt_kern, wt_mpp, wt_view, wt_nr, wt_cancel, wt_sleeps, wt_counted,
                 wt_lock, wt_stop, wt_env, wt_faults>>

\* WaitUpdate without pthread_testcancel() under the lock
WaitUpdate_NoTest(w) ==
  /\ wt_pc[w] = "locked"
  /\ wt_vecs' = Free
  /\ IF wt_mpp # NoMap /\ MapUp
     THEN wt_view' = wt_kern /\ GoTo(w, "updated") /\ UNCHANGED wt_mpp
     ELSE wt_mpp' = NoMap /\ GoTo(w, "end") /\ UNCHANGED wt_view
  /\ UNCHANGED <<wt_born, wt_kern, wt_nr, wt_cancel, wt_sleeps, wt_counted, wt_lock, wt_stop,
                 wt_env, wt_faults>>

\* update_multipath(): the thread ends when the map is not in the tables. When
\* the status cannot be read, __setup_multipath() removes the map, and
\* stop_waiter_thread() does not cancel its caller.
WaitUpdate(w) ==
  /\ wt_pc[w] = "locked" /\ w \notin wt_cancel
  /\ wt_vecs' = Free
  /\ IF wt_mpp # NoMap /\ MapUp
     THEN wt_view' = wt_kern /\ GoTo(w, "updated") /\ UNCHANGED wt_mpp
     ELSE wt_mpp' = NoMap /\ GoTo(w, "end") /\ UNCHANGED wt_view
  /\ UNCHANGED <<wt_born, wt_kern, wt_nr, wt_cancel, wt_sleeps, wt_counted, wt_lock, wt_stop,
                 wt_env, wt_faults>>

\* WaitCompare that does not look whether more events have happened
WaitCompare_Trusts(w) ==
  /\ wt_pc[w] = "updated"
  /\ wt_nr' = [wt_nr EXCEPT ![w] = dm_geteventnr]
  /\ GoTo(w, "sleep") /\ wt_counted' = wt_counted \cup {w}
  /\ UNCHANGED <<wt_shared, wt_cancel, wt_sleeps>>

\* dm_geteventnr() after the update: other events have happened unless the
\* number is the one counted.
WaitCompare(w) ==
  /\ wt_pc[w] = "updated"
  /\ IF wt_nr[w] = dm_geteventnr
     THEN /\ GoTo(w, "sleep") /\ UNCHANGED wt_nr
          /\ wt_counted' = IF wt_nr[w] = 0 THEN wt_counted \ {w} ELSE wt_counted \cup {w}
     ELSE /\ wt_nr' = [wt_nr EXCEPT ![w] = dm_geteventnr] /\ GoTo(w, "event")
          /\ UNCHANGED wt_counted
  /\ UNCHANGED <<wt_shared, wt_cancel, wt_sleeps>>

\* The kernel counts an event of the map; removing the map is one, too.
WtKernelEvent ==
  /\ wt_env < MaxWtEvents /\ wt_env' = wt_env + 1
  /\ \/ MapUp /\ \E s \in {"up", "gone"} : wt_kern' = [wt_kern EXCEPT !.nr = @ + 1, !.state = s]
     \/ ~MapUp /\ wt_kern' = [gen |-> wt_kern.gen + 1, nr |-> 0, state |-> "up"]
  /\ UNCHANGED <<wt_born, wt_mpp, wt_view, wt_pc, wt_nr, wt_cancel, wt_sleeps, wt_counted,
                 wt_vecs, wt_lock, wt_stop, wt_faults>>

WaiterStep(w) ==
  \/ WaitStart(w) \/ WaitTest(w) \/ WaitIoctl(w) \/ WaitWakes(w) \/ WaitCounts(w)
  \/ WaitInterrupted(w) \/ WaitCheckLock(w) \/ WaitSleeps(w) \/ WaitLock(w)
  \/ WaitCanceled(w) \/ WaitUpdate(w) \/ WaitCompare(w)

StopStep == StopLocks \/ StopKills \/ StopCancels \/ StopRemoves

WtNext ==
  \/ start_waiter_thread \/ StopBegins \/ StopStep \/ WtKernelEvent
  \/ \E w \in Waiters : WaiterStep(w)

WtSpec == WtInit /\ [][WtNext]_wt_vars

(***************************************************************************)
(* Properties                                                              *)
(***************************************************************************)

\* A thread whose map was removed from the tables never reads the status of,
\* or removes, a map of the same name that was added since: it may have been
\* waiting for vecs->lock when stop_waiter_thread() canceled it.
NoLateUpdate ==
  \A w \in Waiters : w \in wt_cancel /\ wt_pc[w] = "locked"
    => wt_view' = wt_view /\ wt_mpp' = wt_mpp

\* No event is lost once a thread has gone through its loop: when it is about
\* to wait for the next event, it does not count an event of the map that came
\* after the status was last read. (An event before the first dm_geteventnr(),
\* while event_nr is 0, or of a new map of the same name that has the same
\* event number, may go unnoticed until the next one.)
EventsCounted ==
  \A w \in Waiters :
    (/\ wt_mpp = w /\ w \in wt_counted /\ wt_kern.gen = wt_born[w]
     /\ wt_pc[w] \in {"sleep", "start", "prepared", "run", "ioctl"})
      => wt_nr[w] <= wt_view.nr

\* A waiter thread works for its own map, and no step makes it miss an event.
WaitersSound == [][NoLateUpdate /\ EventsCounted']_wt_vars
=============================================================================
