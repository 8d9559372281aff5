------------------------------ MODULE PathCheck ------------------------------
(***************************************************************************)
(* Path checking and queueing of one multipath map: check_path(), the      *)
(* ticks of checkerloop(), the no_path_retry recovery mode of              *)
(* libmultipath/structs_vec.c, failback between path groups, the dm event  *)
(* handler update_multipath(), map reloads, the operator's commands, and   *)
(* the kernel's dm-multipath target behind dm messages and ioctls.         *)
(*                                                                         *)
(* Every path stays in the map and forms a path group of its own. All      *)
(* daemon code below runs under vecs->lock: between two rounds and between *)
(* the checks and the ticks of a round the lock is free, and other threads *)
(* may run; the kernel may act at any time. One round is one second.       *)
(*                                                                         *)
(* An operation is an operator on the state w = [mpp, pp, dm], so that the *)
(* calls of the code compose; an action applies one and assigns the rest.  *)
(***************************************************************************)
EXTENDS Integers, FiniteSets

CONSTANTS
  NPaths,        \* number of paths, and of path groups
  Prio,          \* the priority of each path
  NoPathRetry,   \* the configured no_path_retry
  Checkint,      \* conf->checkint
  MaxCheckint,   \* conf->max_checkint
  PgFailback,    \* mpp->pgfailback: -FAILBACK_IMMEDIATE, ... or seconds
  GroupByPrio,   \* whether mpp->pgpolicyfn is group_by_prio
  ImplicitTpgs,  \* whether the target supports only implicit ALUA
  SanThreshold, SanForgetRate, SanRecoveryTime,   \* san_path_err_*
  Results,       \* what path_offline() and get_state() may return
  SyncMayFail,   \* whether reading the kernel's table or status may fail
  Operator,      \* whether there are operator commands
  Reloads        \* how a reload of the map may turn out (TRUE: it is loaded), {}: no reloads

QUEUE == -2      \* NO_PATH_RETRY_QUEUE
FAIL  == -1      \* NO_PATH_RETRY_FAIL
UNDEF == 0       \* NO_PATH_RETRY_UNDEF

IMMEDIATE  == -2 \* -FAILBACK_IMMEDIATE
FOLLOWOVER == -3 \* -FAILBACK_FOLLOWOVER
MANUAL     == -1 \* -FAILBACK_MANUAL

ASSUME PathCheckAssumption ==
  /\ NPaths \in Nat \ {0}
  /\ Prio \in [1..NPaths -> Nat]
  /\ NoPathRetry \in Int /\ NoPathRetry >= QUEUE
  /\ Checkint \in Nat \ {0} /\ MaxCheckint \in Nat /\ MaxCheckint >= Checkint
  /\ PgFailback \in Int /\ PgFailback >= FOLLOWOVER
  /\ {SanThreshold, SanForgetRate, SanRecoveryTime} \subseteq Nat
  /\ Results \subseteq {"UP", "GHOST", "DOWN", "SHAKY", "PENDING", "WILD"}
  /\ {GroupByPrio, ImplicitTpgs, SyncMayFail, Operator} \cup Reloads \subseteq BOOLEAN

VARIABLES
  mpp,   \* struct multipath
  pp,    \* struct path of each path
  dm,    \* the kernel's map: path states, queue_if_no_path, path group
  turn   \* the path checkerloop() checks next; NPaths + 1 before the ticks

vars == <<mpp, pp, dm, turn>>

Paths == 1..NPaths
Good  == {"UP", "GHOST"}
W     == [mpp |-> mpp, pp |-> pp, dm |-> dm]

\* vecs->lock is not held by checkerloop()
LockFree == turn \in {1, NPaths + 1}

-----------------------------------------------------------------------------
(* The kernel. A path that fails or comes back, and a new table, raise an  *)
(* event.                                                                  *)

dm_queue_if_no_path(w, on) == [w EXCEPT !.dm.queue = on]

SetPath(w, p, s) ==
  [w EXCEPT !.dm.path[p] = s, !.dm.event = @ \/ w.dm.path[p] # s]

dm_fail_path(w, p)      == SetPath(w, p, "F")
dm_reinstate_path(w, p) == SetPath(w, p, "A")
dm_switchgroup(w, g)    == [w EXCEPT !.dm.pg = g]

\* A table load: all paths are active again, and the features of the table
\* decide on queueing.
dm_addmap_reload(w, queue, g) ==
  [w EXCEPT !.dm = [path |-> [p \in Paths |-> "A"], queue |-> queue, pg |-> g,
                    event |-> TRUE]]

-----------------------------------------------------------------------------
(* structs_vec.c: recovery mode                                            *)

\* count_active_paths() # 0: paths are counted through mpp->pg
Active(w) == w.mpp.pg /\ \E p \in Paths : w.pp[p].state \in Good

\* Mutant: the retries start again whenever no path is found
enter_recovery_mode_again(w) ==
  IF w.mpp.no_path_retry <= 0 THEN w
  ELSE [w EXCEPT !.mpp.in_recovery = TRUE,
                 !.mpp.retry_tick = w.mpp.no_path_retry * Checkint + 1]

enter_recovery_mode(w) ==
  IF w.mpp.in_recovery \/ w.mpp.no_path_retry <= 0 THEN w
  ELSE [w EXCEPT !.mpp.in_recovery = TRUE,
                 !.mpp.retry_tick = w.mpp.no_path_retry * Checkint + 1]

leave_recovery_mode(w) ==
  LET v == [w EXCEPT !.mpp.in_recovery = FALSE, !.mpp.retry_tick = 0]
  IN  IF w.mpp.in_recovery /\ w.mpp.no_path_retry \notin {FAIL, UNDEF}
      THEN dm_queue_if_no_path(v, TRUE) ELSE v

\* Mutant: only recovery mode is left, queueing is not enabled
set_no_path_retry_noqueue(w) ==
  LET n == w.mpp.no_path_retry
  IN  IF n = FAIL THEN dm_queue_if_no_path(w, FALSE)
      ELSE IF n > 0 THEN (IF Active(w) THEN leave_recovery_mode(w) ELSE enter_recovery_mode(w))
      ELSE w

\* __set_no_path_retry(): mpp->features is what was last read of the table,
\* "null" when it could not be read.
set_no_path_retry(w) ==
  LET n == w.mpp.no_path_retry
      f == w.mpp.features
  IN  CASE n = FAIL  -> IF f # "fail" THEN dm_queue_if_no_path(w, FALSE) ELSE w
        [] n = QUEUE -> IF f # "queue" THEN dm_queue_if_no_path(w, TRUE) ELSE w
        [] n = UNDEF -> w
        [] n > 0 /\ Active(w) ->
             leave_recovery_mode(IF f # "queue" /\ ~w.mpp.in_recovery
                                 THEN dm_queue_if_no_path(w, TRUE) ELSE w)
        [] n > 0 /\ ~Active(w) -> enter_recovery_mode(w)

update_queue_mode_del_path(w) == IF Active(w) THEN w ELSE enter_recovery_mode(w)
update_queue_mode_add_path(w) == IF Active(w) THEN leave_recovery_mode(w) ELSE w

\* update_multipath_strings(): the daemon's view of the table. It is gone
\* when the table cannot be read (known = FALSE).
update_multipath_strings(w, known) ==
  [w EXCEPT !.mpp.pg = known,
            !.mpp.nextpg = IF known THEN w.dm.pg ELSE @,
            !.mpp.features = IF ~known THEN "null"
                             ELSE IF w.dm.queue THEN "queue" ELSE "fail"]

\* sync_map_state(), right after the table was read: what the checkers know
\* is told to the kernel.
sync_map_state(w) ==
  LET S(p) == w.pp[p].state
      new == [p \in Paths |-> IF w.dm.path[p] = "F" /\ S(p) \in Good THEN "A"
                              ELSE IF w.dm.path[p] = "A" /\ S(p) \in {"DOWN", "SHAKY"} THEN "F"
                              ELSE w.dm.path[p]]
  IN  [w EXCEPT !.dm.path = new, !.dm.event = @ \/ new # w.dm.path]

-----------------------------------------------------------------------------
(* Path groups                                                             *)

\* select_path_group(): the first group of the highest priority among those
\* with an enabled path, 1 if there is none
select_path_group(w) ==
  LET usable == {p \in Paths : w.pp[p].state \in Good}
      best   == {p \in usable : \A q \in usable : Prio[p] >= Prio[q]}
  IN  IF ~w.mpp.pg \/ usable = {} THEN 1
      ELSE CHOOSE p \in best : \A q \in best : p <= q

need_switch_pathgroup(w) ==
  w.mpp.pg /\ PgFailback # MANUAL /\ select_path_group(w) # w.mpp.nextpg

\* followover_should_failback(): p is the first path of the best group to
\* come back. Its group has no other path.
followover_should_failback(w, p) ==
  PgFailback = FOLLOWOVER /\ w.mpp.pg /\ p = w.mpp.bestpg

\* reload_and_sync_map(): setup_map() takes no_path_retry from the
\* configuration again and regroups the paths; then the table is loaded, or
\* the load fails (load = FALSE); setup_multipath() and sync_map_state()
\* follow a load.
reload_and_sync_map(w, load) ==
  LET g == select_path_group(w)
      v == [w EXCEPT !.mpp.disable_queueing = FALSE,
                     !.mpp.no_path_retry = NoPathRetry,
                     !.mpp.bestpg = g,
                     !.mpp.pg = TRUE]
      queue == NoPathRetry \notin {UNDEF, FAIL}
  IN  IF ~load
      THEN [v EXCEPT !.mpp.features = IF queue THEN "queue" ELSE "fail"]
      ELSE sync_map_state(set_no_path_retry(
             update_multipath_strings(dm_addmap_reload(v, queue, g), TRUE)))

-----------------------------------------------------------------------------
(* check_path()                                                            *)

san_path_check_enabled == SanThreshold > 0 /\ SanForgetRate > 0 /\ SanRecoveryTime > 0

\* Mutants: the time of the delay starts again at every check; the last
\* path is delayed like any other
reinstate_state_restarts(w, p) ==
  LET x == w.pp[p]
  IN  IF x.disable_reinstate
      THEN IF ~Active(w)
           THEN <<[x EXCEPT !.path_failures = 0, !.disable_reinstate = FALSE], FALSE>>
           ELSE <<[x EXCEPT !.delayed_for = 0], TRUE>>
      ELSE IF x.state \in {"DOWN", "SHAKY"}
      THEN <<[x EXCEPT !.delayed_for = 0, !.disable_reinstate = TRUE], TRUE>>
      ELSE <<x, FALSE>>

reinstate_state_last(w, p) ==
  LET x == w.pp[p]
  IN  IF x.disable_reinstate
      THEN IF x.delayed_for > SanRecoveryTime
           THEN <<[x EXCEPT !.path_failures = 0, !.disable_reinstate = FALSE], FALSE>>
           ELSE <<x, TRUE>>
      ELSE IF x.state \in {"DOWN", "SHAKY"}
      THEN <<[x EXCEPT !.delayed_for = 0, !.disable_reinstate = TRUE], TRUE>>
      ELSE <<x, FALSE>>

\* check_path_reinstate_state(): the new struct path and whether the path is
\* to be delayed.
check_path_reinstate_state(w, p) ==
  LET x  == w.pp[p]
      clear == [x EXCEPT !.path_failures = 0, !.disable_reinstate = FALSE, !.forget_rate = 0]
      y  == IF x.state \in Good \cup {"DELAYED"} THEN x
            ELSE [x EXCEPT !.forget_rate = SanForgetRate, !.delayed_for = 0]
      forget == IF x.forget_rate > 0 THEN [x EXCEPT !.forget_rate = @ - 1]
                ELSE [x EXCEPT !.path_failures = @ - 1, !.forget_rate = SanForgetRate]
      count == [x EXCEPT !.path_failures = @ + 1,
                         !.forget_rate = IF x.path_failures = 0 THEN SanForgetRate ELSE @]
  IN  CASE x.disable_reinstate /\ (~Active(w) \/ y.delayed_for > SanRecoveryTime) -> <<clear, FALSE>>
        [] x.disable_reinstate /\ Active(w) /\ y.delayed_for <= SanRecoveryTime -> <<y, TRUE>>
        [] ~x.disable_reinstate /\ x.state \in Good /\ x.path_failures > 0 -> <<forget, FALSE>>
        [] ~x.disable_reinstate /\ x.state \in {"DOWN", "SHAKY"} ->
             IF count.path_failures > SanThreshold
             THEN <<[count EXCEPT !.delayed_for = 0, !.disable_reinstate = TRUE], TRUE>>
             ELSE <<count, FALSE>>
        [] OTHER -> <<x, FALSE>>

fail_path(w, p, del_active) ==
  LET v == dm_fail_path(w, p)
  IN  IF del_active THEN update_queue_mode_del_path(v) ELSE v

\* Mutant: recovery mode is left to the next check
reinstate_path_only(w, p) == dm_reinstate_path(w, p)

reinstate_path(w, p) == update_queue_mode_add_path(dm_reinstate_path(w, p))

\* The part of check_path() between the new state and the priorities: the
\* path's state is told to the kernel. dmstate is the path's state as just
\* read from the kernel.
ApplyState(w, p, ns, dmstate) ==
  LET old == w.pp[p].state
      disable_reinstate == ns = "GHOST" /\ ~Active(w) /\ ImplicitTpgs
      v  == [w EXCEPT !.pp[p].state = ns, !.pp[p].chkrstate = ns]
      r  == [v EXCEPT !.pp[p].checkint = Checkint]
      ci == IF v.pp[p].checkint < MaxCheckint \div 2 THEN 2 * v.pp[p].checkint
            ELSE MaxCheckint
  IN  CASE ns # old /\ ns \notin Good ->
             [fail_path(r, p, old \in Good) EXCEPT !.mpp.failback_tick = 0]
        [] ns # old /\ ns \in Good ->
             IF disable_reinstate THEN r ELSE reinstate_path(r, p)
        [] ns = old /\ ns \in Good ->
             IF dmstate \in {"F", "undef"} /\ ~disable_reinstate
             THEN reinstate_path(v, p)
             ELSE [v EXCEPT !.pp[p].checkint = ci, !.pp[p].tick = ci]
        [] ns = old /\ ns \notin Good ->
             IF dmstate \in {"A", "undef"} THEN fail_path(v, p, FALSE) ELSE v

\* Mutant: the delay of the failback starts again at every check
Failback_rearm(w, p, new_path_up, chkr_new_path_up, prio_changed, load) ==
  IF need_switch_pathgroup(w) /\ PgFailback > 0
  THEN [w EXCEPT !.mpp.bestpg = select_path_group(w), !.mpp.failback_tick = PgFailback + 1]
  ELSE w

\* The rest of check_path(): a change of priorities reloads the map,
\* otherwise a better path group may be switched to.
Failback(w, p, new_path_up, chkr_new_path_up, prio_changed, load) ==
  LET best == select_path_group(w)
      v == IF w.mpp.pg /\ PgFailback # MANUAL THEN [w EXCEPT !.mpp.bestpg = best] ELSE w
  IN  CASE prio_changed /\ GroupByPrio /\ PgFailback = IMMEDIATE ->
             reload_and_sync_map(w, load)
        [] ~(prio_changed /\ GroupByPrio /\ PgFailback = IMMEDIATE)
           /\ ~need_switch_pathgroup(w) -> v
        [] OTHER ->
             IF PgFailback > 0 /\ (new_path_up \/ v.mpp.failback_tick <= 0)
             THEN [v EXCEPT !.mpp.failback_tick = PgFailback + 1]
             ELSE IF PgFailback = IMMEDIATE
                     \/ (chkr_new_path_up /\ followover_should_failback(v, p))
             THEN dm_switchgroup(v, best)
             ELSE v

\* check_path() of a path that is due and whose checker returned ns. rc is
\* the result of update_multipath_strings(), known whether it got the table;
\* that the map is gone from the kernel is left out here.
CheckDue(w, p, ns, known, rc, prio_changed, load) ==
  LET a == [w EXCEPT !.pp[p].tick = Checkint]
      s == update_multipath_strings(a, known)
      n == set_no_path_retry(s)
      reinst == IF ns \in Good /\ san_path_check_enabled
                THEN check_path_reinstate_state(n, p) ELSE <<n.pp[p], FALSE>>
      b == [n EXCEPT !.pp[p] = reinst[1]]
      c == ApplyState(b, p, ns, IF rc = "OK" THEN s.dm.path[p] ELSE "undef")
      new_path_up == ns \in Good /\ ns # b.pp[p].state
      chkr_new_path_up == new_path_up /\ b.pp[p].chkrstate \notin Good
  IN  CASE ns = "WILD" -> a
        [] ns \notin Good \cup {"WILD"} /\ a.pp[p].state = "DELAYED" ->
             [a EXCEPT !.pp[p].state = ns]
        [] ns = "PENDING" /\ a.pp[p].state # "DELAYED" -> [a EXCEPT !.pp[p].tick = 1]
        [] OTHER ->
             IF reinst[2] THEN [b EXCEPT !.pp[p].state = "DELAYED"]
             ELSE IF ns # b.pp[p].state /\ ns \notin Good THEN c
             ELSE Failback(c, p, new_path_up, chkr_new_path_up, prio_changed, load)

\* A checker that is disabled reports PATH_UNCHECKED, treated as PATH_WILD.
CheckResults(p) == IF pp[p].checker_disabled THEN {"WILD"} ELSE Results

Assign(w) == mpp' = w.mpp /\ pp' = w.pp /\ dm' = w.dm

\* pp->tick -= MIN(pp->tick, ticks), and the path is not due yet
CheckNotDue ==
  /\ turn \in Paths
  /\ pp[turn].tick > 1
  /\ pp' = [pp EXCEPT ![turn].tick = @ - 1]
  /\ turn' = turn + 1
  /\ UNCHANGED <<mpp, dm>>

check_path(ns, known, rc, prio_changed, load) ==
  /\ turn \in Paths
  /\ pp[turn].tick <= 1
  /\ ns \in CheckResults(turn)
  /\ rc = "OK" => known
  /\ Assign(CheckDue(W, turn, ns, known, rc, prio_changed, load))
  /\ turn' = turn + 1

Check ==
  \/ CheckNotDue
  \/ \E ns \in Results \cup {"WILD"} :
       \E known \in IF SyncMayFail THEN BOOLEAN ELSE {TRUE},
          rc \in IF SyncMayFail THEN {"OK", "ERR"} ELSE {"OK"},
          prio_changed \in IF Reloads = {} THEN {FALSE} ELSE BOOLEAN,
          load \in Reloads \cup {TRUE} :
         check_path(ns, known, rc, prio_changed, load)

-----------------------------------------------------------------------------
(* The ticks of checkerloop()                                              *)

defered_failback_tick(w) ==
  LET v == [w EXCEPT !.mpp.failback_tick = @ - 1]
      best == select_path_group(w)
  IN  IF PgFailback > 0 /\ w.mpp.failback_tick > 0
      THEN IF v.mpp.failback_tick = 0 /\ need_switch_pathgroup(v)
           THEN dm_switchgroup([v EXCEPT !.mpp.bestpg = best], best)
           ELSE v
      ELSE w

\* Mutant: the count goes on below zero
retry_count_tick_below(w) ==
  LET v == [w EXCEPT !.mpp.retry_tick = @ - 1]
  IN  IF v.mpp.retry_tick = 0 THEN dm_queue_if_no_path(v, FALSE) ELSE v

retry_count_tick(w) ==
  LET v == [w EXCEPT !.mpp.retry_tick = @ - 1]
  IN  IF w.mpp.retry_tick = 0 THEN w
      ELSE IF v.mpp.retry_tick = 0 THEN dm_queue_if_no_path(v, FALSE) ELSE v

\* The clock that dis_reinstate_time is compared with, capped
Clock(w) ==
  [w EXCEPT !.pp = [p \in Paths |->
     [w.pp[p] EXCEPT !.delayed_for =
        IF w.pp[p].disable_reinstate /\ @ <= SanRecoveryTime THEN @ + 1 ELSE @]]]

Ticks ==
  /\ turn = NPaths + 1
  /\ Assign(Clock(retry_count_tick(defered_failback_tick(W))))
  /\ turn' = 1

-----------------------------------------------------------------------------
(* Other threads, while they hold vecs->lock                               *)

\* update_multipath() on a dm event: paths the kernel has failed are marked
\* down, and checked again soon. A map that cannot be read is removed, which
\* this module leaves out.
\* Mutant: the next check is not brought forward
MarkFailed_later(w, F) ==
  [w EXCEPT !.pp = [p \in Paths |->
     IF p \in F THEN [w.pp[p] EXCEPT !.state = "DOWN"] ELSE w.pp[p]]]

MarkFailed(w, F) ==
  [w EXCEPT !.pp = [p \in Paths |->
     IF p \in F THEN [w.pp[p] EXCEPT !.state = "DOWN",
                                     !.tick = IF @ > Checkint THEN Checkint ELSE @]
     ELSE w.pp[p]]]

update_multipath ==
  LET w == set_no_path_retry(update_multipath_strings([W EXCEPT !.dm.event = FALSE], TRUE))
      F == {p \in Paths : w.dm.path[p] = "F" /\ w.pp[p].state # "DOWN"}
      v == MarkFailed(w, F)
  IN  /\ LockFree
      /\ dm.event
      /\ Assign(IF \E p \in F : w.pp[p].state \in Good
                THEN update_queue_mode_del_path(v) ELSE v)
      /\ UNCHANGED turn

\* Mutant: no_path_retry keeps its value
cli_disable_queueing_once ==
  /\ LockFree /\ Operator
  /\ Assign(dm_queue_if_no_path([W EXCEPT !.mpp.retry_tick = 0,
                                          !.mpp.disable_queueing = TRUE], FALSE))
  /\ UNCHANGED turn

cli_disable_queueing ==
  /\ LockFree /\ Operator
  /\ Assign(set_no_path_retry([W EXCEPT !.mpp.retry_tick = 0,
                                        !.mpp.no_path_retry = FAIL,
                                        !.mpp.disable_queueing = TRUE]))
  /\ UNCHANGED turn

cli_restore_queueing ==
  LET w == [W EXCEPT !.mpp.disable_queueing = FALSE, !.mpp.no_path_retry = NoPathRetry]
  IN  /\ LockFree /\ Operator
      /\ Assign(IF NoPathRetry \in {UNDEF, FAIL} THEN w ELSE set_no_path_retry(w))
      /\ UNCHANGED turn

cli_fail(p) ==
  /\ LockFree /\ Operator
  /\ Assign([dm_fail_path(W, p) EXCEPT !.pp[p].checker_disabled = TRUE])
  /\ UNCHANGED turn

cli_reinstate(p) ==
  /\ LockFree /\ Operator
  /\ Assign([dm_reinstate_path(W, p) EXCEPT !.pp[p].checker_disabled = FALSE])
  /\ UNCHANGED turn

cli_switch_group(g) ==
  /\ LockFree /\ Operator
  /\ Assign(dm_switchgroup(W, g))
  /\ UNCHANGED turn

\* "reload map", and the reload that ends the addition or the removal of a
\* path in ev_add_path() and ev_remove_path()
cli_reload(load) ==
  /\ LockFree
  /\ Assign(reload_and_sync_map(W, load))
  /\ UNCHANGED turn

-----------------------------------------------------------------------------
(* The kernel on its own: a failed I/O fails its path, and a group without *)
(* an active path is left for one that has some.                           *)

KernelFail(p) ==
  /\ dm.path[p] = "A"
  /\ dm' = SetPath(W, p, "F").dm
  /\ UNCHANGED <<mpp, pp, turn>>

KernelSwitch ==
  /\ dm.path[dm.pg] = "F"
  /\ \E g \in Paths : dm.path[g] = "A" /\ dm' = [dm EXCEPT !.pg = g]
  /\ UNCHANGED <<mpp, pp, turn>>

-----------------------------------------------------------------------------
Init ==
  /\ mpp = [no_path_retry |-> NoPathRetry, disable_queueing |-> FALSE,
            in_recovery |-> FALSE, retry_tick |-> 0, features |-> "queue", pg |-> TRUE,
            failback_tick |-> 0, bestpg |-> 1, nextpg |-> 1]
  /\ pp = [p \in Paths |-> [state |-> "UP", chkrstate |-> "UP", tick |-> 1,
            checkint |-> Checkint, checker_disabled |-> FALSE, path_failures |-> 0,
            disable_reinstate |-> FALSE, forget_rate |-> 0, delayed_for |-> 0]]
  /\ dm = [path |-> [p \in Paths |-> "A"], queue |-> NoPathRetry \notin {UNDEF, FAIL},
           pg |-> 1, event |-> FALSE]
  /\ turn = 1

Cli ==
  \/ cli_disable_queueing \/ cli_restore_queueing
  \/ \E p \in Paths : cli_fail(p) \/ cli_reinstate(p) \/ cli_switch_group(p)
  \/ \E load \in Reloads : cli_reload(load)

Kernel == KernelSwitch \/ \E p \in Paths : KernelFail(p)

Next == Check \/ Ticks \/ update_multipath \/ Cli \/ Kernel

(***************************************************************************)
(* checkerloop() goes round for ever; dm events are handled, because their *)
(* thread gets the lock while checkerloop() sleeps; an asynchronous check  *)
(* does not report PATH_PENDING for ever, because checkers time out (only  *)
(* a pending check leaves a tick below Checkint > 1). None of these can be *)
(* prevented by other threads, so stating them on the state is the same as *)
(* weak fairness of the steps, and spares TLC their ENABLED.               *)
(***************************************************************************)
Fairness ==
  /\ WF_vars(Ticks)
  /\ \A t \in 1..(NPaths + 1) : []<>(turn = t)
  /\ []<>(~dm.event)
  /\ Checkint > 1 => \A p \in Paths : []<>(pp[p].tick > 1)

Spec == Init /\ [][Next]_vars
FairSpec == Spec /\ Fairness

-----------------------------------------------------------------------------
(* Properties                                                              *)

\* The types of the state: retry_tick, failback_tick and the path counters
\* stay between zero and what the configuration sets them to.
TypeOK ==
  /\ mpp.no_path_retry \in {NoPathRetry, FAIL}
  /\ mpp.retry_tick \in 0..(IF NoPathRetry > 0 THEN NoPathRetry * Checkint + 1 ELSE 0)
  /\ mpp.features \in {"null", "queue", "fail"}
  /\ mpp.failback_tick \in 0..(IF PgFailback > 0 THEN PgFailback + 1 ELSE 0)
  /\ {mpp.disable_queueing, mpp.in_recovery, mpp.pg} \subseteq BOOLEAN
  /\ {mpp.bestpg, mpp.nextpg, dm.pg} \subseteq Paths
  /\ \A p \in Paths :
       /\ pp[p].state \in Good \cup {"DOWN", "SHAKY", "PENDING", "DELAYED"}
       /\ pp[p].chkrstate \in Good \cup {"DOWN", "SHAKY"}
       /\ pp[p].tick \in 0..MaxCheckint
       /\ pp[p].checkint \in Checkint..MaxCheckint
       /\ pp[p].path_failures \in 0..(SanThreshold + 1)
       /\ pp[p].forget_rate \in 0..SanForgetRate
       /\ pp[p].delayed_for \in 0..(SanRecoveryTime + 1)
  /\ dm.path \in [Paths -> {"A", "F"}]
  /\ turn \in 1..(NPaths + 1)

\* With no_path_retry a number and the map's table known, the map is in
\* recovery mode exactly while no path is usable, whoever found that out:
\* checker, dm event, reload or operator.
RecoveryIffNoPath ==
  LockFree /\ mpp.no_path_retry > 0 /\ mpp.pg => (mpp.in_recovery <=> ~Active(W))

\* Recovery mode follows the paths, and its counters stay in their ranges.
RecoverySound == TypeOK /\ RecoveryIffNoPath

\* A path that is not usable is checked at the shortest interval.
BadPathsCheckedSoon ==
  \A p \in Paths : pp[p].state \notin Good => pp[p].tick <= Checkint

\* Recovery mode ends, or the kernel stops queueing: the processes blocked on
\* the map do not wait for ever.
RetryEnds == mpp.in_recovery ~> (~mpp.in_recovery \/ ~dm.queue)

\* The operator's disablequeueing takes effect, also when mpp->features was
\* stale when it was given, unless it is revoked or no path of the map is
\* checked any more.
DisableTakesEffect ==
  mpp.disable_queueing ~>
    (~mpp.disable_queueing \/ ~dm.queue \/ \A p \in Paths : pp[p].checker_disabled)

\* When a usable path remains, queueing is enabled again.
QueueingRestored ==
  (mpp.no_path_retry > 0 /\ Active(W)) ~>
     (dm.queue \/ mpp.no_path_retry <= 0 \/ ~Active(W))

\* When the paths have settled and the best path group is usable, the
\* kernel's I/O returns to it for good. (As long as some path flaps, a
\* deferred failback is put off: it waits for all paths to settle.)
FailbackHappens ==
  /\ <>[][\A p \in Paths : pp'[p].state = pp[p].state]_vars
  /\ <>[](select_path_group(W) = 1 /\ dm.path[1] = "A")
  => <>[](dm.pg = 1)

\* A path delayed by san_path_err_threshold that is not found bad again is
\* reinstated in the end.
DelayEnds ==
  \A p \in Paths :
    (<>[](pp[p].state \in Good \cup {"DELAYED"})) => []<>(~pp[p].disable_reinstate)

\* A check never goes on holding back a path when no other path of the map
\* is usable, though the others were when the delay began.
LastPathNotDelayed ==
  [][\A p \in Paths :
       turn = p /\ turn' # p /\ pp[p].tick <= 1 /\ pp[p].disable_reinstate
       /\ pp'[p].state = "DELAYED" => Active(W)]_vars
=============================================================================
