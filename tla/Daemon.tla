------------------------------- MODULE Daemon -------------------------------
(***************************************************************************)
(* The life of the multipathd process (multipathd/main.c, uxlsnr.c): the   *)
(* daemon state running_state guarded by config_lock/config_cond, the      *)
(* mutex vecs->lock, and the threads that share them:                      *)
(*                                                                         *)
(*   "main"    child(): start-up, the reconfigure loop, the shutdown       *)
(*   "uxlsnr"  uxlsnrloop()/uxsock_listen(): signals and CLI clients       *)
(*   "check"   checkerloop()                                               *)
(*   "uevq"    uevqloop(): uev_trigger() on each queued uevent             *)
(*                                                                         *)
(* Every section of code under config_lock is one step, because nothing    *)
(* blocks inside it but pthread_cond_(timed)wait, which releases it.       *)
(* vecs->lock is held over several steps and is a variable.                *)
(*                                                                         *)
(* Of a map only what the reconfigure protocol reads is kept: whether it   *)
(* exists and whether it still waits for its creation uevent.              *)
(***************************************************************************)
EXTENDS Naturals

CONSTANTS
  Maps,         \* the map slots of vecs->mpvec
  UevTimeout,   \* conf->uev_wait_timeout, in checker ticks
  SeqMod,       \* the range of conf->sequence_nr, an unsigned int (2^32)
  MaxEnv,       \* bound on requests and device events of the environment
  LoadMayFail,  \* whether load_config() may fail
  Spurious      \* whether condition waits may wake up spuriously

ASSUME DaemonAssumption ==
  /\ UevTimeout \in Nat \ {0}
  /\ SeqMod \in Nat \ {0}
  /\ MaxEnv \in Nat
  /\ LoadMayFail \in BOOLEAN
  /\ Spurious \in BOOLEAN

Threads == {"main", "uxlsnr", "check", "uevq"}
States  == {"INIT", "START", "CONFIGURE", "IDLE", "RUNNING", "SHUTDOWN"}
NoOne   == "none"

VARIABLES
  running_state,    \* enum daemon_status
  pc,               \* the control point of each thread
  cond,             \* each thread's place in set_config_state()'s timed wait
  vecs_lock,        \* the holder of vecs->lock
  mapst,            \* "none", "ok" or "wait" (mpp->wait_for_udev # 0)
  uev_wait_tick,    \* mpp->uev_wait_tick of a waiting map, else 0
  delayed_reconfig, \* multipath_conf->delayed_reconfig
  sequence_nr,      \* multipath_conf->sequence_nr
  sigs,             \* signals pending, "HUP" and "TERM"
  canceled,         \* threads main has called pthread_cancel() on
  env               \* what is left of the environment's budget

vars == <<running_state, pc, cond, vecs_lock, mapst, uev_wait_tick,
          delayed_reconfig, sequence_nr, sigs, canceled, env>>
mapvars == <<mapst, uev_wait_tick>>
confvars == <<delayed_reconfig, sequence_nr>>

\* The control points of each thread: where another may run.
MainPoints  == {"start", "boot", "loop", "lock", "reconf", "reload", "post",
                "sd_lock", "sd_clean", "cancel", "join", "exited", "failed"}
UxPoints    == {"none", "init", "poll", "sig", "cli", "cmd_lock", "cmd", "dead"}
CheckPoints == {"none", "run", "lock1", "check", "lock2", "tick", "tick_set",
                "lock3", "gc", "idle", "dead"}
UevPoints   == {"none", "wait", "lock", "ev", "ev_set", "dead"}
Points      == MainPoints \cup UxPoints \cup CheckPoints \cup UevPoints

Goto(t, l) == pc' = [pc EXCEPT ![t] = l]

-----------------------------------------------------------------------------
(* The state machine behind config_lock.                                   *)

\* pthread_cond_broadcast(&config_cond)
Broadcast(c) == [t \in Threads |-> IF c[t] = "waiting" THEN "woken" ELSE c[t]]

\* post_config_state() and __post_config_state()
post_config_state(s) ==
  IF s # running_state /\ running_state # "SHUTDOWN"
  THEN running_state' = s /\ cond' = Broadcast(cond)
  ELSE UNCHANGED <<running_state, cond>>

\* set_config_state(), up to its return or its timed wait. ret[rc] is the
\* control point of the caller after return code rc.
set_config_state(t, s, ret) ==
  /\ cond[t] = "none"
  /\ \/ /\ running_state = s
        /\ Goto(t, ret["0"])
        /\ UNCHANGED <<running_state, cond>>
     \/ /\ running_state # s
        /\ running_state = "SHUTDOWN"
        /\ Goto(t, ret["EINVAL"])
        /\ UNCHANGED <<running_state, cond>>
     \/ /\ running_state # s
        /\ running_state = "IDLE"
        /\ running_state' = s
        /\ cond' = Broadcast(cond)
        /\ Goto(t, ret["0"])
     \/ /\ running_state \notin {s, "SHUTDOWN", "IDLE"}
        /\ cond' = [cond EXCEPT ![t] = "waiting"]
        /\ UNCHANGED <<running_state, pc>>

\* Mutant: the state is set after the wait without a look at it.
set_config_state_woken_blind(t, s, ret) ==
  \/ /\ cond[t] = "woken"
     /\ Goto(t, ret["0"])
     /\ running_state' = s
     /\ cond' = Broadcast([cond EXCEPT ![t] = "none"])
  \/ /\ cond[t] \in {"waiting", "woken"}
     /\ cond' = [cond EXCEPT ![t] = "none"]
     /\ Goto(t, ret["ETIMEDOUT"])
     /\ UNCHANGED running_state

\* set_config_state(), from the return of pthread_cond_timedwait() on: the
\* state is set whatever it is now, unless the daemon shuts down.
set_config_state_woken(t, s, ret) ==
  \/ /\ cond[t] = "woken"
     /\ Goto(t, ret["0"])
     /\ IF running_state = "SHUTDOWN"
        THEN /\ cond' = [cond EXCEPT ![t] = "none"]
             /\ UNCHANGED running_state
        ELSE /\ running_state' = s
             /\ cond' = Broadcast([cond EXCEPT ![t] = "none"])
  \/ /\ cond[t] \in {"waiting", "woken"}    \* ETIMEDOUT
     /\ cond' = [cond EXCEPT ![t] = "none"]
     /\ Goto(t, ret["ETIMEDOUT"])
     /\ UNCHANGED running_state

-----------------------------------------------------------------------------
(* vecs->lock. A canceled thread dies at the pthread_testcancel() that     *)
(* follows lock(), and its cleanup handler releases the lock.              *)

Lock(t, l) ==
  /\ vecs_lock = NoOne
  /\ IF t \in canceled
     THEN Goto(t, "dead") /\ UNCHANGED vecs_lock
     ELSE Goto(t, l) /\ vecs_lock' = t

\* Mutant: only a full set of waiting maps delays.
need_to_delay_reconfig_all == \A m \in Maps : mapst[m] = "wait"

need_to_delay_reconfig == \E m \in Maps : mapst[m] = "wait"

\* domap() of a created map: wait_for_udev = 1 and the timeout starts
Create(M) ==
  /\ mapst' = [m \in Maps |-> IF m \in M THEN "wait" ELSE mapst[m]]
  /\ uev_wait_tick' =
       [m \in Maps |-> IF m \in M THEN UevTimeout ELSE uev_wait_tick[m]]

\* add_map_without_path(): the map is known and waits for nothing
Register(m) ==
  /\ mapst' = [mapst EXCEPT ![m] = "ok"]
  /\ uev_wait_tick' = [uev_wait_tick EXCEPT ![m] = 0]

\* remove_map_and_stop_waiter()
Drop(m) ==
  /\ mapst' = [mapst EXCEPT ![m] = "none"]
  /\ uev_wait_tick' = [uev_wait_tick EXCEPT ![m] = 0]

-----------------------------------------------------------------------------
(* main: child()                                                           *)

\* post_config_state(DAEMON_START), load_config(), then, holding
\* config_lock, post DAEMON_IDLE and create the listener thread.
MainStart ==
  /\ pc["main"] = "start"
  /\ \/ /\ LoadMayFail
        /\ running_state' = "START"
        /\ Goto("main", "failed")
     \/ /\ running_state' = "IDLE"
        /\ pc' = [pc EXCEPT !["main"] = "boot", !["uxlsnr"] = "init"]
  /\ UNCHANGED <<cond, vecs_lock, mapvars, confvars, sigs, canceled, env>>

\* The listener has reported in: start the other threads, or give up.
MainBoot ==
  /\ pc["main"] = "boot"
  /\ running_state # "IDLE"
  /\ IF running_state = "CONFIGURE"
     THEN pc' = [pc EXCEPT !["main"] = "loop", !["check"] = "run", !["uevq"] = "wait"]
     ELSE Goto("main", "failed")
  /\ UNCHANGED <<running_state, cond, vecs_lock, mapvars, confvars, sigs,
                 canceled, env>>

MainLoop ==
  /\ pc["main"] = "loop"
  /\ \/ running_state = "CONFIGURE" /\ Goto("main", "lock")
     \/ running_state = "SHUTDOWN" /\ Goto("main", "sd_lock")
  /\ UNCHANGED <<running_state, cond, vecs_lock, mapvars, confvars, sigs,
                 canceled, env>>

MainLock ==
  /\ pc["main"] = "lock"
  /\ Lock("main", "reconf")
  /\ UNCHANGED <<running_state, cond, mapvars, confvars, sigs, canceled, env>>

\* reconfigure(): on a readable configuration all maps and paths are dropped,
\* the new configuration replaces the old, and configure() builds the maps
\* of the moment, some of them created in the kernel by this call.
reconfigure ==
  \/ LoadMayFail /\ UNCHANGED <<mapvars, confvars>>
  \/ /\ sequence_nr' = (sequence_nr + 1) % SeqMod
     /\ delayed_reconfig' = 0
     /\ \E exist \in SUBSET Maps : \E new \in SUBSET exist :
          /\ mapst' = [m \in Maps |-> IF m \in new THEN "wait"
                                      ELSE IF m \in exist THEN "ok" ELSE "none"]
          /\ uev_wait_tick' = [m \in Maps |-> IF m \in new THEN UevTimeout ELSE 0]

\* The body of the main loop under vecs->lock: a map in creation delays the
\* reconfigure ...
MainDecide ==
  /\ pc["main"] = "reconf"
  /\ IF need_to_delay_reconfig
     THEN delayed_reconfig' = 1 /\ vecs_lock' = NoOne /\ Goto("main", "post")
     ELSE Goto("main", "reload") /\ UNCHANGED <<delayed_reconfig, vecs_lock>>
  /\ UNCHANGED <<running_state, cond, sequence_nr, mapvars, sigs, canceled, env>>

\* ... which otherwise is done before the lock is released.
MainReconfigure ==
  /\ pc["main"] = "reload"
  /\ reconfigure
  /\ vecs_lock' = NoOne
  /\ Goto("main", "post")
  /\ UNCHANGED <<running_state, cond, sigs, canceled, env>>

\* Mutant: a delayed reconfigure leaves DAEMON_CONFIGURE in force.
MainPost_undelayed ==
  /\ pc["main"] = "post"
  /\ IF delayed_reconfig = 0 THEN post_config_state("IDLE")
                             ELSE UNCHANGED <<running_state, cond>>
  /\ Goto("main", "loop")
  /\ UNCHANGED <<vecs_lock, mapvars, confvars, sigs, canceled, env>>

MainPost ==
  /\ pc["main"] = "post"
  /\ post_config_state("IDLE")
  /\ Goto("main", "loop")
  /\ UNCHANGED <<vecs_lock, mapvars, confvars, sigs, canceled, env>>

\* Shutdown: stop queueing and drop the maps, cancel the threads, join them.
MainShutdownLock ==
  /\ pc["main"] = "sd_lock"
  /\ Lock("main", "sd_clean")
  /\ UNCHANGED <<running_state, cond, mapvars, confvars, sigs, canceled, env>>

MainShutdownClean ==
  /\ pc["main"] = "sd_clean"
  /\ mapst' = [m \in Maps |-> "none"]
  /\ uev_wait_tick' = [m \in Maps |-> 0]
  /\ vecs_lock' = NoOne
  /\ Goto("main", "cancel")
  /\ UNCHANGED <<running_state, cond, confvars, sigs, canceled, env>>

\* Mutant: the uevent dispatcher is forgotten.
MainCancel_uevq ==
  /\ pc["main"] = "cancel"
  /\ canceled' = {"check", "uxlsnr"}
  /\ Goto("main", "join")
  /\ UNCHANGED <<running_state, cond, vecs_lock, mapvars, confvars, sigs, env>>

MainCancel ==
  /\ pc["main"] = "cancel"
  /\ canceled' = {"check", "uxlsnr", "uevq"}
  /\ Goto("main", "join")
  /\ UNCHANGED <<running_state, cond, vecs_lock, mapvars, confvars, sigs, env>>

MainJoin ==
  /\ pc["main"] = "join"
  /\ \A t \in {"check", "uxlsnr", "uevq"} : pc[t] = "dead"
  /\ vecs_lock = NoOne                 \* lock(), free_pathvec(), unlock()
  /\ Goto("main", "exited")
  /\ UNCHANGED <<running_state, cond, vecs_lock, mapvars, confvars, sigs,
                 canceled, env>>

Main == \/ MainStart \/ MainBoot \/ MainLoop \/ MainLock \/ MainDecide
        \/ MainReconfigure \/ MainPost \/ MainShutdownLock \/ MainShutdownClean \/ MainCancel
        \/ MainJoin

-----------------------------------------------------------------------------
(* uxlsnr: uxlsnrloop(), uxsock_listen(), handle_signals()                 *)

\* The socket and the command table, or exit_daemon() when one fails.
UxInit ==
  /\ pc["uxlsnr"] = "init"
  /\ \/ post_config_state("CONFIGURE") /\ Goto("uxlsnr", "poll")
     \/ post_config_state("SHUTDOWN") /\ Goto("uxlsnr", "dead")
  /\ UNCHANGED <<vecs_lock, mapvars, confvars, sigs, canceled, env>>

\* ppoll() lets the pending signals in; SIGTERM posts DAEMON_SHUTDOWN before
\* SIGHUP asks for DAEMON_CONFIGURE, and both flags are then cleared.
UxSignal ==
  /\ pc["uxlsnr"] = "poll"
  /\ sigs # {}
  /\ IF "TERM" \in sigs THEN post_config_state("SHUTDOWN")
                        ELSE UNCHANGED <<running_state, cond>>
  /\ Goto("uxlsnr", IF "HUP" \in sigs THEN "sig" ELSE "poll")
  /\ sigs' = {}
  /\ UNCHANGED <<vecs_lock, mapvars, confvars, canceled, env>>

UxSigRet == [rc \in {"0", "EINVAL", "ETIMEDOUT"} |-> "poll"]

UxSigReconfigure ==
  /\ pc["uxlsnr"] = "sig"
  /\ \/ set_config_state("uxlsnr", "CONFIGURE", UxSigRet)
     \/ set_config_state_woken("uxlsnr", "CONFIGURE", UxSigRet)
  /\ UNCHANGED <<vecs_lock, mapvars, confvars, sigs, canceled, env>>

\* A client's "reconfigure", "shutdown" or a command that needs vecs->lock.
\* Clients are not served while the state is DAEMON_CONFIGURE
\* (wait_for_state_change_if()).
UxClient ==
  /\ pc["uxlsnr"] = "poll"
  /\ env > 0
  /\ running_state # "CONFIGURE"
  /\ env' = env - 1
  /\ \/ /\ \E l \in {"cli", "cmd_lock"} : Goto("uxlsnr", l)
        /\ UNCHANGED <<running_state, cond>>
     \/ post_config_state("SHUTDOWN") /\ Goto("uxlsnr", "poll")
  /\ UNCHANGED <<vecs_lock, mapvars, confvars, sigs, canceled>>

\* cli_reconfigure(), an unlocked handler
cli_reconfigure ==
  /\ pc["uxlsnr"] = "cli"
  /\ \/ set_config_state("uxlsnr", "CONFIGURE", UxSigRet)
     \/ set_config_state_woken("uxlsnr", "CONFIGURE", UxSigRet)
  /\ UNCHANGED <<vecs_lock, mapvars, confvars, sigs, canceled, env>>

\* parse_cmd() of a locked handler: timedlock() gives up after uxsock_timeout.
parse_cmd ==
  /\ pc["uxlsnr"] = "cmd_lock"
  /\ \/ Lock("uxlsnr", "cmd")
     \/ Goto("uxlsnr", "poll") /\ UNCHANGED vecs_lock
  /\ UNCHANGED <<running_state, cond, mapvars, confvars, sigs, canceled, env>>

\* The handler: cli_add_path() may create a map, cli_add_map() register one,
\* cli_del_map() and cli_del_path() drop one, the others do neither.
UxCommand ==
  /\ pc["uxlsnr"] = "cmd"
  /\ \/ \E m \in Maps : mapst[m] = "none" /\ Create({m})
     \/ \E m \in Maps : mapst[m] = "none" /\ Register(m)
     \/ \E m \in Maps : mapst[m] # "none" /\ Drop(m)
     \/ UNCHANGED mapvars
  /\ vecs_lock' = NoOne
  /\ Goto("uxlsnr", "poll")
  /\ UNCHANGED <<running_state, cond, confvars, sigs, canceled, env>>

Uxlsnr == \/ UxInit \/ UxSignal \/ UxSigReconfigure \/ UxClient
          \/ cli_reconfigure \/ parse_cmd \/ UxCommand

-----------------------------------------------------------------------------
(* check: checkerloop()                                                    *)

CheckRunRet == [rc \in {"0", "EINVAL", "ETIMEDOUT"} |->
                  CASE rc = "0" -> "lock1" [] rc = "EINVAL" -> "dead"
                    [] rc = "ETIMEDOUT" -> "run"]

CheckRun ==
  /\ pc["check"] = "run"
  /\ \/ set_config_state("check", "RUNNING", CheckRunRet)
     \/ set_config_state_woken("check", "RUNNING", CheckRunRet)
  /\ UNCHANGED <<vecs_lock, mapvars, confvars, sigs, canceled, env>>

CheckLock ==
  /\ \/ pc["check"] = "lock1" /\ Lock("check", "check")
     \/ pc["check"] = "lock2" /\ Lock("check", "tick")
     \/ pc["check"] = "lock3" /\ Lock("check", "gc")
  /\ UNCHANGED <<running_state, cond, mapvars, confvars, sigs, canceled, env>>

\* check_path() on every path; it may re-add a missing path and so create
\* a map.
CheckPaths ==
  /\ pc["check"] = "check"
  /\ \/ UNCHANGED <<mapvars, env>>
     \/ /\ env > 0
        /\ env' = env - 1
        /\ \E m \in {n \in Maps : mapst[n] = "none"} : Create({m})
  /\ vecs_lock' = NoOne
  /\ Goto("check", "lock2")
  /\ UNCHANGED <<running_state, cond, confvars, sigs, canceled>>

\* Mutant: the wait ends below zero, --mpp->uev_wait_tick < 0.
missing_uev_wait_tick_late ==
  LET due == {m \in Maps : mapst[m] = "wait" /\ uev_wait_tick[m] <= 0}
  IN  /\ pc["check"] = "tick"
      /\ \E gone \in SUBSET due :
           mapst' = [m \in Maps |-> IF m \in gone THEN "none"
                                    ELSE IF m \in due THEN "ok" ELSE mapst[m]]
      /\ uev_wait_tick' = [m \in Maps |->
           IF mapst[m] # "wait" \/ m \in due THEN 0 ELSE uev_wait_tick[m] - 1]
      /\ IF due # {} /\ delayed_reconfig = 1 /\ (\A m \in Maps : mapst'[m] # "wait")
         THEN Goto("check", "tick_set") /\ UNCHANGED vecs_lock
         ELSE Goto("check", "lock3") /\ vecs_lock' = NoOne
      /\ UNCHANGED <<running_state, cond, confvars, sigs, canceled, env>>

\* missing_uev_wait_tick(): maps whose creation uevent is overdue stop
\* waiting (update_map() may find them gone), and the last one of them asks
\* for the delayed reconfigure while vecs->lock is held.
missing_uev_wait_tick ==
  LET due == {m \in Maps : mapst[m] = "wait" /\ uev_wait_tick[m] <= 1}
  IN  /\ pc["check"] = "tick"
      /\ \E gone \in SUBSET due :
           mapst' = [m \in Maps |-> IF m \in gone THEN "none"
                                    ELSE IF m \in due THEN "ok" ELSE mapst[m]]
      /\ uev_wait_tick' = [m \in Maps |->
           IF mapst[m] # "wait" \/ m \in due THEN 0 ELSE uev_wait_tick[m] - 1]
      /\ IF due # {} /\ delayed_reconfig = 1 /\ (\A m \in Maps : mapst'[m] # "wait")
         THEN Goto("check", "tick_set") /\ UNCHANGED vecs_lock
         ELSE Goto("check", "lock3") /\ vecs_lock' = NoOne
      /\ UNCHANGED <<running_state, cond, confvars, sigs, canceled, env>>

CheckTickRet == [rc \in {"0", "EINVAL", "ETIMEDOUT"} |-> "lock3"]

CheckTickReconfigure ==
  /\ pc["check"] = "tick_set"
  /\ \/ set_config_state("check", "CONFIGURE", CheckTickRet)
     \/ set_config_state_woken("check", "CONFIGURE", CheckTickRet)
  /\ vecs_lock' = IF pc'["check"] = "lock3" THEN NoOne ELSE vecs_lock
  /\ UNCHANGED <<mapvars, confvars, sigs, canceled, env>>

\* mpvec_garbage_collector(), every MAPGCINT + 1 rounds: maps that are gone
\* from the kernel are dropped.
CheckGc ==
  /\ pc["check"] = "gc"
  /\ \/ UNCHANGED mapvars
     \/ \E m \in Maps : mapst[m] # "none" /\ Drop(m)
  /\ vecs_lock' = NoOne
  /\ Goto("check", "idle")
  /\ UNCHANGED <<running_state, cond, confvars, sigs, canceled, env>>

\* post_config_state(DAEMON_IDLE), also when this round collects no garbage
CheckIdle ==
  /\ pc["check"] \in {"lock3", "idle"}
  /\ post_config_state("IDLE")
  /\ Goto("check", "run")
  /\ UNCHANGED <<vecs_lock, mapvars, confvars, sigs, canceled, env>>

Check == \/ CheckRun \/ CheckLock \/ CheckPaths \/ missing_uev_wait_tick
         \/ CheckTickReconfigure \/ CheckGc \/ CheckIdle

-----------------------------------------------------------------------------
(* uevq: uev_trigger()                                                     *)

\* An event is taken up outside DAEMON_CONFIGURE and dropped in
\* DAEMON_SHUTDOWN.
uev_trigger ==
  /\ pc["uevq"] = "wait"
  /\ running_state \in {"IDLE", "RUNNING"}
  /\ Goto("uevq", "lock")
  /\ UNCHANGED <<running_state, cond, vecs_lock, mapvars, confvars, sigs,
                 canceled, env>>

UevLock ==
  /\ pc["uevq"] = "lock"
  /\ Lock("uevq", "ev")
  /\ UNCHANGED <<running_state, cond, mapvars, confvars, sigs, canceled, env>>

\* A path event may create a map; a path or map event may remove one.
UevPath ==
  /\ pc["uevq"] = "ev"
  /\ \/ /\ env > 0
        /\ env' = env - 1
        /\ \E m \in Maps : mapst[m] = "none" /\ Create({m})
     \/ \E m \in Maps : mapst[m] # "none" /\ Drop(m) /\ UNCHANGED env
     \/ UNCHANGED <<mapvars, env>>
  /\ vecs_lock' = NoOne
  /\ Goto("uevq", "wait")
  /\ UNCHANGED <<running_state, cond, confvars, sigs, canceled>>

\* ev_add_map() of a map multipathd does not know: it is registered, and
\* waits for nothing.
ev_add_map_new(m) ==
  /\ pc["uevq"] = "ev"
  /\ mapst[m] = "none"
  /\ Register(m)
  /\ vecs_lock' = NoOne
  /\ Goto("uevq", "wait")
  /\ UNCHANGED <<running_state, cond, confvars, sigs, canceled, env>>

\* ev_add_map() of a registered map: the creation uevent has arrived, and
\* the last map to wait asks for the delayed reconfigure, vecs->lock held.
ev_add_map(m) ==
  /\ pc["uevq"] = "ev"
  /\ mapst[m] = "wait"
  /\ Register(m)
  /\ IF delayed_reconfig = 1 /\ (\A n \in Maps : mapst'[n] # "wait")
     THEN Goto("uevq", "ev_set") /\ UNCHANGED vecs_lock
     ELSE Goto("uevq", "wait") /\ vecs_lock' = NoOne
  /\ UNCHANGED <<running_state, cond, confvars, sigs, canceled, env>>

UevSetRet == [rc \in {"0", "EINVAL", "ETIMEDOUT"} |-> "wait"]

UevReconfigure ==
  /\ pc["uevq"] = "ev_set"
  /\ \/ set_config_state("uevq", "CONFIGURE", UevSetRet)
     \/ set_config_state_woken("uevq", "CONFIGURE", UevSetRet)
  /\ vecs_lock' = IF pc'["uevq"] = "wait" THEN NoOne ELSE vecs_lock
  /\ UNCHANGED <<mapvars, confvars, sigs, canceled, env>>

Uevq == uev_trigger \/ UevLock \/ UevPath \/ (\E m \in Maps : ev_add_map(m) \/ ev_add_map_new(m))
        \/ UevReconfigure

-----------------------------------------------------------------------------
(* Cancellation and the environment                                        *)

\* A canceled thread dies at its next cancellation point: ppoll(), sleep(),
\* a condition wait, or the I/O and the logging inside a locked section.
\* Cleanup handlers release what it holds.
CancellationPoint(t) ==
  \/ cond[t] # "none"
  \/ t = "uxlsnr" /\ pc[t] \in {"poll", "cmd"}
  \/ t = "check" /\ pc[t] \in {"run", "check", "tick", "gc"}
  \/ t = "uevq" /\ pc[t] \in {"wait", "ev"}

\* Mutant: no cleanup handler unlocks vecs->lock.
Die_leak(t) ==
  /\ t \in canceled
  /\ CancellationPoint(t)
  /\ Goto(t, "dead")
  /\ cond' = [cond EXCEPT ![t] = "none"]
  /\ UNCHANGED <<running_state, vecs_lock, mapvars, confvars, sigs, canceled, env>>

Die(t) ==
  /\ t \in canceled
  /\ CancellationPoint(t)
  /\ Goto(t, "dead")
  /\ cond' = [cond EXCEPT ![t] = "none"]
  /\ vecs_lock' = IF vecs_lock = t THEN NoOne ELSE vecs_lock
  /\ UNCHANGED <<running_state, mapvars, confvars, sigs, canceled, env>>

Signal(s) ==
  /\ env > 0
  /\ s \notin sigs
  /\ pc["main"] \notin {"start", "exited", "failed"}
  /\ sigs' = sigs \cup {s}
  /\ env' = env - 1
  /\ UNCHANGED <<running_state, pc, cond, vecs_lock, mapvars, confvars, canceled>>

\* POSIX allows pthread_cond_timedwait() to return 0 with no broadcast.
SpuriousWakeup(t) ==
  /\ Spurious
  /\ cond[t] = "waiting"
  /\ cond' = [cond EXCEPT ![t] = "woken"]
  /\ UNCHANGED <<running_state, pc, vecs_lock, mapvars, confvars, sigs, canceled, env>>

\* exit() ends every thread of the process
Gone ==
  /\ pc["main"] \in {"exited", "failed"}
  /\ UNCHANGED vars

-----------------------------------------------------------------------------
Init ==
  /\ running_state = "INIT"
  /\ pc = [t \in Threads |-> IF t = "main" THEN "start" ELSE "none"]
  /\ cond = [t \in Threads |-> "none"]
  /\ vecs_lock = NoOne
  /\ mapst = [m \in Maps |-> "none"]
  /\ uev_wait_tick = [m \in Maps |-> 0]
  /\ delayed_reconfig = 0
  /\ sequence_nr = 0
  /\ sigs = {}
  /\ canceled = {}
  /\ env = MaxEnv

Alive == pc["main"] \notin {"exited", "failed"}

Next ==
  \/ /\ Alive
     /\ \/ Main \/ Uxlsnr \/ Check \/ Uevq
        \/ \E t \in canceled : Die(t)
        \/ \E s \in {"HUP", "TERM"} : Signal(s)
        \/ \E t \in Threads : SpuriousWakeup(t)
  \/ Gone

(***************************************************************************)
(* Every thread that can take a step takes one. vecs->lock is passed on    *)
(* strongly fairly: checkerloop(), its only perpetual user, sleeps a       *)
(* second per round without holding it.                                    *)
(***************************************************************************)
Fairness ==
  /\ WF_vars(Alive /\ Main)
  /\ WF_vars(Alive /\ (UxInit \/ UxSignal \/ UxSigReconfigure
                       \/ cli_reconfigure \/ parse_cmd \/ UxCommand))
  /\ WF_vars(Alive /\ Check)
  /\ WF_vars(Alive /\ Uevq)
  /\ \A t \in Threads : WF_vars(Alive /\ t \in canceled /\ Die(t))
  /\ SF_vars(Alive /\ (MainLock \/ MainShutdownLock \/ MainJoin))
  /\ SF_vars(Alive /\ CheckLock)
  /\ SF_vars(Alive /\ UevLock)

Spec == Init /\ [][Next]_vars
FairSpec == Spec /\ Fairness

-----------------------------------------------------------------------------
(* Properties                                                              *)

\* The types of the daemon's state. A map that waits for its creation uevent
\* has time left, and no more than a new one: whichever thread created it, and
\* however many maps the checker's tick has to release at once, the tick that
\* uses up uev_wait_tick also ends the wait (missing_uev_wait_tick()).
TypeOK ==
  /\ running_state \in States
  /\ pc \in [Threads -> Points]
  /\ pc["main"] \in MainPoints
  /\ pc["uxlsnr"] \in UxPoints
  /\ pc["check"] \in CheckPoints
  /\ pc["uevq"] \in UevPoints
  /\ cond \in [Threads -> {"none", "waiting", "woken"}]
  /\ vecs_lock \in Threads \cup {NoOne}
  /\ mapst \in [Maps -> {"none", "ok", "wait"}]
  /\ uev_wait_tick \in [Maps -> 0..UevTimeout]
  /\ \A m \in Maps : mapst[m] = "wait" => uev_wait_tick[m] > 0
  /\ delayed_reconfig \in {0, 1}
  /\ sequence_nr \in 0..(SeqMod - 1)
  /\ sigs \in SUBSET {"HUP", "TERM"}
  /\ canceled \in SUBSET (Threads \ {"main"})
  /\ env \in 0..MaxEnv

\* The control points at which a thread is inside a section that
\* vecs->lock protects.
InSection(t) ==
  \/ t = "main" /\ pc[t] \in {"reconf", "reload", "sd_clean"}
  \/ t = "uxlsnr" /\ pc[t] = "cmd"
  \/ t = "check" /\ pc[t] \in {"check", "tick", "tick_set", "gc"}
  \/ t = "uevq" /\ pc[t] \in {"ev", "ev_set"}

\* vecs->lock is held by exactly the thread that is inside a protected
\* section: not leaked by a thread that is canceled in a condition wait,
\* never held past the section, never missing inside one.
VecsExclusive == \A t \in Threads : InSection(t) <=> vecs_lock = t

\* Once reconfigure() is decided on, no map starts to wait before it runs.
ReloadQuiet == pc["main"] = "reload" => \A m \in Maps : mapst[m] # "wait"

\* A thread does nothing before child() has created it, and none is
\* canceled before all are.
FreshStart ==
  /\ pc["main"] = "start" => running_state = "INIT" /\ pc["uxlsnr"] = "none"
  /\ pc["main"] \in {"start", "boot"} =>
       pc["check"] = "none" /\ pc["uevq"] = "none" /\ canceled = {}

\* The inductive invariant of the proofs.
IInv == TypeOK /\ VecsExclusive /\ ReloadQuiet /\ FreshStart

\* DAEMON_SHUTDOWN is final, whoever was waiting to set another state.
ShutdownSticky == [][running_state = "SHUTDOWN" => running_state' = "SHUTDOWN"]_vars

\* The configuration is replaced, and every map dropped, only when no map
\* waits for its creation uevent: what need_to_delay_reconfig() tested is
\* still so when reconfigure() runs.
QuietReconfigure ==
  [][sequence_nr' # sequence_nr => \A m \in Maps : mapst[m] # "wait"]_vars

\* Uevents and clients are held up in DAEMON_CONFIGURE, so it ends.
ConfigureEnds == running_state = "CONFIGURE" ~> running_state # "CONFIGURE"

\* A shutdown runs to its end: every thread dies and is joined.
ShutdownCompletes == running_state = "SHUTDOWN" ~> ~Alive

\* A reconfigure that was put off because a map was in creation, and that
\* missing_uev_wait_tick() announces ("reconfigure (delayed)"), is then done,
\* unless the daemon shuts down.
DelayedReconfigureHappens ==
  pc["check"] = "tick_set" ~> (delayed_reconfig = 0 \/ running_state = "SHUTDOWN" \/ ~Alive)
=============================================================================
