---------------------------- MODULE DaemonProofs ----------------------------
(***************************************************************************)
(* Proofs about Daemon, for any set of maps, timeout and budget.           *)
(***************************************************************************)
EXTENDS Daemon, TLAPS

USE DEF NoOne, Threads, Goto, mapvars, confvars

\* The initial state, before child() has started a thread, satisfies the
\* inductive invariant.
LEMMA InitIInv == Init => IInv
<1> SUFFICES ASSUME Init PROVE IInv
  OBVIOUS
<1> USE DEF Init
<1>1. TypeOK
  BY DaemonAssumption DEF TypeOK, States, Points, MainPoints, UxPoints, CheckPoints, UevPoints
<1>2. VecsExclusive
  BY DEF VecsExclusive, InSection
<1>3. ReloadQuiet /\ FreshStart
  BY DEF ReloadQuiet, FreshStart
<1> QED BY <1>1, <1>2, <1>3 DEF IInv

\* No step of child() leaves the types.
LEMMA MainTypes == ASSUME TypeOK, Main PROVE TypeOK'
<1> USE DaemonAssumption DEF TypeOK, Points, MainPoints, UxPoints, CheckPoints, UevPoints, States
<1>1. CASE MainStart BY <1>1 DEF MainStart
<1>2. CASE MainBoot BY <1>2 DEF MainBoot
<1>3. CASE MainLoop BY <1>3 DEF MainLoop
<1>4. CASE MainLock BY <1>4 DEF MainLock, Lock
<1>5. CASE MainDecide BY <1>5 DEF MainDecide
<1>6. CASE MainReconfigure BY <1>6 DEF MainReconfigure, reconfigure
<1>7. CASE MainPost BY <1>7 DEF MainPost, post_config_state, Broadcast
<1>8. CASE MainShutdownLock BY <1>8 DEF MainShutdownLock, Lock
<1>9. CASE MainShutdownClean BY <1>9 DEF MainShutdownClean
<1>10. CASE MainCancel BY <1>10 DEF MainCancel
<1>11. CASE MainJoin BY <1>11 DEF MainJoin
<1> QED BY <1>1, <1>2, <1>3, <1>4, <1>5, <1>6, <1>7, <1>8, <1>9, <1>10, <1>11 DEF Main

\* The types of what set_config_state() changes, whoever calls it.
LEMMA SetTypes ==
  ASSUME TypeOK, NEW t \in Threads, NEW s \in States, NEW ret,
         set_config_state(t, s, ret) \/ set_config_state_woken(t, s, ret)
  PROVE  /\ running_state' \in States
         /\ cond' \in [Threads -> {"none", "waiting", "woken"}]
         /\ \/ pc' = pc
            \/ \E rc \in {"0", "EINVAL", "ETIMEDOUT"} : Goto(t, ret[rc])
BY DEF TypeOK, States, set_config_state, set_config_state_woken, Broadcast

\* No step of the CLI and signal thread leaves the types.
LEMMA UxTypes == ASSUME TypeOK, Uxlsnr PROVE TypeOK'
<1> USE DaemonAssumption DEF TypeOK, Points, MainPoints, UxPoints, CheckPoints, UevPoints, States
<1>1. CASE UxInit BY <1>1 DEF UxInit, post_config_state, Broadcast
<1>2. CASE UxSignal BY <1>2 DEF UxSignal, post_config_state, Broadcast
<1>3. CASE UxSigReconfigure BY <1>3, SetTypes DEF UxSigReconfigure, UxSigRet
<1>4. CASE UxClient BY <1>4 DEF UxClient, post_config_state, Broadcast
<1>5. CASE cli_reconfigure BY <1>5, SetTypes DEF cli_reconfigure, UxSigRet
<1>6. CASE parse_cmd BY <1>6 DEF parse_cmd, Lock
<1>7. CASE UxCommand BY <1>7 DEF UxCommand, Create, Register, Drop
<1> QED BY <1>1, <1>2, <1>3, <1>4, <1>5, <1>6, <1>7 DEF Uxlsnr

\* No step of checkerloop() leaves the types.
LEMMA CheckTypes == ASSUME TypeOK, Check PROVE TypeOK'
<1> USE DaemonAssumption DEF TypeOK, Points, MainPoints, UxPoints, CheckPoints, UevPoints, States
<1>1. CASE CheckRun BY <1>1, SetTypes DEF CheckRun, CheckRunRet
<1>2. CASE CheckLock BY <1>2 DEF CheckLock, Lock
<1>3. CASE CheckPaths BY <1>3 DEF CheckPaths, Create
<1>4. CASE missing_uev_wait_tick BY <1>4 DEF missing_uev_wait_tick
<1>5. CASE CheckTickReconfigure BY <1>5, SetTypes DEF CheckTickReconfigure, CheckTickRet
<1>6. CASE CheckGc BY <1>6 DEF CheckGc, Drop
<1>7. CASE CheckIdle BY <1>7 DEF CheckIdle, post_config_state, Broadcast
<1> QED BY <1>1, <1>2, <1>3, <1>4, <1>5, <1>6, <1>7 DEF Check

\* No step of the uevent dispatcher leaves the types.
LEMMA UevTypes == ASSUME TypeOK, Uevq PROVE TypeOK'
<1> USE DaemonAssumption DEF TypeOK, Points, MainPoints, UxPoints, CheckPoints, UevPoints, States
<1>1. CASE uev_trigger BY <1>1 DEF uev_trigger
<1>2. CASE UevLock BY <1>2 DEF UevLock, Lock
<1>3. CASE UevPath BY <1>3 DEF UevPath, Create, Drop
<1>4. ASSUME NEW m \in Maps, ev_add_map_new(m) PROVE TypeOK' BY <1>4 DEF ev_add_map_new, Register
<1>5. ASSUME NEW m \in Maps, ev_add_map(m) PROVE TypeOK' BY <1>5 DEF ev_add_map, Register
<1>6. CASE UevReconfigure BY <1>6, SetTypes DEF UevReconfigure, UevSetRet
<1> QED BY <1>1, <1>2, <1>3, <1>4, <1>5, <1>6 DEF Uevq

\* Neither a cancelled thread's death nor the environment leaves the types.
LEMMA EnvTypes ==
  ASSUME TypeOK,
         \/ \E t \in canceled : Die(t)
         \/ \E s \in {"HUP", "TERM"} : Signal(s)
         \/ \E t \in Threads : SpuriousWakeup(t)
         \/ UNCHANGED vars
  PROVE  TypeOK'
<1> USE DaemonAssumption DEF TypeOK, Points, MainPoints, UxPoints, CheckPoints, UevPoints, States
<1>1. ASSUME NEW t \in canceled, Die(t) PROVE TypeOK' BY <1>1 DEF Die
<1>2. ASSUME NEW s \in {"HUP", "TERM"}, Signal(s) PROVE TypeOK' BY <1>2 DEF Signal
<1>3. ASSUME NEW t \in Threads, SpuriousWakeup(t) PROVE TypeOK' BY <1>3 DEF SpuriousWakeup
<1>4. CASE UNCHANGED vars BY <1>4 DEF vars
<1> QED BY <1>1, <1>2, <1>3, <1>4

\* Type correctness for any set of maps and time-out: a map that waits for its
\* creation uevent has time left, and no thread leaves its own code.
THEOREM Types == Spec => []TypeOK
<1>1. Init => TypeOK BY InitIInv DEF IInv
<1>2. TypeOK /\ [Next]_vars => TypeOK'
  BY MainTypes, UxTypes, CheckTypes, UevTypes, EnvTypes DEF Next, Gone
<1> QED BY <1>1, <1>2, PTL DEF Spec

-----------------------------------------------------------------------------
(* vecs->lock                                                              *)

\* Threads do nothing before child() creates them, and main creates them
\* only after the listener has reported in.
LEMMA FreshStep == ASSUME TypeOK, FreshStart, [Next]_vars PROVE FreshStart'
<1> USE DEF TypeOK, FreshStart
<1>1. CASE MainStart BY <1>1 DEF MainStart
<1>2. CASE MainBoot BY <1>2 DEF MainBoot
<1>3. CASE MainLoop BY <1>3 DEF MainLoop
<1>4. CASE MainLock BY <1>4 DEF MainLock, Lock
<1>5. CASE MainDecide BY <1>5 DEF MainDecide
<1>6. CASE MainReconfigure BY <1>6 DEF MainReconfigure
<1>7. CASE MainPost BY <1>7 DEF MainPost
<1>8. CASE MainShutdownLock BY <1>8 DEF MainShutdownLock, Lock
<1>9. CASE MainShutdownClean BY <1>9 DEF MainShutdownClean
<1>10. CASE MainCancel BY <1>10 DEF MainCancel
<1>11. CASE MainJoin BY <1>11 DEF MainJoin
<1>12. CASE Uxlsnr
  <2>1. pc["main"] # "start"
    BY <1>12 DEF Uxlsnr, UxInit, UxSignal, UxSigReconfigure, UxClient, cli_reconfigure,
       parse_cmd, UxCommand
  <2>2. pc'["main"] = pc["main"] /\ pc'["check"] = pc["check"] /\ pc'["uevq"] = pc["uevq"]
    BY <1>12 DEF Uxlsnr, UxInit, UxSignal, UxSigReconfigure, UxClient, cli_reconfigure,
       parse_cmd, UxCommand, Lock, set_config_state, set_config_state_woken
  <2>3. canceled' = canceled
    BY <1>12 DEF Uxlsnr, UxInit, UxSignal, UxSigReconfigure, UxClient, cli_reconfigure,
       parse_cmd, UxCommand
  <2> QED BY <2>1, <2>2, <2>3
<1>13. CASE Check
  <2>1. pc["check"] # "none"
    BY <1>13 DEF Check, CheckRun, CheckLock, CheckPaths, missing_uev_wait_tick,
       CheckTickReconfigure, CheckGc, CheckIdle
  <2>2. pc'["main"] = pc["main"]
    BY <1>13 DEF Check, CheckRun, CheckLock, CheckPaths, missing_uev_wait_tick,
       CheckTickReconfigure, CheckGc, CheckIdle, Lock, set_config_state, set_config_state_woken
  <2> QED BY <2>1, <2>2
<1>14. CASE Uevq
  <2>1. pc["uevq"] # "none"
    BY <1>14 DEF Uevq, uev_trigger, UevLock, UevPath, ev_add_map, ev_add_map_new, UevReconfigure
  <2>2. pc'["main"] = pc["main"]
    BY <1>14 DEF Uevq, uev_trigger, UevLock, UevPath, ev_add_map, ev_add_map_new,
       UevReconfigure, Lock, set_config_state, set_config_state_woken
  <2> QED BY <2>1, <2>2
<1>15. ASSUME NEW t \in canceled, Die(t) PROVE FreshStart' BY <1>15 DEF Die
<1>16. ASSUME NEW s \in {"HUP", "TERM"}, Signal(s) PROVE FreshStart' BY <1>16 DEF Signal
<1>17. ASSUME NEW t \in Threads, SpuriousWakeup(t) PROVE FreshStart' BY <1>17 DEF SpuriousWakeup
<1>18. CASE UNCHANGED vars BY <1>18 DEF vars
<1> QED BY <1>1, <1>2, <1>3, <1>4, <1>5, <1>6, <1>7, <1>8, <1>9, <1>10, <1>11, <1>12,
           <1>13, <1>14, <1>15, <1>16, <1>17, <1>18 DEF Next, Main, Gone

\* child() takes and releases vecs->lock at the borders of its sections.
LEMMA MainSections == ASSUME TypeOK, FreshStart, VecsExclusive, Main PROVE VecsExclusive'
<1> USE DEF TypeOK, VecsExclusive, InSection
<1>1. CASE MainStart BY <1>1 DEF MainStart, FreshStart
<1>2. CASE MainBoot BY <1>2 DEF MainBoot, FreshStart
<1>3. CASE MainLoop BY <1>3 DEF MainLoop
<1>4. CASE MainLock BY <1>4 DEF MainLock, Lock
<1>5. CASE MainDecide BY <1>5 DEF MainDecide
<1>6. CASE MainReconfigure BY <1>6 DEF MainReconfigure
<1>7. CASE MainPost BY <1>7 DEF MainPost
<1>8. CASE MainShutdownLock BY <1>8 DEF MainShutdownLock, Lock
<1>9. CASE MainShutdownClean BY <1>9 DEF MainShutdownClean
<1>10. CASE MainCancel BY <1>10 DEF MainCancel
<1>11. CASE MainJoin BY <1>11 DEF MainJoin
<1> QED BY <1>1, <1>2, <1>3, <1>4, <1>5, <1>6, <1>7, <1>8, <1>9, <1>10, <1>11 DEF Main

\* So do the command handlers that parse_cmd() runs, the timed-out
\* timedlock() included.
LEMMA UxSections == ASSUME TypeOK, VecsExclusive, Uxlsnr PROVE VecsExclusive'
<1> USE DEF TypeOK, VecsExclusive, InSection
<1>1. CASE UxInit BY <1>1 DEF UxInit
<1>2. CASE UxSignal BY <1>2 DEF UxSignal
<1>3. CASE UxSigReconfigure BY <1>3, SetTypes DEF UxSigReconfigure, UxSigRet, States
<1>4. CASE UxClient BY <1>4 DEF UxClient
<1>5. CASE cli_reconfigure BY <1>5, SetTypes DEF cli_reconfigure, UxSigRet, States
<1>6. CASE parse_cmd BY <1>6 DEF parse_cmd, Lock
<1>7. CASE UxCommand BY <1>7 DEF UxCommand
<1> QED BY <1>1, <1>2, <1>3, <1>4, <1>5, <1>6, <1>7 DEF Uxlsnr

\* So does checkerloop(), which keeps the lock over set_config_state() in
\* missing_uev_wait_tick().
LEMMA CheckSections == ASSUME TypeOK, VecsExclusive, Check PROVE VecsExclusive'
<1> USE DEF TypeOK, VecsExclusive, InSection
<1>1. CASE CheckRun BY <1>1, SetTypes DEF CheckRun, CheckRunRet, States
<1>2. CASE CheckLock BY <1>2 DEF CheckLock, Lock
<1>3. CASE CheckPaths BY <1>3 DEF CheckPaths
<1>4. CASE missing_uev_wait_tick BY <1>4 DEF missing_uev_wait_tick
<1>5. CASE CheckTickReconfigure BY <1>5, SetTypes DEF CheckTickReconfigure, CheckTickRet, States
<1>6. CASE CheckGc BY <1>6 DEF CheckGc
<1>7. CASE CheckIdle BY <1>7 DEF CheckIdle
<1> QED BY <1>1, <1>2, <1>3, <1>4, <1>5, <1>6, <1>7 DEF Check

\* So does uev_trigger(), which keeps the lock over set_config_state() in
\* ev_add_map().
LEMMA UevSections == ASSUME TypeOK, VecsExclusive, Uevq PROVE VecsExclusive'
<1> USE DEF TypeOK, VecsExclusive, InSection
<1>1. CASE uev_trigger BY <1>1 DEF uev_trigger
<1>2. CASE UevLock BY <1>2 DEF UevLock, Lock
<1>3. CASE UevPath BY <1>3 DEF UevPath
<1>4. ASSUME NEW m \in Maps, ev_add_map_new(m) PROVE VecsExclusive' BY <1>4 DEF ev_add_map_new
<1>5. ASSUME NEW m \in Maps, ev_add_map(m) PROVE VecsExclusive' BY <1>5 DEF ev_add_map
<1>6. CASE UevReconfigure BY <1>6, SetTypes DEF UevReconfigure, UevSetRet, States
<1> QED BY <1>1, <1>2, <1>3, <1>4, <1>5, <1>6 DEF Uevq

\* A cancelled thread releases the lock when it dies, wherever it dies.
LEMMA EnvSections ==
  ASSUME TypeOK, VecsExclusive,
         \/ \E t \in canceled : Die(t)
         \/ \E s \in {"HUP", "TERM"} : Signal(s)
         \/ \E t \in Threads : SpuriousWakeup(t)
         \/ UNCHANGED vars
  PROVE  VecsExclusive'
<1> USE DEF TypeOK, VecsExclusive, InSection
<1>1. ASSUME NEW t \in canceled, Die(t) PROVE VecsExclusive' BY <1>1 DEF Die
<1>2. ASSUME NEW s \in {"HUP", "TERM"}, Signal(s) PROVE VecsExclusive' BY <1>2 DEF Signal
<1>3. ASSUME NEW t \in Threads, SpuriousWakeup(t) PROVE VecsExclusive' BY <1>3 DEF SpuriousWakeup
<1>4. CASE UNCHANGED vars BY <1>4 DEF vars
<1> QED BY <1>1, <1>2, <1>3, <1>4

\* The lock is held by exactly the thread inside a locked section of code.
THEOREM Sections == Spec => []VecsExclusive
<1>1. Init => FreshStart /\ VecsExclusive BY InitIInv DEF IInv
<1>2. TypeOK /\ FreshStart /\ [Next]_vars => FreshStart' BY FreshStep
<1>3. TypeOK /\ FreshStart /\ VecsExclusive /\ [Next]_vars => VecsExclusive'
  BY MainSections, UxSections, CheckSections, UevSections, EnvSections DEF Next, Gone
<1> QED BY <1>1, <1>2, <1>3, Types, PTL DEF Spec

-----------------------------------------------------------------------------
(* A reconfigure finds the maps as need_to_delay_reconfig() saw them.      *)

\* Threads other than main are outside every section while main is in one,
\* and the maps change inside sections only.
LEMMA OthersLeaveMaps ==
  ASSUME TypeOK, VecsExclusive, pc["main"] = "reload", Uxlsnr \/ Check \/ Uevq
  PROVE  UNCHANGED <<mapst, sequence_nr>>
<1>1. vecs_lock = "main" /\ \A t \in {"uxlsnr", "check", "uevq"} : ~InSection(t)
  BY DEF VecsExclusive, InSection
<1> USE DEF InSection
<1>2. CASE Uxlsnr
  BY <1>1, <1>2 DEF Uxlsnr, UxInit, UxSignal, UxSigReconfigure, UxClient, cli_reconfigure,
     parse_cmd, UxCommand
<1>3. CASE Check
  BY <1>1, <1>3 DEF Check, CheckRun, CheckLock, CheckPaths, missing_uev_wait_tick,
     CheckTickReconfigure, CheckGc, CheckIdle
<1>4. CASE Uevq
  BY <1>1, <1>4 DEF Uevq, uev_trigger, UevLock, UevPath, ev_add_map, ev_add_map_new,
     UevReconfigure
<1> QED BY <1>2, <1>3, <1>4

\* No other thread moves main once the threads run.
LEMMA OthersLeaveMain ==
  ASSUME TypeOK, Uxlsnr \/ Check \/ Uevq
  PROVE  pc'["main"] = pc["main"]
<1> USE DEF TypeOK
<1>1. CASE Uxlsnr
  BY <1>1 DEF Uxlsnr, UxInit, UxSignal, UxSigReconfigure, UxClient, cli_reconfigure,
     parse_cmd, UxCommand, Lock, set_config_state, set_config_state_woken
<1>2. CASE Check
  BY <1>2 DEF Check, CheckRun, CheckLock, CheckPaths, missing_uev_wait_tick,
     CheckTickReconfigure, CheckGc, CheckIdle, Lock, set_config_state, set_config_state_woken
<1>3. CASE Uevq
  BY <1>3 DEF Uevq, uev_trigger, UevLock, UevPath, ev_add_map, ev_add_map_new,
     UevReconfigure, Lock, set_config_state, set_config_state_woken
<1> QED BY <1>1, <1>2, <1>3

\* Between need_to_delay_reconfig() and reconfigure() no map starts to wait.
LEMMA ReloadStep == ASSUME TypeOK, VecsExclusive, ReloadQuiet, [Next]_vars PROVE ReloadQuiet'
<1> USE DEF ReloadQuiet
<1>1. CASE Main
  <2>1. pc'["main"] = "reload" => MainDecide
    BY <1>1 DEF TypeOK, Main, MainStart, MainBoot, MainLoop, MainLock, MainDecide,
       MainReconfigure, MainPost, MainShutdownLock, MainShutdownClean, MainCancel, MainJoin, Lock
  <2>2. MainDecide => ReloadQuiet'
    BY DEF TypeOK, MainDecide, need_to_delay_reconfig
  <2> QED BY <2>1, <2>2
<1>2. CASE Uxlsnr \/ Check \/ Uevq
  BY <1>2, OthersLeaveMaps, OthersLeaveMain
<1>3. ASSUME NEW t \in canceled, Die(t) PROVE ReloadQuiet' BY <1>3 DEF Die, TypeOK
<1>4. ASSUME NEW s \in {"HUP", "TERM"}, Signal(s) PROVE ReloadQuiet' BY <1>4 DEF Signal
<1>5. ASSUME NEW t \in Threads, SpuriousWakeup(t) PROVE ReloadQuiet' BY <1>5 DEF SpuriousWakeup
<1>6. CASE UNCHANGED vars BY <1>6 DEF vars
<1> QED BY <1>1, <1>2, <1>3, <1>4, <1>5, <1>6 DEF Next, Gone

\* IInv is an invariant: no step of any thread leaves it.
THEOREM Inductive == Spec => []IInv
<1>1. Init => IInv BY InitIInv
<1>2. TypeOK /\ VecsExclusive /\ ReloadQuiet /\ [Next]_vars => ReloadQuiet' BY ReloadStep
<1>3. TypeOK /\ FreshStart /\ [Next]_vars => FreshStart' BY FreshStep
<1>4. IInv <=> TypeOK /\ VecsExclusive /\ ReloadQuiet /\ FreshStart BY DEF IInv
<1> QED BY <1>1, <1>2, <1>3, <1>4, Types, Sections, PTL DEF Spec

\* reconfigure() replaces the configuration only while no map waits for its
\* creation uevent.
THEOREM Quiet == Spec => QuietReconfigure
<1>1. IInv /\ [Next]_vars => [sequence_nr' # sequence_nr => \A m \in Maps : mapst[m] # "wait"]_vars
  <2> SUFFICES ASSUME IInv, [Next]_vars, sequence_nr' # sequence_nr
               PROVE  \A m \in Maps : mapst[m] # "wait"
    OBVIOUS
  <2>1. MainReconfigure
    BY DEF Next, Gone, vars, Main, MainStart, MainBoot, MainLoop, MainLock, MainDecide,
       MainPost, MainShutdownLock, MainShutdownClean, MainCancel, MainJoin,
       Uxlsnr, UxInit, UxSignal, UxSigReconfigure, UxClient, cli_reconfigure,
       parse_cmd, UxCommand, Check, CheckRun, CheckLock, CheckPaths, missing_uev_wait_tick,
       CheckTickReconfigure, CheckGc, CheckIdle, Uevq, uev_trigger, UevLock, UevPath,
       ev_add_map, ev_add_map_new, UevReconfigure, Die, Signal, SpuriousWakeup
  <2> QED BY <2>1 DEF IInv, ReloadQuiet, MainReconfigure
<1> QED BY <1>1, Inductive, PTL DEF Spec, QuietReconfigure

-----------------------------------------------------------------------------
(* DAEMON_SHUTDOWN is final.                                               *)

\* post_config_state() never leaves DAEMON_SHUTDOWN.
LEMMA PostKeepsShutdown ==
  ASSUME running_state = "SHUTDOWN", NEW s, post_config_state(s)
  PROVE  running_state' = "SHUTDOWN"
BY DEF post_config_state

\* Neither does set_config_state(), before or after its wait.
LEMMA SetKeepsShutdown ==
  ASSUME running_state = "SHUTDOWN", NEW t, NEW s, NEW ret,
         set_config_state(t, s, ret) \/ set_config_state_woken(t, s, ret)
  PROVE  running_state' = "SHUTDOWN"
BY DEF set_config_state, set_config_state_woken

\* No thread leaves DAEMON_SHUTDOWN, not even one that was waiting to set
\* another state when it was posted.
THEOREM Sticky == Spec => ShutdownSticky
<1>1. IInv /\ [Next]_vars =>
        [running_state = "SHUTDOWN" => running_state' = "SHUTDOWN"]_vars
  <2> SUFFICES ASSUME IInv, [Next]_vars, running_state = "SHUTDOWN"
               PROVE  running_state' = "SHUTDOWN"
    OBVIOUS
  <2>1. CASE Main
    BY <2>1, PostKeepsShutdown DEF IInv, FreshStart, Main, MainStart, MainBoot, MainLoop,
       MainLock, MainDecide, MainReconfigure, MainPost, MainShutdownLock, MainShutdownClean,
       MainCancel, MainJoin
  <2>2. CASE Uxlsnr
    BY <2>2, PostKeepsShutdown, SetKeepsShutdown DEF Uxlsnr, UxInit, UxSignal,
       UxSigReconfigure, UxClient, cli_reconfigure, parse_cmd, UxCommand
  <2>3. CASE Check
    BY <2>3, PostKeepsShutdown, SetKeepsShutdown DEF Check, CheckRun, CheckLock, CheckPaths,
       missing_uev_wait_tick, CheckTickReconfigure, CheckGc, CheckIdle
  <2>4. CASE Uevq
    BY <2>4, SetKeepsShutdown DEF Uevq, uev_trigger, UevLock, UevPath, ev_add_map,
       ev_add_map_new, UevReconfigure
  <2>5. CASE \/ \E t \in canceled : Die(t)
             \/ \E s \in {"HUP", "TERM"} : Signal(s)
             \/ \E t \in Threads : SpuriousWakeup(t)
             \/ UNCHANGED vars
    BY <2>5 DEF Die, Signal, SpuriousWakeup, vars
  <2> QED BY <2>1, <2>2, <2>3, <2>4, <2>5 DEF Next, Gone
<1> QED BY <1>1, Inductive, PTL DEF Spec, ShutdownSticky
=============================================================================
