------------------------------ MODULE MC_Events ------------------------------
(***************************************************************************)
(* The uevent queue with its two threads, and the poller for device-mapper *)
(* events. They share no state: a behaviour is one of either, chosen       *)
(* initially.                                                              *)
(***************************************************************************)
EXTENDS UeventQueue, DmEvents

VARIABLE runs    \* the component that runs

\* Initially all paths lead to one LUN, so that there is something to merge.
Init ==
  /\ UevInit /\ DmInit
  /\ lun \in [Named -> {CHOOSE w \in Wwids : TRUE}]
  /\ runs \in {"uev", "dm"}

Next ==
  \/ runs = "uev" /\ UevNext /\ UNCHANGED <<dm_vars, runs>>
  \/ runs = "dm"  /\ DmNext  /\ UNCHANGED <<uev_vars, runs>>

\* Initially no action of UevFairness and of DmFairness is enabled, so that
\* the component that does not run meets its fairness.
Spec ==
  /\ Init /\ [][Next]_<<uev_vars, dm_vars, runs>>
  /\ UevFairness /\ DmFairness
=============================================================================
