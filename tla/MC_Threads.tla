----------------------------- MODULE MC_Threads -----------------------------
(***************************************************************************)
(* The log area with its thread, and an asynchronous path checker. The two *)
(* share no state: a behaviour is one of one component, chosen initially.  *)
(***************************************************************************)
EXTENDS Log, TurChecker

VARIABLE runs    \* the component that runs

Init ==
  /\ LogInit /\ TurInit
  /\ runs \in {"log", "tur"}

Next ==
  /\ \/ runs = "log" /\ LogNext /\ UNCHANGED tur_vars
     \/ runs = "tur" /\ TurNext /\ UNCHANGED log_vars
  /\ UNCHANGED runs

\* LogFairness and TurFairness of the component that runs. At TurInit no action
\* of TurFairness is enabled.
Spec ==
  /\ Init /\ [][Next]_<<log_vars, tur_vars, runs>>
  /\ WF_log_vars(runs = "log" /\ LogThread)
  /\ WF_log_vars(LogThreadCanceled)
  /\ \A l \in Loggers : WF_log_vars(log_signal(l))
  /\ WF_log_vars(stop # "run" /\ LogStop)
  /\ TurFairness
=============================================================================
