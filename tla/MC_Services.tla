----------------------------- MODULE MC_Services -----------------------------
(***************************************************************************)
(* What the daemon does for paths and maps beside its loops: accounting of *)
(* path I/O errors, persistent reservations, the directio checker and the  *)
(* waiter threads. The modules share no state: a behaviour is one of one   *)
(* of them, chosen initially.                                              *)
(***************************************************************************)
EXTENDS IoErrStat, Persist, Directio, Waiter, TLC

VARIABLE runs    \* the component that runs

\* Two paths through one host.
const_PrPaths == <<"sda", "sdb">>
const_PrHost == [p \in {"sda", "sdb"} |-> 1]

const_Sym == Permutations(IoPaths)

Init ==
  /\ runs \in {"ioerr", "pr", "dio", "waiter"}
  /\ IoInit /\ PrInit /\ DioInit /\ WtInit
  /\ runs # "pr" => pr_reg[Peer] = NoKey

Next ==
  /\ \/ runs = "ioerr"  /\ IoNext  /\ UNCHANGED <<pr_vars, dio_vars, wt_vars>>
     \/ runs = "pr"     /\ PrNext  /\ UNCHANGED <<ie_vars, dio_vars, wt_vars>>
     \/ runs = "dio"    /\ DioNext /\ UNCHANGED <<ie_vars, pr_vars, wt_vars>>
     \/ runs = "waiter" /\ WtNext  /\ UNCHANGED <<ie_vars, pr_vars, dio_vars>>
  /\ UNCHANGED runs

Spec == Init /\ [][Next]_<<ie_vars, pr_vars, dio_vars, wt_vars, runs>>
=============================================================================
