------------------------------ MODULE MC_Daemon ------------------------------
(* Constants for model checking Daemon.                                    *)
EXTENDS Daemon

=============================================================================
