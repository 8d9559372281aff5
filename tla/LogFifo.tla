------------------------------- MODULE LogFifo -------------------------------
(***************************************************************************)
(* What the log area of libmultipath/log.c promises to its users: messages *)
(* that are accepted come out whole, once, and in the order they went in.  *)
(* Messages may be dropped instead of being accepted.                      *)
(***************************************************************************)
EXTENDS Sequences

CONSTANT Messages

VARIABLES
  queue,   \* messages accepted and not yet taken out
  taken    \* the message taken out last

FifoInit == queue = <<>> /\ taken = <<>>

Accept == \E m \in Messages : queue' = Append(queue, m) /\ UNCHANGED taken

Take ==
  /\ queue # <<>>
  /\ taken' = <<Head(queue)>>
  /\ queue' = Tail(queue)

FifoSpec == FifoInit /\ [][Accept \/ Take]_<<queue, taken>>
=============================================================================
