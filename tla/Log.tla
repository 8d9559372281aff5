--------------------------------- MODULE Log ---------------------------------
(***************************************************************************)
(* The log area of libmultipath/log.c, a ring of records of different      *)
(* lengths chained by pointers, and the thread of log_pthread.c that       *)
(* writes the records to syslog.                                           *)
(*                                                                         *)
(* Addresses and lengths are in units of ALIGN(), the size of a pointer. A *)
(* message m = [n, len] is its number and the length of its record. A cell *)
(* of memory holds the message whose text is there and, if some record     *)
(* begins there, the record's next pointer. Sections under logq_lock and   *)
(* under logev_lock are one step each.                                     *)
(***************************************************************************)
EXTENDS Naturals, Sequences

CONSTANTS
  AreaSize,   \* la->end - la->start
  MaxLen,     \* the length of the record of a text of MAX_MSG_SIZE
  MaxMsgs,    \* bound on the messages that are logged
  Loggers     \* the threads that log

\* logarea_init() makes the area DEFAULT_AREA_SIZE, 16384, if it is asked for
\* less than MAX_MSG_SIZE, 256.
ASSUME LogAssumption ==
  /\ MaxLen \in Nat \ {0}
  /\ AreaSize \in Nat /\ AreaSize >= 2 * MaxLen
  /\ MaxMsgs \in Nat

VARIABLES
  la,        \* head, tail and empty of struct logarea
  mem,       \* the memory of the area
  buff,      \* la->buff: the message taken out last, <<>> before
  logger,    \* where in log_safe() each logger is
  logthr,    \* where log_thread() is
  ev,        \* logq_running, log_messages_pending, and whether log_thread()
             \* is to be woken up or canceled
  stop,      \* where log_thread_stop() is
  n,         \* the number of messages logged so far
  q,         \* history: the records in the area, in order of arrival
  written    \* history: the messages handed to syslog

area_vars == <<la, mem, q>>
log_vars  == <<la, mem, buff, logger, logthr, ev, stop, n, q, written>>

Addrs    == 0..(AreaSize - 1)
Messages == [n : 1..MaxMsgs, len : 1..MaxLen]
NoMsg    == [n |-> 0, len |-> 0]
Null     == AreaSize
Free     == [m |-> NoMsg, next |-> Null]

-----------------------------------------------------------------------------
(* log.c                                                                   *)

Block(at, len) == at..(at + len - 1)

\* Writing the text of m at address at, then lastmsg->next and msg->next
Stage(m, at, lastmsg, head) ==
  LET text == [a \in Addrs |-> IF a \in Block(at, m.len) THEN [m |-> m, next |-> Null] ELSE mem[a]]
  IN  [[text EXCEPT ![lastmsg].next = at] EXCEPT ![at].next = head]

\* Mutant: a record may end where the head begins.
log_enqueue_exact(m) ==
  LET t1   == IF la.empty THEN la.tail ELSE la.tail + mem[la.tail].m.len
      wrap == la.head <= t1 /\ m.len > AreaSize - t1
      tail == IF wrap THEN 0 ELSE t1
      head == IF wrap /\ la.empty THEN 0 ELSE la.head
  IN  IF (wrap /\ la.head = 0) \/ (head > tail /\ m.len > head - tail)
      THEN UNCHANGED area_vars
      ELSE /\ la' = [head |-> head, tail |-> tail, empty |-> FALSE]
           /\ mem' = Stage(m, tail, la.tail, head)
           /\ q' = Append(q, [m |-> m, at |-> tail])

\* log_enqueue(): behind the tail, or at the start of the area, or not at all
log_enqueue(m) ==
  LET t1   == IF la.empty THEN la.tail ELSE la.tail + mem[la.tail].m.len
      wrap == la.head <= t1 /\ m.len > AreaSize - t1
      tail == IF wrap THEN 0 ELSE t1
      head == IF wrap /\ la.empty THEN 0 ELSE la.head
  IN  IF (wrap /\ la.head = 0) \/ (head > tail /\ m.len >= head - tail)
      THEN UNCHANGED area_vars
      ELSE /\ la' = [head |-> head, tail |-> tail, empty |-> FALSE]
           /\ mem' = Stage(m, tail, la.tail, head)
           /\ q' = Append(q, [m |-> m, at |-> tail])

\* Mutant: the record that is left keeps its pointer to the one taken out,
\* and the head is not moved past the end of the chain.
log_dequeue_stay ==
  LET src == mem[la.head].m
  IN  /\ buff' = <<src>>
      /\ la' = IF la.tail = la.head THEN [la EXCEPT !.empty = TRUE]
               ELSE [la EXCEPT !.head = @ + src.len]
      /\ mem' = [a \in Addrs |-> IF a \in Block(la.head, src.len) THEN Free ELSE mem[a]]
      /\ q' = Tail(q)

\* log_dequeue() of an area that is not empty: the record at the head is
\* copied and cleared. <<>> stands for a copy that is not one message.
log_dequeue ==
  LET src  == mem[la.head].m
      last == la.tail = la.head
      head == IF last THEN la.head ELSE mem[la.head].next
      pick == IF \A a \in Block(la.head, src.len) : mem[a].m = src THEN <<src>> ELSE <<>>
  IN  /\ buff' = pick
      /\ la' = [la EXCEPT !.head = head, !.empty = last]
      /\ mem' = [a \in Addrs |->
                   IF a \in Block(la.head, src.len) THEN Free
                   ELSE IF a = la.tail THEN [mem[a] EXCEPT !.next = head] ELSE mem[a]]
      /\ q' = Tail(q)

-----------------------------------------------------------------------------
(* log_pthread.c                                                           *)

\* Mutant: a wake-up is lost if log_thread() does not wait yet.
log_signal_unset(l) ==
  /\ logger[l] = "signal"
  /\ ev' = [ev EXCEPT !.woken = logthr = "wait"]
  /\ logger' = [logger EXCEPT ![l] = "idle"]
  /\ UNCHANGED <<area_vars, buff, logthr, stop, n, written>>

\* The first half of log_safe(), while there is a log thread
log_safe(l, len) ==
  /\ stop = "run" /\ logger[l] = "idle" /\ n < MaxMsgs
  /\ n' = n + 1
  /\ log_enqueue([n |-> n + 1, len |-> len])
  /\ logger' = [logger EXCEPT ![l] = "signal"]
  /\ UNCHANGED <<buff, logthr, ev, stop, written>>

\* The second half of log_safe()
log_signal(l) ==
  /\ logger[l] = "signal"
  /\ ev' = [ev EXCEPT !.pending = TRUE, !.woken = logthr = "wait"]
  /\ logger' = [logger EXCEPT ![l] = "idle"]
  /\ UNCHANGED <<area_vars, buff, logthr, stop, n, written>>

\* log_thread(): its start, its wait, which is entered only if nothing is
\* pending and may end without a signal, and flush_logqueue()
log_thread ==
  \/ /\ logthr = "start"
     /\ ev' = [ev EXCEPT !.running = TRUE]
     /\ logthr' = "loop"
     /\ UNCHANGED <<area_vars, buff, written>>
  \/ /\ logthr = "loop"
     /\ IF ev.running /\ ~ev.pending
        THEN logthr' = "wait" /\ UNCHANGED ev
        ELSE ev' = [ev EXCEPT !.pending = FALSE] /\ logthr' = IF ev.running THEN "flush" ELSE "exit"
     /\ UNCHANGED <<area_vars, buff, written>>
  \/ /\ logthr = "wait" /\ ev.woken
     /\ ev' = [ev EXCEPT !.pending = FALSE, !.woken = FALSE]
     /\ logthr' = IF ev.running THEN "flush" ELSE "exit"
     /\ UNCHANGED <<area_vars, buff, written>>
  \/ /\ logthr = "flush"
     /\ IF la.empty THEN logthr' = "loop" /\ UNCHANGED <<area_vars, buff>>
        ELSE logthr' = "syslog" /\ log_dequeue
     /\ UNCHANGED <<ev, written>>
  \/ /\ logthr = "syslog"
     /\ written' = IF buff = <<>> THEN written ELSE written \cup {buff[1].n}
     /\ logthr' = "flush"
     /\ UNCHANGED <<area_vars, buff, ev>>

LogThread == log_thread /\ UNCHANGED <<logger, stop, n>>

SpuriousWakeupLog ==
  /\ logthr = "wait" /\ ~ev.woken
  /\ ev' = [ev EXCEPT !.woken = TRUE]
  /\ UNCHANGED <<area_vars, buff, logger, logthr, stop, n, written>>

\* A canceled thread ends where it waits or writes.
LogThreadCanceled ==
  /\ ev.canceled /\ logthr \in {"wait", "syslog"}
  /\ logthr' = "exit"
  /\ UNCHANGED <<area_vars, buff, logger, ev, stop, n, written>>

\* log_thread_stop(): when the threads that log have been joined
log_thread_stop ==
  \/ /\ stop = "run" /\ \A l \in Loggers : logger[l] = "idle"
     /\ ev' = [ev EXCEPT !.running = FALSE, !.woken = logthr = "wait"]
     /\ stop' = "cancel"
     /\ UNCHANGED <<area_vars, buff, written>>
  \/ /\ stop = "cancel"
     /\ ev' = [ev EXCEPT !.canceled = TRUE]
     /\ stop' = "join"
     /\ UNCHANGED <<area_vars, buff, written>>
  \/ /\ stop = "join" /\ logthr = "exit"
     /\ stop' = "flush"
     /\ UNCHANGED <<area_vars, buff, ev, written>>
  \/ /\ stop = "flush"
     /\ IF la.empty THEN stop' = "closed" /\ UNCHANGED <<area_vars, buff>>
        ELSE stop' = "syslog" /\ log_dequeue
     /\ UNCHANGED <<ev, written>>
  \/ /\ stop = "syslog"
     /\ written' = IF buff = <<>> THEN written ELSE written \cup {buff[1].n}
     /\ stop' = "flush"
     /\ UNCHANGED <<area_vars, buff, ev>>

LogStop == log_thread_stop /\ UNCHANGED <<logger, logthr, n>>

LogInit ==
  /\ la = [head |-> 0, tail |-> 0, empty |-> TRUE]
  /\ mem = [a \in Addrs |-> Free]
  /\ buff = <<>>
  /\ logger = [l \in Loggers |-> "idle"]
  /\ logthr = "start"
  /\ ev = [running |-> FALSE, pending |-> FALSE, woken |-> FALSE, canceled |-> FALSE]
  /\ stop = "run"
  /\ n = 0
  /\ q = <<>>
  /\ written = {}

LogNext ==
  \/ \E l \in Loggers : log_signal(l) \/ \E len \in 1..MaxLen : log_safe(l, len)
  \/ LogThread \/ SpuriousWakeupLog \/ LogThreadCanceled \/ LogStop

\* The log thread runs, a logger leaves log_safe(), and a stop that has begun
\* goes on.
LogFairness ==
  /\ WF_log_vars(LogThread)
  /\ WF_log_vars(LogThreadCanceled)
  /\ \A l \in Loggers : WF_log_vars(log_signal(l))
  /\ WF_log_vars(stop # "run" /\ LogStop)

LogSpec == LogInit /\ [][LogNext]_log_vars /\ LogFairness

-----------------------------------------------------------------------------
(* Properties                                                              *)

\* The pointers of the area lead from the head through the records in order
\* of arrival to the tail, each record is whole, and none leaves the area.
LogChain ==
  /\ la.empty <=> q = <<>>
  /\ q = <<>> => la.head = la.tail
  /\ q # <<>> => la.head = q[1].at /\ la.tail = q[Len(q)].at
  /\ \A k \in 1..Len(q) :
       /\ Block(q[k].at, q[k].m.len) \subseteq Addrs
       /\ \A a \in Block(q[k].at, q[k].m.len) : mem[a].m = q[k].m
       /\ k < Len(q) => mem[q[k].at].next = q[k + 1].at

\* The log area is a first-in first-out queue of messages that may drop.
Fifo == INSTANCE LogFifo WITH
  queue <- [k \in 1..Len(q) |-> q[k].m],
  taken <- buff
IsFifo == Fifo!FifoSpec

\* Every message that the area has accepted is written to syslog, whatever
\* the log thread was doing when it came; but a message that is being
\* written when log_thread_stop() cancels the thread may be lost.
LogWritten ==
  \A i \in 1..MaxMsgs :
    (\E k \in 1..Len(q) : q[k].m.n = i) ~> (i \in written \/ ev.canceled)
=============================================================================
