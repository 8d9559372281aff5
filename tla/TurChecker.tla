----------------------------- MODULE TurChecker -----------------------------
(***************************************************************************)
(* The asynchronous "tur" path checker, checkers/tur.c, as checkers.c and  *)
(* get_state() use it: the checker of one path, whose calls are serialised *)
(* by vecs->lock, and the detached threads it starts, one per check. A     *)
(* thread may hang in its ioctl. A context is shared by the checker and    *)
(* the threads started with it and is freed by the last of its holders.    *)
(*                                                                         *)
(* Every atomic operation and every section under ct->lock that another    *)
(* thread can see is a step. The outcome of a check is represented by the  *)
(* number of the thread that made it.                                      *)
(***************************************************************************)
EXTENDS Naturals

CONSTANTS
  MaxThreads,    \* bound on the threads that are started
  MaxContexts    \* bound on the contexts that are allocated

ASSUME TurAssumption == MaxThreads \in Nat /\ MaxContexts \in Nat

VARIABLES
  chk,       \* the checker: where in checkers.c and tur.c its caller is, and how
             \* many threads it has started (history)
  ctx,       \* struct tur_checker_context of each context
  thr,       \* the threads: where in tur_thread() they are
  answer     \* history: the result or time-out reported last

tur_vars == <<chk, ctx, thr, answer>>

Threads  == 1..MaxThreads
Contexts == 1..MaxContexts

\* Values of ct->state that are not the result of a thread
Unchecked == 0
Pending   == MaxThreads + 1

NewContext == [mem |-> "live", running |-> FALSE, holders |-> 1, state |-> Unchecked,
               thread |-> 0, late |-> FALSE, locked |-> FALSE]
NoContext  == [NewContext EXCEPT !.mem = "none"]

ct == ctx[chk.ct]
Started == chk.started
Allocated(i) == \A j \in Contexts : j < i => ctx[j].mem # "none"

\* uatomic_sub_return(&ct->holders, 1), and cleanup_context() by the last one
Drop(c) == IF c.holders = 1 THEN [NoContext EXCEPT !.mem = "freed"]
           ELSE [c EXCEPT !.holders = @ - 1]

\* libcheck_check() returns the state that thread "by" has found, after the
\* start of thread "for". "again" tells that it did so before.
Report(by) == [by |-> by, for |-> Started, again |-> answer.for = Started]

Return(pc) == [chk EXCEPT !.pc = pc, !.then = "result", !.status = Unchecked]

-----------------------------------------------------------------------------
(* checkers.c and libcheck_init(), libcheck_free()                         *)

\* checker_init(): without memory the checker is cleared and nothing happens.
checker_init(i) ==
  /\ chk.pc = "none" /\ ~chk.down
  /\ ctx[i].mem = "none" /\ Allocated(i)
  /\ ctx' = [ctx EXCEPT ![i] = NewContext]
  /\ chk' = [chk EXCEPT !.pc = "idle", !.ct = i, !.disable = FALSE]
  /\ UNCHANGED <<thr, answer>>

\* checker_enable(), checker_disable()
checker_switch ==
  /\ chk.pc = "idle"
  /\ chk' = [chk EXCEPT !.disable = ~@]
  /\ UNCHANGED <<ctx, thr, answer>>

\* libcheck_free() up to pthread_cancel()
libcheck_free ==
  /\ chk.pc = "idle"
  /\ chk' = [chk EXCEPT !.pc = IF ct.running THEN "cancel" ELSE "free", !.then = "free"]
  /\ ctx' = [ctx EXCEPT ![chk.ct].running = FALSE]
  /\ UNCHANGED <<thr, answer>>

\* The rest of libcheck_free(), and checker_clear()
libcheck_drop ==
  /\ chk.pc = "free"
  /\ ctx' = [ctx EXCEPT ![chk.ct] = Drop([@ EXCEPT !.thread = 0])]
  /\ chk' = [Return("none") EXCEPT !.ct = 0, !.disable = FALSE]
  /\ UNCHANGED <<thr, answer>>

checker_put == libcheck_free \/ libcheck_drop

-----------------------------------------------------------------------------
(* libcheck_check() of an enabled checker that is not in sync mode         *)

Checking == chk.pc = "idle" /\ ~chk.disable /\ ~chk.down

\* Mutant: whether the thread still runs is asked before its time-out is.
check_late_second ==
  /\ Checking /\ ct.thread # 0 /\ ct.late /\ ~ct.running
  /\ chk' = [chk EXCEPT !.pc = "read"]
  /\ UNCHANGED <<ctx, thr, answer>>

\* A thread was started earlier and its time is up.
check_late ==
  /\ Checking /\ ct.thread # 0 /\ ct.late
  /\ chk' = [chk EXCEPT !.pc = IF ct.running THEN "cancel" ELSE "read", !.then = "timeout"]
  /\ ctx' = [ctx EXCEPT ![chk.ct].running = FALSE]
  /\ UNCHANGED <<thr, answer>>

\* It has finished in time. (If it still runs, "pending" is returned.)
check_done ==
  /\ Checking /\ ct.thread # 0 /\ ~ct.late /\ ~ct.running
  /\ ctx' = [ctx EXCEPT ![chk.ct].thread = 0]
  /\ chk' = [chk EXCEPT !.pc = "read"]
  /\ UNCHANGED <<thr, answer>>

\* ct->state is read, under ct->lock, and reported.
check_read ==
  /\ chk.pc = "read"
  /\ answer' = Report(ct.state)
  /\ ctx' = [ctx EXCEPT ![chk.ct].thread = 0]
  /\ chk' = Return("idle")
  /\ UNCHANGED thr

\* pthread_cancel() of the thread whose running flag was taken
check_cancel ==
  /\ chk.pc = "cancel"
  /\ thr' = [thr EXCEPT ![ct.thread].canceled = TRUE]
  /\ ctx' = [ctx EXCEPT ![chk.ct].thread = 0]
  /\ chk' = IF chk.then = "free" THEN [chk EXCEPT !.pc = "free"] ELSE Return("idle")
  /\ answer' = CASE chk.then = "timeout" -> Report(Started)
                 [] chk.then = "result"  -> Report(chk.status)
                 [] chk.then = "free"    -> answer

\* Mutant: the context of a thread that has not quit is used again.
check_holders_ignored(i) ==
  /\ Checking /\ ct.thread = 0 /\ i = chk.ct
  /\ chk' = [chk EXCEPT !.pc = "start"]
  /\ UNCHANGED <<ctx, thr, answer>>

\* No thread was started. If an earlier one has not quit, context i replaces
\* the one it holds. (Without memory nothing happens.)
check_holders(i) ==
  /\ Checking /\ ct.thread = 0
  /\ IF ct.holders > 1
     THEN /\ ctx[i].mem = "none" /\ Allocated(i)
          /\ ctx' = [ctx EXCEPT ![i] = NewContext]
          /\ chk' = [chk EXCEPT !.pc = "swap", !.ct = i, !.old = chk.ct]
     ELSE /\ i = chk.ct
          /\ chk' = [chk EXCEPT !.pc = "start"]
          /\ UNCHANGED ctx
  /\ UNCHANGED <<thr, answer>>

check_swap ==
  /\ chk.pc = "swap"
  /\ ctx' = [ctx EXCEPT ![chk.old] = Drop(@)]
  /\ chk' = [chk EXCEPT !.pc = "start", !.old = 0]
  /\ UNCHANGED <<thr, answer>>

\* Mutant: the new thread is not counted as a holder of the context.
check_start_unheld ==
  /\ chk.pc = "start" /\ Started < MaxThreads
  /\ ctx' = [ctx EXCEPT ![chk.ct] = [@ EXCEPT !.state = Pending, !.late = FALSE, !.running = TRUE,
                                              !.thread = Started + 1]]
  /\ thr' = [thr EXCEPT ![Started + 1] = [pc |-> "check", ctx |-> chk.ct, canceled |-> FALSE]]
  /\ chk' = [chk EXCEPT !.pc = "lock", !.started = @ + 1]
  /\ UNCHANGED answer

\* A context once thread k was started with it, which holds it, too
Begun(c, k) == [c EXCEPT !.state = Pending, !.late = FALSE, !.holders = @ + 1,
                         !.running = TRUE, !.thread = k]

\* pthread_create() starts a thread ...
check_started ==
  /\ chk.pc = "start" /\ Started < MaxThreads
  /\ ctx' = [ctx EXCEPT ![chk.ct] = Begun(@, Started + 1)]
  /\ thr' = [thr EXCEPT ![Started + 1] = [pc |-> "check", ctx |-> chk.ct, canceled |-> FALSE]]
  /\ chk' = [chk EXCEPT !.pc = "lock", !.started = @ + 1]
  /\ UNCHANGED answer

\* ... or fails: then the check is done in sync mode.
check_sync ==
  /\ chk.pc = "start"
  /\ ctx' = [ctx EXCEPT ![chk.ct] = [@ EXCEPT !.state = Pending, !.late = FALSE]]
  /\ chk' = Return("idle")
  /\ UNCHANGED <<thr, answer>>

check_start == check_started \/ check_sync

\* The first look under ct->lock, and the wait of a millisecond: if that ends
\* without a signal "pending" is returned, even if the thread has finished.
check_wait ==
  /\ chk.pc \in {"lock", "wait"}
  /\ \/ /\ ct.state # Pending
        /\ chk' = [chk EXCEPT !.pc = "xchg", !.status = ct.state]
     \/ /\ ct.state = Pending /\ chk.pc = "lock"
        /\ chk' = [chk EXCEPT !.pc = "wait"]
     \/ /\ chk.pc = "wait"
        /\ chk' = Return("idle")
  /\ UNCHANGED <<ctx, thr, answer>>

\* Mutant: a thread that has reported in time is left to itself.
check_xchg_nocancel ==
  /\ chk.pc = "xchg"
  /\ ctx' = [ctx EXCEPT ![chk.ct].running = FALSE, ![chk.ct].thread = 0]
  /\ chk' = Return("idle")
  /\ answer' = Report(chk.status)
  /\ UNCHANGED thr

\* The thread has reported in time; it may not have taken its running flag.
check_xchg ==
  /\ chk.pc = "xchg"
  /\ IF ct.running
     THEN /\ ctx' = [ctx EXCEPT ![chk.ct].running = FALSE]
          /\ chk' = [chk EXCEPT !.pc = "cancel", !.then = "result"]
          /\ UNCHANGED answer
     ELSE /\ ctx' = [ctx EXCEPT ![chk.ct].thread = 0]
          /\ chk' = Return("idle")
          /\ answer' = Report(chk.status)
  /\ UNCHANGED thr

libcheck_check ==
  \/ check_late \/ check_done \/ check_read \/ check_cancel
  \/ \E i \in Contexts : check_holders(i)
  \/ check_swap \/ check_start \/ check_wait \/ check_xchg

\* At shutdown the caller, the checker thread, is canceled: while it sleeps,
\* or in the condition wait, which leaves ct->lock locked.
caller_canceled ==
  /\ chk.pc \in {"none", "idle", "wait"} /\ ~chk.down
  /\ chk' = [chk EXCEPT !.down = TRUE, !.pc = IF @ = "wait" THEN "idle" ELSE @]
  /\ ctx' = IF chk.pc = "wait" THEN [ctx EXCEPT ![chk.ct].locked = TRUE] ELSE ctx
  /\ UNCHANGED <<thr, answer>>

\* The time that tur_set_async_timeout() has set passes.
time_passes ==
  /\ chk.ct # 0 /\ ct.thread # 0 /\ ~ct.late
  /\ ctx' = [ctx EXCEPT ![chk.ct].late = TRUE]
  /\ UNCHANGED <<chk, thr, answer>>

-----------------------------------------------------------------------------
(* tur_thread()                                                            *)

Goto(k, pc) == thr' = [thr EXCEPT ![k].pc = pc]

\* tur_check() returns, and pthread_testcancel()
tur_check(k) ==
  /\ thr[k].pc = "check"
  /\ Goto(k, IF thr[k].canceled THEN "cleanup" ELSE "store")
  /\ UNCHANGED <<chk, ctx, answer>>

\* Mutant: a thread that is to be canceled does not wait for that.
tur_xchg_nopause(k) ==
  /\ thr[k].pc = "xchg"
  /\ ctx' = [ctx EXCEPT ![thr[k].ctx].running = FALSE]
  /\ Goto(k, "cleanup")
  /\ UNCHANGED <<chk, answer>>

\* The result is stored under ct->lock, and the caller is signaled.
tur_store(k) ==
  /\ thr[k].pc = "store" /\ ~ctx[thr[k].ctx].locked
  /\ ctx' = [ctx EXCEPT ![thr[k].ctx].state = k]
  /\ Goto(k, "xchg")
  /\ UNCHANGED <<chk, answer>>

\* Who clears the running flag first decides: the thread goes on, or it waits
\* until it is canceled.
tur_flag(k) ==
  /\ thr[k].pc = "xchg"
  /\ ctx' = [ctx EXCEPT ![thr[k].ctx].running = FALSE]
  /\ Goto(k, IF ctx[thr[k].ctx].running THEN "cleanup" ELSE "pause")
  /\ UNCHANGED <<chk, answer>>

\* Writing the log before that may be a cancellation point.
tur_logs(k) ==
  /\ thr[k].pc = "xchg" /\ thr[k].canceled
  /\ Goto(k, "cleanup")
  /\ UNCHANGED <<chk, ctx, answer>>

tur_xchg(k) == tur_flag(k) \/ tur_logs(k)

tur_pause(k) ==
  /\ thr[k].pc = "pause" /\ thr[k].canceled
  /\ Goto(k, "cleanup")
  /\ UNCHANGED <<chk, ctx, answer>>

\* cleanup_func()
tur_cleanup(k) ==
  /\ thr[k].pc = "cleanup"
  /\ ctx' = [ctx EXCEPT ![thr[k].ctx] = Drop(@)]
  /\ thr' = [thr EXCEPT ![k] = [pc |-> "exit", ctx |-> 0, canceled |-> FALSE]]
  /\ UNCHANGED <<chk, answer>>

\* tur_thread() after its ioctl
tur_thread(k) == tur_store(k) \/ tur_xchg(k) \/ tur_pause(k) \/ tur_cleanup(k)

TurInit ==
  /\ chk = [pc |-> "none", ct |-> 0, old |-> 0, disable |-> FALSE,
            then |-> "result", status |-> Unchecked, down |-> FALSE, started |-> 0]
  /\ ctx = [i \in Contexts |-> NoContext]
  /\ thr = [k \in Threads |-> [pc |-> "none", ctx |-> 0, canceled |-> FALSE]]
  /\ answer = [by |-> 0, for |-> 0, again |-> FALSE]

TurNext ==
  \/ \E i \in Contexts : checker_init(i)
  \/ checker_switch \/ checker_put
  \/ libcheck_check \/ caller_canceled \/ time_passes
  \/ \E k \in Threads : tur_check(k) \/ tur_thread(k)

\* The checker loop calls the checker again and again, time passes, and a
\* thread whose ioctl has returned runs. An ioctl may hang.
TurFairness ==
  /\ WF_tur_vars(libcheck_check)
  /\ WF_tur_vars(libcheck_drop)
  /\ WF_tur_vars(time_passes)
  /\ \A k \in Threads : WF_tur_vars(tur_thread(k))

TurSpec == TurInit /\ [][TurNext]_tur_vars /\ TurFairness

-----------------------------------------------------------------------------
(* Properties                                                              *)

Alive(k) == thr[k].pc \notin {"none", "exit"}

\* Whoever is about to use a context finds it allocated, and a context that
\* nobody is left to use has been freed: the checker and the threads it has
\* lost patience with share contexts by counting their holders.
ContextLifetime ==
  /\ \A i \in {chk.ct, chk.old} \ {0} : ctx[i].mem = "live"
  /\ \A k \in Threads : Alive(k) => ctx[thr[k].ctx].mem = "live"
  /\ \A i \in Contexts : ctx[i].mem = "live" =>
       i \in {chk.ct, chk.old} \/ \E k \in Threads : Alive(k) /\ thr[k].ctx = i

\* pthread_cancel() is only called for a thread that has not ended, although
\* threads are detached and end by themselves: the running flag sees to it.
CancelsAlive == chk.pc = "cancel" => ct.thread # 0 /\ Alive(ct.thread)

\* Each check is answered at most once, and a result that is reported is that
\* of the thread started last, never that of a thread given up before, nor
\* the "pending" of a thread that has not finished.
AnswersFresh == answer.by = answer.for /\ ~answer.again

\* The checker and its threads do not get in each other's way: they use live
\* contexts, cancel live threads, and take results of the thread they wait for.
CheckerSound == ContextLifetime /\ CancelsAlive /\ AnswersFresh

\* A thread that hangs does not keep the checker from ever giving an answer:
\* a check that has been started is over some time, unless the checker is
\* disabled or the daemon ends.
ChecksEnd ==
  \A k \in Threads :
    chk.ct # 0 /\ ct.thread = k ~> chk.ct = 0 \/ ct.thread # k \/ chk.disable \/ chk.down

\* A thread whose ioctl returns ends, in particular if it waits for being
\* canceled, unless the daemon ends.
ThreadsEnd == \A k \in Threads : thr[k].pc = "store" ~> thr[k].pc = "exit" \/ chk.down
=============================================================================
