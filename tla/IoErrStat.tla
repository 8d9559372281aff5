------------------------------ MODULE IoErrStat ------------------------------
(***************************************************************************)
(* Path I/O error accounting, the marginal_path method                     *)
(* (libmultipath/io_err_stat.c): a path that fails twice in a short time   *)
(* is kept failed and put on probation. A thread reads from it for a while *)
(* and the error rate decides whether the path may be used again.          *)
(*                                                                         *)
(* The checker and the uevent thread come here with vecs->lock held and    *)
(* take paths->mutex; the accounting thread holds paths->mutex and takes   *)
(* vecs->lock to report. All paths are of one map. A path on probation has *)
(* one request context instead of CONCUR_NR_EVENT ones.                    *)
(***************************************************************************)
EXTENDS Integers, Sequences, SequencesExt

CONSTANTS
  IoPaths,         \* the paths of the map
  Second,          \* ticks of the clock in a second (10^9 in the code)
  SampleTime,      \* marginal_path_err_sample_time, in seconds as the next three
  IoTimeout,       \* IOTIMEOUT_SEC
  GapTime,         \* marginal_path_err_recheck_gap_time
  DoubleFailedTime,\* marginal_path_double_failed_time
  ErrRate,         \* marginal_path_err_rate_threshold, per 1000
  IoMaxTime,       \* bound: the clock stops here
  IoMaxRequests    \* bound: requests sent to a path while it is sampled

\* select_marginal_path_err_sample_time() raises the sample time to this.
ASSUME SampleTimeAssumption ==
  /\ SampleTime \in Nat /\ IoTimeout \in Nat /\ SampleTime >= 2 * IoTimeout /\ IoTimeout > 0
  /\ Second \in Nat \ {0}

VARIABLES
  ie_now,          \* CLOCK_MONOTONIC, in ticks
  ie_path,         \* struct path: state, io_err_pathfail_cnt,
                   \* io_err_disable_reinstate, io_err_pathfail_starttime,
                   \* io_err_dis_reinstate_time; "gone" is a path not in pathvec
  ie_queue,        \* paths->pathvec, by path
  ie_entry,        \* struct io_err_stat_path of the queued paths
  ie_vecs,         \* holder of vecs->lock
  ie_mutex,        \* holder of paths->mutex
  ie_chk,          \* the checker in need_io_err_check(): [pc, p]
  ie_thr           \* the thread: [pc, i]; i is the index of service_paths()
ie_vars == <<ie_now, ie_path, ie_queue, ie_entry, ie_vecs, ie_mutex, ie_chk, ie_thr>>

IN_CHECKING == -1
WAITING_TO_CHECK == -2
FLAKY_PATHFAIL_THRESHOLD == 2
Never == -100                          \* a time of 0 in the code
NoCheck == [pc |-> "idle", p |-> "none"]
NewPath == [state |-> "up", cnt |-> 0, disable |-> FALSE,
            start |-> Never, dis |-> Never]
\* start: start_time; io: io_starttime of the request, both in ticks, where the
\* times of a path are in seconds; kern: requests that the
\* kernel holds for the context; nr, err: io_nr and io_err_nr.
NewEntry == [start |-> Never, io |-> Never, kern |-> 0, nr |-> 0, err |-> 0]

IoInit ==
  /\ ie_now = 0
  /\ ie_path = [p \in IoPaths |-> NewPath]
  /\ ie_queue = <<>> /\ ie_entry = [p \in IoPaths |-> NewEntry]
  /\ ie_vecs = "free" /\ ie_mutex = "free"
  /\ ie_chk = NoCheck
  /\ ie_thr = [pc |-> "off", i |-> 0]

\* Each time, and each difference of two, loses its fraction on its own.
tv_sec(t) == t \div Second

IoRunning == ie_thr.pc # "off" /\ ie_thr.pc # "stopped"
count_active_paths == \E p \in IoPaths : ie_path[p].state = "up"
find_err_path_by_dev(p) == \E i \in DOMAIN ie_queue : ie_queue[i] = p
\* Times that are set anew before they are looked at again are left out.
Recovered(r) == [r EXCEPT !.cnt = 0, !.disable = FALSE, !.start = Never, !.dis = Never]

(*************************** failures and checks ***************************)
\* With vecs->lock, from uev_pathfail_check(). An error of the clock is left
\* out. Marking the path as failed also updates the queueing, see PathCheck.
io_err_stat_handle_pathfail(p) ==
  /\ ie_vecs = "free"
  /\ IoRunning /\ ie_path[p].state # "gone"
  /\ ~ie_path[p].disable /\ ie_path[p].cnt >= 0
  /\ LET r == ie_path[p]
         old == r.cnt > 0 /\ tv_sec(ie_now) - r.start > DoubleFailedTime
         n == IF old THEN 1 ELSE r.cnt + 1
         counted == [r EXCEPT !.cnt = n,
                              !.start = IF n = 1 THEN tv_sec(ie_now) ELSE @]
     IN  ie_path' = [ie_path EXCEPT ![p] =
           IF n < FLAKY_PATHFAIL_THRESHOLD THEN counted
           ELSE [counted EXCEPT !.cnt = WAITING_TO_CHECK, !.disable = TRUE,
                                !.start = Never, !.dis = Never, !.state = "down"]]
  /\ UNCHANGED <<ie_now, ie_queue, ie_entry, ie_vecs, ie_mutex, ie_chk, ie_thr>>

\* check_path() of a path that answers: it is reinstated unless
\* need_io_err_check() keeps it in PATH_DELAYED.
CheckUp(p) ==
  LET r == ie_path[p]
      keep == r.disable /\ IoRunning /\ count_active_paths
      due == r.cnt = WAITING_TO_CHECK /\ tv_sec(ie_now) - r.dis > GapTime
  IN  /\ ie_vecs = "free" /\ r.state # "gone"
      /\ \/ /\ ~keep
            /\ ie_path' = [ie_path EXCEPT ![p] =
                 [(IF r.disable /\ IoRunning THEN Recovered(r) ELSE r)
                    EXCEPT !.state = "up"]]
            /\ UNCHANGED <<ie_vecs, ie_chk>>
         \/ /\ keep /\ ~due
            /\ ie_path' = [ie_path EXCEPT ![p].state = "delayed"]
            /\ UNCHANGED <<ie_vecs, ie_chk>>
         \/ /\ keep /\ due
            /\ ie_vecs' = "checker"
            /\ ie_chk' = [pc |-> "lookup", p |-> p]
            /\ UNCHANGED ie_path
      /\ UNCHANGED <<ie_now, ie_queue, ie_entry, ie_mutex, ie_thr>>
\* need_io_err_check() that does not look at the result (mutant).
Enqueued_Always(ok) ==
  /\ ie_path' = [ie_path EXCEPT ![ie_chk.p].cnt = IN_CHECKING, ![ie_chk.p].state = "delayed"]
  /\ ie_vecs' = "free"
  /\ ie_chk' = NoCheck
\* need_io_err_check() after enqueue_io_err_stat_by_path() returned: the path
\* is delayed, or reinstated because the enqueueing failed.
Enqueued(ok) ==
  /\ ie_path' = [ie_path EXCEPT ![ie_chk.p] =
       IF ok THEN [@ EXCEPT !.cnt = IN_CHECKING, !.dis = Never, !.state = "delayed"]
       ELSE [Recovered(@) EXCEPT !.state = "up"]]
  /\ ie_vecs' = "free"
  /\ ie_chk' = NoCheck
EnqueueLookup ==
  /\ ie_chk.pc = "lookup" /\ ie_mutex = "free"
  /\ IF find_err_path_by_dev(ie_chk.p) THEN Enqueued(TRUE)
     ELSE ie_chk' = [ie_chk EXCEPT !.pc = "setup"] /\ UNCHANGED <<ie_path, ie_vecs>>
  /\ UNCHANGED <<ie_now, ie_queue, ie_entry, ie_mutex, ie_thr>>
\* alloc_io_err_stat_path() and setup_directio_ctx().
EnqueueSetup ==
  /\ ie_chk.pc = "setup"
  /\ \/ ie_chk' = [ie_chk EXCEPT !.pc = "append"] /\ UNCHANGED <<ie_path, ie_vecs>>
     \/ Enqueued(FALSE)
  /\ UNCHANGED <<ie_now, ie_queue, ie_entry, ie_mutex, ie_thr>>
EnqueueAppend ==
  /\ ie_chk.pc = "append" /\ ie_mutex = "free"
  /\ Enqueued(TRUE)
  /\ ie_queue' = Append(ie_queue, ie_chk.p)
  /\ ie_entry' = [ie_entry EXCEPT ![ie_chk.p] = NewEntry]
  /\ UNCHANGED <<ie_now, ie_mutex, ie_thr>>
CheckDown(p) ==
  /\ ie_vecs = "free" /\ ie_path[p].state \notin {"gone", "down"}
  /\ ie_path' = [ie_path EXCEPT ![p].state = "down"]
  /\ UNCHANGED <<ie_now, ie_queue, ie_entry, ie_vecs, ie_mutex, ie_chk, ie_thr>>
\* A path is removed and found again; its entry stays in the queue.
RemovePath(p) ==
  /\ ie_vecs = "free" /\ ie_path[p].state # "gone"
  /\ ie_path' = [ie_path EXCEPT ![p] = [NewPath EXCEPT !.state = "gone"]]
  /\ UNCHANGED <<ie_now, ie_queue, ie_entry, ie_vecs, ie_mutex, ie_chk, ie_thr>>
AddPath(p) ==
  /\ ie_vecs = "free" /\ ie_path[p].state = "gone"
  /\ ie_path' = [ie_path EXCEPT ![p] = NewPath]
  /\ UNCHANGED <<ie_now, ie_queue, ie_entry, ie_vecs, ie_mutex, ie_chk, ie_thr>>

(******************************* the thread ********************************)
\* From setup_map(), with vecs->lock; it waits for the flag the thread sets.
start_io_err_stat_thread ==
  /\ ie_vecs = "free" /\ ie_thr.pc = "off"
  /\ ie_thr' = [pc |-> "idle", i |-> 0]
  /\ UNCHANGED <<ie_now, ie_path, ie_queue, ie_entry, ie_vecs, ie_mutex, ie_chk>>

\* No request is sent in the last IOTIMEOUT_SEC of a sample.
send_too_late(e) == e.start # Never /\ tv_sec(ie_now - e.start) + IoTimeout >= SampleTime
\* A context whose request could not be submitted looks like one in use.
send_batch_async_ios(e, submitted) ==
  IF send_too_late(e) THEN e
  ELSE LET sent == IF e.io # Never \/ e.nr >= IoMaxRequests THEN e
                   ELSE [e EXCEPT !.io = ie_now,
                                  !.kern = IF submitted THEN @ + 1 ELSE @,
                                  !.nr = IF submitted THEN @ + 1 ELSE @]
       IN  [sent EXCEPT !.start = IF @ = Never THEN ie_now ELSE @]
\* A completion is matched by the address of its context, so that the late
\* one of a request given up on counts for the request that came after it.
handle_async_io_done_event(e, good) ==
  [e EXCEPT !.kern = @ - 1, !.io = Never, !.err = IF good THEN @ ELSE @ + 1]
\* res: what io_getevents() returns of this entry's context.
process_async_ios_event(e, res) ==
  IF res = "none" THEN e ELSE handle_async_io_done_event(e, res = "good")
\* canceled: io_cancel() took the request back.
try_to_cancel_timeout_io(e, canceled) ==
  IF e.io = Never \/ tv_sec(ie_now - e.io) <= IoTimeout THEN e
  ELSE [e EXCEPT !.io = Never, !.err = @ + 1,
                 !.kern = IF canceled /\ @ > 0 THEN @ - 1 ELSE @]

ServiceStart ==
  /\ ie_thr.pc = "idle" /\ ie_mutex = "free"
  /\ ie_mutex' = "thread"
  /\ ie_thr' = [pc |-> "loop", i |-> 1]
  /\ UNCHANGED <<ie_now, ie_path, ie_queue, ie_entry, ie_vecs, ie_chk>>
\* The body of service_paths() up to poll_io_err_stat() for one entry, at one
\* time of the clock. The time-outs of all entries are polled with each one.
ServicePath ==
  /\ ie_thr.pc = "loop" /\ ie_thr.i <= Len(ie_queue)
  /\ \E submitted, canceled \in BOOLEAN, res \in {"none", "good", "bad"} :
       LET p == ie_queue[ie_thr.i]
           sent == send_batch_async_ios(ie_entry[p], submitted)
           done == process_async_ios_event(sent, res)
           all == [ie_entry EXCEPT ![p] = done]
       IN  /\ res # "none" => sent.kern > 0
           /\ ie_entry' = [q \in IoPaths |->
                IF find_err_path_by_dev(q) THEN try_to_cancel_timeout_io(all[q], canceled)
                ELSE all[q]]
           /\ ie_thr' = IF tv_sec(ie_now - done.start) >= SampleTime
                        THEN [ie_thr EXCEPT !.pc = "evaluate"]
                        ELSE [ie_thr EXCEPT !.i = @ + 1]
  /\ UNCHANGED <<ie_now, ie_path, ie_queue, ie_vecs, ie_mutex, ie_chk>>
\* The rest of poll_io_err_stat() and delete_io_err_stat_by_addr(). The next
\* entry moves to the slot of the deleted one and is skipped in this round.
EvaluatePath ==
  LET p == ie_queue[ie_thr.i]
      e == ie_entry[p]
      good == IF e.nr = 0 THEN TRUE ELSE e.err * 1000 <= ErrRate * e.nr
      r == ie_path[p]
  IN  /\ ie_thr.pc = "evaluate" /\ ie_vecs = "free"
      /\ ie_path' = [ie_path EXCEPT ![p] =
           IF r.state = "gone" THEN r
           ELSE IF ~good /\ count_active_paths
           THEN [r EXCEPT !.cnt = WAITING_TO_CHECK, !.disable = TRUE, !.dis = tv_sec(ie_now)]
           ELSE Recovered(r)]
      /\ ie_queue' = RemoveAt(ie_queue, ie_thr.i)
      /\ ie_entry' = [ie_entry EXCEPT ![p] = NewEntry]
      /\ ie_thr' = [pc |-> "loop", i |-> ie_thr.i + 1]
      /\ UNCHANGED <<ie_now, ie_vecs, ie_mutex, ie_chk>>
ServiceEnd ==
  /\ ie_thr.pc = "loop" /\ ie_thr.i > Len(ie_queue)
  /\ ie_mutex' = "free"
  /\ ie_thr' = [pc |-> "idle", i |-> 0]
  /\ UNCHANGED <<ie_now, ie_path, ie_queue, ie_entry, ie_vecs, ie_chk>>
\* stop_io_err_stat_thread() at the daemon's end, the checker being gone: the
\* thread is canceled in pselect() or when it has got vecs->lock.
stop_io_err_stat_thread ==
  /\ ie_thr.pc \in {"idle", "evaluate"} /\ ie_vecs = "free"
  /\ ie_thr' = [pc |-> "stopped", i |-> 0]
  /\ ie_queue' = <<>> /\ ie_entry' = [p \in IoPaths |-> NewEntry]
  /\ ie_path' = [p \in IoPaths |-> [NewPath EXCEPT !.state = "gone"]]
  /\ UNCHANGED <<ie_now, ie_vecs, ie_mutex, ie_chk>>
IoTick ==
  /\ ie_now < IoMaxTime
  /\ ie_now' = ie_now + 1
  /\ UNCHANGED <<ie_path, ie_queue, ie_entry, ie_vecs, ie_mutex, ie_chk, ie_thr>>

Checker == EnqueueLookup \/ EnqueueSetup \/ EnqueueAppend
Thread == ServiceStart \/ ServicePath \/ EvaluatePath \/ ServiceEnd
IoNext ==
  \/ \E p \in IoPaths :
       \/ io_err_stat_handle_pathfail(p) \/ CheckUp(p) \/ CheckDown(p)
       \/ RemovePath(p) \/ (ie_thr.pc # "stopped" /\ AddPath(p))
  \/ Checker \/ Thread \/ IoTick
  \/ start_io_err_stat_thread \/ stop_io_err_stat_thread

\* The threads are scheduled, and who waits for a lock that is released again
\* and again gets it.
IoSpec ==
  /\ IoInit /\ [][IoNext]_ie_vars
  /\ SF_ie_vars(Checker) /\ WF_ie_vars(ServiceStart \/ ServicePath \/ ServiceEnd)
  /\ SF_ie_vars(EvaluatePath)

(****************************** properties *********************************)
(***************************************************************************)
(* A path that check_path() keeps delayed because it is being sampled      *)
(* (PATH_IO_ERR_IN_CHECKING) is in the thread's queue. Nobody else takes   *)
(* it out of that state, so that a path without an entry would stay out of *)
(* use for good, although the lookup and the insertion of an entry are not *)
(* one critical section and entries outlive the paths they are for.        *)
(***************************************************************************)
CheckedIsQueued ==
  \A p \in IoPaths : ie_path[p].cnt = IN_CHECKING =>
    /\ ie_path[p].disable
    /\ find_err_path_by_dev(p)

(***************************************************************************)
(* The comment in send_batch_async_ios(), "Give a free time for all IO to  *)
(* complete or timeout": when poll_io_err_stat() computes the error rate,  *)
(* every request has been answered or has been counted as timed out. It    *)
(* need not be: a request that was sent just before sending ended is up to *)
(* a second short of its time-out, since time-outs and the end of the      *)
(* sample are both tested on differences without their fractions.          *)
(***************************************************************************)
AllAnswered ==
  ie_thr.pc = "evaluate" => ie_entry[ie_queue[ie_thr.i]].io = Never

(***************************************************************************)
(* The comment in check_path() about the paths that are delayed by this    *)
(* method: "to reschedule as soon as possible, so that this path can be    *)
(* recovered in time": need_io_err_check() returns. It need not: the       *)
(* checker waits for paths->mutex with vecs->lock held while the thread    *)
(* waits for vecs->lock with paths->mutex held.                            *)
(***************************************************************************)
CheckReturns == ie_chk.pc # "idle" ~> ie_chk.pc = "idle"
=============================================================================
