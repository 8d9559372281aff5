----------------------------- MODULE EventProofs -----------------------------
(***************************************************************************)
(* Proofs about the events that multipathd learns of. Waiter, one thread   *)
(* per map, for any number of threads, events and faults: no thread works  *)
(* for a map that is not its own, and no event is lost. DmEvents, one      *)
(* polling thread, for any set of maps and any number of events: no event  *)
(* of a watched map is lost between reading the event numbers, arming the  *)
(* poll, and adding, removing and refreshing maps. UeventQueue, for any    *)
(* devices and any number of uevents: filtering and merging keep the order *)
(* of the uevents where it matters.                                        *)
(***************************************************************************)
EXTENDS Waiter, DmEvents, UeventQueue, SequenceTheorems, WellFoundedInduction, TLAPS

-----------------------------------------------------------------------------
(***************************************************************************)
(* WAITER                                                                  *)
(***************************************************************************)
USE DEF MapUp

(***************************************************************************)
(* The inductive invariant                                                 *)
(***************************************************************************)
Places ==
  {"none", "start", "prepared", "run", "ioctl", "woken", "failed", "interrupted",
   "sleep", "event", "locked", "updated", "end"}

WtTypeOK ==
  /\ wt_kern \in [gen : Nat, nr : Nat, state : {"up", "gone"}]
  /\ wt_view \in [gen : Nat, nr : Nat, state : {"up", "gone"}]
  /\ wt_mpp \in Waiters \cup {NoMap, NoWaiter}
  /\ wt_pc \in [Waiters -> Places]
  /\ wt_nr \in [Waiters -> Int]
  /\ wt_cancel \subseteq Waiters /\ wt_counted \subseteq Waiters
  /\ wt_sleeps \in [Waiters -> Nat] /\ wt_born \in [Waiters -> Nat]
  /\ wt_stop \in [at : {"idle", "lock", "kill", "cancel", "remove"},
                  thread : Waiters \cup {NoWaiter}]

\* vecs->lock is held by the thread that updates the map or by the one that
\* stops a thread, and the map has no waiter while its thread is stopped.
VecsHeld ==
  /\ \A w \in Waiters : wt_pc[w] = "locked" <=> wt_vecs = w
  /\ wt_stop.at # "idle" <=> wt_vecs = Other
  /\ wt_stop.at # "idle" => wt_mpp = NoWaiter
  /\ wt_stop.at \in {"lock", "kill", "cancel"} => wt_stop.thread \in Waiters

\* A thread that runs and is not canceled is the waiter of the map, or is
\* about to be canceled by a thread that holds vecs->lock.
OwnMap ==
  \A w \in Waiters : wt_pc[w] \notin {"none", "end"} /\ w \notin wt_cancel
    => wt_mpp = w \/ (wt_stop.thread = w /\ wt_stop.at \in {"lock", "kill", "cancel"})

\* As long as the map a thread was started for exists, the thread does not
\* count more events than there were, and counts another one only when there
\* was another one.
NotAhead ==
  \A w \in Waiters :
    /\ wt_born[w] <= wt_kern.gen
    /\ wt_pc[w] = "none" => w \notin wt_counted /\ wt_nr[w] = 0
    /\ wt_pc[w] = "ioctl" => wt_born[w] <= wt_sleeps[w] /\ wt_sleeps[w] <= wt_kern.gen
    /\ wt_kern.gen = wt_born[w] =>
         /\ wt_nr[w] <= wt_kern.nr
         /\ wt_pc[w] = "woken" => wt_nr[w] < wt_kern.nr
         /\ wt_pc[w] = "ioctl" /\ ~MapUp => wt_nr[w] < wt_kern.nr

\* EventsCounted on the way back from a failed ioctl, too, and right after
\* the status was read.
CountedInLoop ==
  \A w \in Waiters :
    wt_mpp = w /\ wt_kern.gen = wt_born[w] =>
      /\ wt_pc[w] = "updated" => wt_nr[w] <= wt_view.nr
      /\ (/\ w \in wt_counted
          /\ wt_pc[w] \in {"sleep", "start", "prepared", "run", "ioctl", "failed", "interrupted"})
           => wt_nr[w] <= wt_view.nr

WtInv == WtTypeOK /\ VecsHeld /\ OwnMap /\ NotAhead /\ CountedInLoop
-----------------------------------------------------------------------------
\* No thread is one of the other things a waiter or a lock's holder may be.
LEMMA Names ==
  /\ NoMap # NoWaiter /\ Other # Free
  /\ \A w \in Waiters : w # NoMap /\ w # NoWaiter /\ w # Other /\ w # Free
BY WaiterConstants DEF NoMap, NoWaiter, Other, Free

\* No thread is started and the lock is free.
LEMMA WtInitInv == WtInit => WtInv
<1> SUFFICES ASSUME WtInit PROVE WtInv
  OBVIOUS
<1> USE Names DEF WtInit
<1>1. WtTypeOK BY DEF WtTypeOK, Places
<1>2. VecsHeld /\ OwnMap BY DEF VecsHeld, OwnMap
<1>3. NotAhead
  <2>1. wt_kern.gen = 1
    OBVIOUS
  <2>2. ASSUME NEW w \in Waiters
        PROVE  wt_born[w] = 0 /\ wt_nr[w] = 0 /\ wt_pc[w] = "none" /\ w \notin wt_counted
    OBVIOUS
  <2>3. ASSUME NEW w \in Waiters
        PROVE  wt_born[w] <= wt_kern.gen
    BY <2>1, <2>2
  <2>4. ASSUME NEW w \in Waiters
        PROVE  wt_kern.gen # wt_born[w]
    BY <2>1, <2>2
  <2> HIDE DEF WtInit
  <2> QED BY <2>3, <2>4, <2>2 DEF NotAhead
<1>4. CountedInLoop BY DEF CountedInLoop
<1> QED BY <1>1, <1>2, <1>3, <1>4 DEF WtInv

\* start_waiter_thread() starts a thread that never ran, or none.
LEMMA StartPicks ==
  ASSUME WtTypeOK, start_waiter_thread
  PROVE  \/ \E w \in Waiters :
             /\ wt_pc[w] = "none" /\ wt_pc' = [wt_pc EXCEPT ![w] = "start"] /\ wt_mpp' = w
             /\ wt_born' = [wt_born EXCEPT ![w] = wt_kern.gen]
         \/ wt_mpp' = NoWaiter /\ wt_pc' = wt_pc /\ wt_born' = wt_born
<1> DEFINE w == CHOOSE w \in Waiters : wt_pc[w] = "none"
<1>1. (\E v \in Waiters : wt_pc[v] = "none") => w \in Waiters /\ wt_pc[w] = "none"
  OBVIOUS
<1> HIDE DEF w
<1> QED BY <1>1 DEF start_waiter_thread, GoTo, w

\* An event of the kernel keeps the generation and counts, or begins a new one.
LEMMA KernelMoves ==
  ASSUME WtTypeOK, WtKernelEvent
  PROVE  /\ wt_kern' \in [gen : Nat, nr : Nat, state : {"up", "gone"}]
         /\ \/ wt_kern'.gen = wt_kern.gen /\ wt_kern'.nr = wt_kern.nr + 1
            \/ wt_kern'.gen = wt_kern.gen + 1 /\ wt_kern'.nr = 0 /\ wt_kern'.state = "up"
         /\ UNCHANGED <<wt_born, wt_mpp, wt_view, wt_pc, wt_nr, wt_cancel, wt_sleeps,
                        wt_counted, wt_vecs, wt_stop>>
<1>1. ASSUME NEW s \in {"up", "gone"}, wt_kern' = [wt_kern EXCEPT !.nr = @ + 1, !.state = s]
      PROVE  /\ wt_kern' \in [gen : Nat, nr : Nat, state : {"up", "gone"}]
             /\ wt_kern'.gen = wt_kern.gen /\ wt_kern'.nr = wt_kern.nr + 1
  <2>1. wt_kern'.gen = wt_kern.gen /\ wt_kern'.nr = wt_kern.nr + 1
    BY <1>1 DEF WtTypeOK
  <2>2. wt_kern' = [gen |-> wt_kern.gen, nr |-> wt_kern.nr + 1, state |-> s]
    BY <1>1 DEF WtTypeOK
  <2> QED BY <2>1, <2>2 DEF WtTypeOK
<1>2. ASSUME wt_kern' = [gen |-> wt_kern.gen + 1, nr |-> 0, state |-> "up"]
      PROVE  /\ wt_kern' \in [gen : Nat, nr : Nat, state : {"up", "gone"}]
             /\ wt_kern'.gen = wt_kern.gen + 1 /\ wt_kern'.nr = 0 /\ wt_kern'.state = "up"
  BY <1>2 DEF WtTypeOK
<1> QED BY <1>1, <1>2 DEF WtKernelEvent

\* dm_geteventnr() returns -1 or the kernel's number.
LEMMA EventNr ==
  ASSUME WtTypeOK PROVE dm_geteventnr \in Int /\ dm_geteventnr <= wt_kern.nr
BY DEF WtTypeOK, dm_geteventnr, MapUp

\* Every step keeps the types; VecsHeld tells that the target of a stop is a thread.
LEMMA WtTypes == ASSUME WtTypeOK, VecsHeld, [WtNext]_wt_vars PROVE WtTypeOK'
<1> USE Names DEF WtTypeOK, VecsHeld, Places
<1>1. CASE start_waiter_thread BY <1>1, StartPicks DEF start_waiter_thread
<1>2. CASE StopBegins BY <1>2 DEF StopBegins
<1>3. CASE StopLocks BY <1>3 DEF StopLocks
<1>4. CASE StopKills BY <1>4 DEF StopKills, GoTo
<1>5. CASE StopCancels BY <1>5 DEF StopCancels
<1>6. CASE StopRemoves BY <1>6 DEF StopRemoves
<1>7. CASE WtKernelEvent BY <1>7, KernelMoves
<1>8. ASSUME NEW w \in Waiters, WaitStart(w) PROVE WtTypeOK'
  BY <1>8, EventNr DEF WaitStart, GoTo
<1>9. ASSUME NEW w \in Waiters, WaitTest(w) PROVE WtTypeOK'
  BY <1>9 DEF WaitTest, wt_shared, TestCancel, GoTo
<1>10. ASSUME NEW w \in Waiters, WaitIoctl(w) PROVE WtTypeOK'
  BY <1>10 DEF WaitIoctl, wt_shared, GoTo
<1>11. ASSUME NEW w \in Waiters, WaitWakes(w) PROVE WtTypeOK'
  BY <1>11 DEF WaitWakes, wt_shared, GoTo
<1>12. ASSUME NEW w \in Waiters, WaitCounts(w) PROVE WtTypeOK'
  BY <1>12 DEF WaitCounts, wt_shared, TestCancel, GoTo
<1>13. ASSUME NEW w \in Waiters, WaitInterrupted(w) PROVE WtTypeOK'
  BY <1>13 DEF WaitInterrupted, wt_shared, TestCancel, GoTo
<1>14. ASSUME NEW w \in Waiters, WaitCheckLock(w) PROVE WtTypeOK'
  BY <1>14 DEF WaitCheckLock, wt_shared, TestCancel, GoTo
<1>15. ASSUME NEW w \in Waiters, WaitSleeps(w) PROVE WtTypeOK'
  BY <1>15 DEF WaitSleeps, wt_shared, TestCancel, GoTo
<1>16. ASSUME NEW w \in Waiters, WaitLock(w) PROVE WtTypeOK'
  BY <1>16 DEF WaitLock, GoTo
<1>17. ASSUME NEW w \in Waiters, WaitCanceled(w) PROVE WtTypeOK'
  BY <1>17 DEF WaitCanceled, GoTo
<1>18. ASSUME NEW w \in Waiters, WaitUpdate(w) PROVE WtTypeOK'
  BY <1>18 DEF WaitUpdate, GoTo
<1>19. ASSUME NEW w \in Waiters, WaitCompare(w) PROVE WtTypeOK'
  BY <1>19, EventNr DEF WaitCompare, wt_shared, GoTo
<1>20. CASE UNCHANGED wt_vars BY <1>20 DEF wt_vars
<1> QED BY <1>1, <1>2, <1>3, <1>4, <1>5, <1>6, <1>7, <1>8, <1>9, <1>10, <1>11, <1>12,
     <1>13, <1>14, <1>15, <1>16, <1>17, <1>18, <1>19, <1>20 DEF WtNext, StopStep,
     WaiterStep

\* vecs->lock has one holder, and the map has no waiter while it is stopped.
LEMMA VecsStep == ASSUME WtTypeOK, VecsHeld, [WtNext]_wt_vars PROVE VecsHeld'
<1> USE Names DEF WtTypeOK, VecsHeld
<1>1. CASE start_waiter_thread BY <1>1, StartPicks DEF start_waiter_thread
<1>2. CASE StopBegins BY <1>2 DEF StopBegins
<1>3. CASE StopLocks BY <1>3 DEF StopLocks
<1>4. CASE StopKills BY <1>4 DEF StopKills, GoTo
<1>5. CASE StopCancels BY <1>5 DEF StopCancels
<1>6. CASE StopRemoves BY <1>6 DEF StopRemoves
<1>7. CASE WtKernelEvent BY <1>7, KernelMoves
<1>8. ASSUME NEW w \in Waiters, WaitStart(w) PROVE VecsHeld'
  BY <1>8, EventNr DEF WaitStart, GoTo
<1>9. ASSUME NEW w \in Waiters, WaitTest(w) PROVE VecsHeld'
  BY <1>9 DEF WaitTest, wt_shared, TestCancel, GoTo
<1>10. ASSUME NEW w \in Waiters, WaitIoctl(w) PROVE VecsHeld'
  BY <1>10 DEF WaitIoctl, wt_shared, GoTo
<1>11. ASSUME NEW w \in Waiters, WaitWakes(w) PROVE VecsHeld'
  BY <1>11 DEF WaitWakes, wt_shared, GoTo
<1>12. ASSUME NEW w \in Waiters, WaitCounts(w) PROVE VecsHeld'
  BY <1>12 DEF WaitCounts, wt_shared, TestCancel, GoTo
<1>13. ASSUME NEW w \in Waiters, WaitInterrupted(w) PROVE VecsHeld'
  BY <1>13 DEF WaitInterrupted, wt_shared, TestCancel, GoTo
<1>14. ASSUME NEW w \in Waiters, WaitCheckLock(w) PROVE VecsHeld'
  BY <1>14 DEF WaitCheckLock, wt_shared, TestCancel, GoTo
<1>15. ASSUME NEW w \in Waiters, WaitSleeps(w) PROVE VecsHeld'
  BY <1>15 DEF WaitSleeps, wt_shared, TestCancel, GoTo
<1>16. ASSUME NEW w \in Waiters, WaitLock(w) PROVE VecsHeld'
  BY <1>16 DEF WaitLock, GoTo
<1>17. ASSUME NEW w \in Waiters, WaitCanceled(w) PROVE VecsHeld'
  BY <1>17 DEF WaitCanceled, GoTo
<1>18. ASSUME NEW w \in Waiters, WaitUpdate(w) PROVE VecsHeld'
  BY <1>18 DEF WaitUpdate, GoTo
<1>19. ASSUME NEW w \in Waiters, WaitCompare(w) PROVE VecsHeld'
  BY <1>19, EventNr DEF WaitCompare, wt_shared, GoTo
<1>20. CASE UNCHANGED wt_vars BY <1>20 DEF wt_vars
<1> QED BY <1>1, <1>2, <1>3, <1>4, <1>5, <1>6, <1>7, <1>8, <1>9, <1>10, <1>11, <1>12,
     <1>13, <1>14, <1>15, <1>16, <1>17, <1>18, <1>19, <1>20 DEF WtNext, StopStep,
     WaiterStep

\* A thread loses its map only to the thread that cancels it, or ends.
LEMMA OwnMapStep == ASSUME WtTypeOK, VecsHeld, OwnMap, [WtNext]_wt_vars PROVE OwnMap'
<1> USE Names DEF WtTypeOK, VecsHeld, OwnMap
<1>1. CASE start_waiter_thread BY <1>1, StartPicks DEF start_waiter_thread
<1>2. CASE StopBegins BY <1>2 DEF StopBegins
<1>3. CASE StopLocks BY <1>3 DEF StopLocks
<1>4. CASE StopKills BY <1>4 DEF StopKills, GoTo
<1>5. CASE StopCancels BY <1>5 DEF StopCancels
<1>6. CASE StopRemoves BY <1>6 DEF StopRemoves
<1>7. CASE WtKernelEvent BY <1>7, KernelMoves
<1>8. ASSUME NEW w \in Waiters, WaitStart(w) PROVE OwnMap'
  BY <1>8, EventNr DEF WaitStart, GoTo
<1>9. ASSUME NEW w \in Waiters, WaitTest(w) PROVE OwnMap'
  BY <1>9 DEF WaitTest, wt_shared, TestCancel, GoTo
<1>10. ASSUME NEW w \in Waiters, WaitIoctl(w) PROVE OwnMap'
  BY <1>10 DEF WaitIoctl, wt_shared, GoTo
<1>11. ASSUME NEW w \in Waiters, WaitWakes(w) PROVE OwnMap'
  BY <1>11 DEF WaitWakes, wt_shared, GoTo
<1>12. ASSUME NEW w \in Waiters, WaitCounts(w) PROVE OwnMap'
  BY <1>12 DEF WaitCounts, wt_shared, TestCancel, GoTo
<1>13. ASSUME NEW w \in Waiters, WaitInterrupted(w) PROVE OwnMap'
  BY <1>13 DEF WaitInterrupted, wt_shared, TestCancel, GoTo
<1>14. ASSUME NEW w \in Waiters, WaitCheckLock(w) PROVE OwnMap'
  BY <1>14 DEF WaitCheckLock, wt_shared, TestCancel, GoTo
<1>15. ASSUME NEW w \in Waiters, WaitSleeps(w) PROVE OwnMap'
  BY <1>15 DEF WaitSleeps, wt_shared, TestCancel, GoTo
<1>16. ASSUME NEW w \in Waiters, WaitLock(w) PROVE OwnMap'
  BY <1>16 DEF WaitLock, GoTo
<1>17. ASSUME NEW w \in Waiters, WaitCanceled(w) PROVE OwnMap'
  BY <1>17 DEF WaitCanceled, GoTo
<1>18. ASSUME NEW w \in Waiters, WaitUpdate(w) PROVE OwnMap'
  BY <1>18 DEF WaitUpdate, GoTo
<1>19. ASSUME NEW w \in Waiters, WaitCompare(w) PROVE OwnMap'
  BY <1>19, EventNr DEF WaitCompare, wt_shared, GoTo
<1>20. CASE UNCHANGED wt_vars BY <1>20 DEF wt_vars
<1> QED BY <1>1, <1>2, <1>3, <1>4, <1>5, <1>6, <1>7, <1>8, <1>9, <1>10, <1>11, <1>12,
     <1>13, <1>14, <1>15, <1>16, <1>17, <1>18, <1>19, <1>20 DEF WtNext, StopStep,
     WaiterStep

\* No step makes a thread count an event that has not happened.
LEMMA NotAheadStep == ASSUME WtTypeOK, VecsHeld, NotAhead, [WtNext]_wt_vars PROVE NotAhead'
<1> USE Names DEF WtTypeOK, VecsHeld, NotAhead
<1>1. CASE start_waiter_thread BY <1>1, StartPicks DEF start_waiter_thread
<1>2. CASE StopBegins BY <1>2 DEF StopBegins
<1>3. CASE StopLocks BY <1>3 DEF StopLocks
<1>4. CASE StopKills BY <1>4 DEF StopKills, GoTo
<1>5. CASE StopCancels BY <1>5 DEF StopCancels
<1>6. CASE StopRemoves BY <1>6 DEF StopRemoves
<1>7. CASE WtKernelEvent
  <2> SUFFICES ASSUME NEW v \in Waiters PROVE NotAhead!(v)'
    BY DEF NotAhead
  <2> QED BY <1>7, KernelMoves
<1>8. ASSUME NEW w \in Waiters, WaitStart(w) PROVE NotAhead'
  BY <1>8, EventNr DEF WaitStart, GoTo
<1>9. ASSUME NEW w \in Waiters, WaitTest(w) PROVE NotAhead'
  BY <1>9 DEF WaitTest, wt_shared, TestCancel, GoTo
<1>10. ASSUME NEW w \in Waiters, WaitIoctl(w) PROVE NotAhead'
  BY <1>10 DEF WaitIoctl, wt_shared, GoTo
<1>11. ASSUME NEW w \in Waiters, WaitWakes(w) PROVE NotAhead'
  BY <1>11 DEF WaitWakes, wt_shared, GoTo
<1>12. ASSUME NEW w \in Waiters, WaitCounts(w) PROVE NotAhead'
  BY <1>12 DEF WaitCounts, wt_shared, TestCancel, GoTo
<1>13. ASSUME NEW w \in Waiters, WaitInterrupted(w) PROVE NotAhead'
  BY <1>13 DEF WaitInterrupted, wt_shared, TestCancel, GoTo
<1>14. ASSUME NEW w \in Waiters, WaitCheckLock(w) PROVE NotAhead'
  BY <1>14 DEF WaitCheckLock, wt_shared, TestCancel, GoTo
<1>15. ASSUME NEW w \in Waiters, WaitSleeps(w) PROVE NotAhead'
  BY <1>15 DEF WaitSleeps, wt_shared, TestCancel, GoTo
<1>16. ASSUME NEW w \in Waiters, WaitLock(w) PROVE NotAhead'
  BY <1>16 DEF WaitLock, GoTo
<1>17. ASSUME NEW w \in Waiters, WaitCanceled(w) PROVE NotAhead'
  BY <1>17 DEF WaitCanceled, GoTo
<1>18. ASSUME NEW w \in Waiters, WaitUpdate(w) PROVE NotAhead'
  BY <1>18 DEF WaitUpdate, GoTo
<1>19. ASSUME NEW w \in Waiters, WaitCompare(w) PROVE NotAhead'
  BY <1>19, EventNr DEF WaitCompare, wt_shared, GoTo
<1>20. CASE UNCHANGED wt_vars BY <1>20 DEF wt_vars
<1> QED BY <1>1, <1>2, <1>3, <1>4, <1>5, <1>6, <1>7, <1>8, <1>9, <1>10, <1>11, <1>12,
     <1>13, <1>14, <1>15, <1>16, <1>17, <1>18, <1>19, <1>20 DEF WtNext, StopStep,
     WaiterStep

\* No step makes a thread count an event that the status does not show: only
\* the thread of the map itself reads the status anew.
LEMMA CountedStep == ASSUME WtInv, [WtNext]_wt_vars PROVE CountedInLoop'
<1> USE Names DEF WtInv, WtTypeOK, VecsHeld, OwnMap, NotAhead, CountedInLoop
<1>1. CASE start_waiter_thread BY <1>1, StartPicks DEF start_waiter_thread
<1>2. CASE StopBegins BY <1>2 DEF StopBegins
<1>3. CASE StopLocks BY <1>3 DEF StopLocks
<1>4. CASE StopKills BY <1>4 DEF StopKills, GoTo
<1>5. CASE StopCancels BY <1>5 DEF StopCancels
<1>6. CASE StopRemoves BY <1>6 DEF StopRemoves
<1>7. CASE WtKernelEvent BY <1>7, KernelMoves
<1>8. ASSUME NEW w \in Waiters, WaitStart(w) PROVE CountedInLoop'
  BY <1>8, EventNr DEF WaitStart, GoTo
<1>9. ASSUME NEW w \in Waiters, WaitTest(w) PROVE CountedInLoop'
  BY <1>9 DEF WaitTest, wt_shared, TestCancel, GoTo
<1>10. ASSUME NEW w \in Waiters, WaitIoctl(w) PROVE CountedInLoop'
  BY <1>10 DEF WaitIoctl, wt_shared, GoTo
<1>11. ASSUME NEW w \in Waiters, WaitWakes(w) PROVE CountedInLoop'
  BY <1>11 DEF WaitWakes, wt_shared, GoTo
<1>12. ASSUME NEW w \in Waiters, WaitCounts(w) PROVE CountedInLoop'
  BY <1>12 DEF WaitCounts, wt_shared, TestCancel, GoTo
<1>13. ASSUME NEW w \in Waiters, WaitInterrupted(w) PROVE CountedInLoop'
  BY <1>13 DEF WaitInterrupted, wt_shared, TestCancel, GoTo
<1>14. ASSUME NEW w \in Waiters, WaitCheckLock(w) PROVE CountedInLoop'
  BY <1>14 DEF WaitCheckLock, wt_shared, TestCancel, GoTo
<1>15. ASSUME NEW w \in Waiters, WaitSleeps(w) PROVE CountedInLoop'
  BY <1>15 DEF WaitSleeps, wt_shared, TestCancel, GoTo
<1>16. ASSUME NEW w \in Waiters, WaitLock(w) PROVE CountedInLoop'
  BY <1>16 DEF WaitLock, GoTo
<1>17. ASSUME NEW w \in Waiters, WaitCanceled(w) PROVE CountedInLoop'
  BY <1>17 DEF WaitCanceled, GoTo
<1>18. ASSUME NEW w \in Waiters, WaitUpdate(w) PROVE CountedInLoop'
  BY <1>18 DEF WaitUpdate, GoTo
<1>19. ASSUME NEW w \in Waiters, WaitCompare(w) PROVE CountedInLoop'
  BY <1>19, EventNr DEF WaitCompare, wt_shared, GoTo
<1>20. CASE UNCHANGED wt_vars BY <1>20 DEF wt_vars
<1> QED BY <1>1, <1>2, <1>3, <1>4, <1>5, <1>6, <1>7, <1>8, <1>9, <1>10, <1>11, <1>12,
     <1>13, <1>14, <1>15, <1>16, <1>17, <1>18, <1>19, <1>20 DEF WtNext, StopStep,
     WaiterStep

\* The invariant holds in every state.
LEMMA WtInvariant == WtSpec => []WtInv
<1>1. WtInit => WtInv BY WtInitInv
<1>2. WtInv /\ [WtNext]_wt_vars => WtInv'
  BY WtTypes, VecsStep, OwnMapStep, NotAheadStep, CountedStep DEF WtInv
<1> QED BY <1>1, <1>2, PTL DEF WtSpec

\* Whatever step is taken, a canceled thread that has got vecs->lock touches
\* neither the status nor the map: only its own pthread_testcancel() or
\* nothing can happen to the two.
LEMMA WtNoLateUpdate == ASSUME WtInv, [WtNext]_wt_vars PROVE NoLateUpdate
<1> SUFFICES ASSUME NEW v \in Waiters, v \in wt_cancel, wt_pc[v] = "locked"
             PROVE  wt_view' = wt_view /\ wt_mpp' = wt_mpp
  BY DEF NoLateUpdate
<1>1. wt_vecs = v /\ wt_vecs # Free /\ wt_stop.at = "idle"
  BY Names DEF WtInv, VecsHeld
<1>2. ~start_waiter_thread /\ ~StopBegins /\ ~StopRemoves
  BY <1>1 DEF start_waiter_thread, StopBegins, StopRemoves
<1>3. CASE StopLocks \/ StopKills \/ StopCancels \/ WtKernelEvent
  BY <1>3 DEF StopLocks, StopKills, StopCancels, WtKernelEvent
<1>4. ASSUME NEW w \in Waiters, WaiterStep(w) PROVE wt_view' = wt_view /\ wt_mpp' = wt_mpp
  <2>1. ~WaitUpdate(w)
    <3>1. wt_pc[w] = "locked" => w = v BY <1>1 DEF WtInv, VecsHeld
    <3> QED BY <3>1 DEF WaitUpdate
  <2> QED
    BY <1>4, <2>1 DEF WaiterStep, WaitStart, WaitTest, WaitIoctl, WaitWakes, WaitCounts,
       WaitInterrupted, WaitCheckLock, WaitSleeps, WaitLock, WaitCanceled, WaitCompare, wt_shared
<1>5. CASE UNCHANGED wt_vars BY <1>5 DEF wt_vars
<1> QED BY <1>2, <1>3, <1>4, <1>5 DEF WtNext, StopStep

\* For any number of threads, whenever they are canceled and however often the
\* kernel loses the map and gets it again: a thread whose map was removed
\* never touches the map that took its name (waiteventloop() tests for the
\* cancellation under vecs->lock), and a thread that goes to wait again does
\* not count an event that the status it has read does not show.
THEOREM WaitersSoundTheorem == WtSpec => WaitersSound
<1>1. WtInv' => EventsCounted' BY DEF WtInv, CountedInLoop, EventsCounted
<1>2. WtInv /\ WtInv' /\ [WtNext]_wt_vars => [NoLateUpdate /\ EventsCounted']_wt_vars
  BY <1>1, WtNoLateUpdate
<1> QED BY <1>2, WtInvariant, PTL DEF WtSpec, WaitersSound

-----------------------------------------------------------------------------
(***************************************************************************)
(* DMEVENTS                                                                *)
(***************************************************************************)
(***************************************************************************)
(* The inductive invariant                                                 *)
(***************************************************************************)
EventNames == [inc : Nat, nr : Nat]

DmTypeOK ==
  /\ changes \in Nat /\ readable \in BOOLEAN /\ unread \in BOOLEAN
  /\ kmap \in [DmMaps -> EventNames] /\ mpvec \in [DmMaps -> EventNames]
  /\ events \in [DmMaps -> [inc : Nat, nr : Nat, action : {"nothing", "update", "remove"}]]
  /\ adder.pc \in {"idle", "insert", "setup"}
  /\ adder.pc = "idle" <=> adder = Idle
  /\ adder.pc # "idle" => adder.m \in DmMaps
  /\ adder.pc = "insert" => adder.inc \in Nat /\ adder.nr \in Nat
  /\ poller.pc \in {"poll", "list", "mark", "scan", "handle", "unwatch"}
  /\ poller.pc = "mark" => poller.names \in [DmMaps -> EventNames]
  /\ poller.pc = "handle" => poller.m \in DmMaps /\ poller.action \in {"update", "remove"}
  /\ poller.pc = "unwatch" => poller.m \in DmMaps

\* What is known of a map never exceeds what the kernel has: neither its
\* incarnation nor, for the present one, its event number.
NotBeyond(r, m) ==
  r.inc <= changes /\ (On(kmap[m]) /\ r.inc = kmap[m].inc => r.nr <= kmap[m].nr)

Bounded ==
  \A m \in DmMaps :
    /\ kmap[m].inc <= changes
    /\ NotBeyond(mpvec[m], m) /\ NotBeyond(events[m], m)
    /\ poller.pc = "mark" => NotBeyond(poller.names[m], m)
    /\ adder.pc = "insert" /\ adder.m = m => NotBeyond(adder, m)

\* The poller leaves no entry with something to do when it goes to poll.
NothingToDo ==
  poller.pc \in {"poll", "list", "mark"} =>
    \A m \in DmMaps : On(events[m]) => events[m].action = "nothing"

\* Until the poll is to return again, the list that was read is that of the
\* kernel: the poll was armed before it was read.
ListFresh ==
  poller.pc = "mark" /\ ~readable => \A m \in DmMaps : poller.names[m] = kmap[m]

\* Somebody is about to refresh map m.
Refreshing(m) ==
  \/ events[m].action = "update"
  \/ poller.pc = "handle" /\ poller.m = m /\ poller.action = "update"
  \/ adder.pc = "setup" /\ adder.m = m

\* The daemon has the present map, and the entry's number is that of it.
Tracked(m) == Registered(m) /\ events[m].inc = kmap[m].inc

\* The daemon has seen the events that the entry counts, ...
EntryNotAhead ==
  \A m \in DmMaps : Tracked(m) => mpvec[m].nr >= events[m].nr \/ Refreshing(m)

\* ... and those that it has not seen make the poll return, or will be read.
Noticed ==
  \A m \in DmMaps : Tracked(m) =>
    \/ mpvec[m].nr = kmap[m].nr \/ Refreshing(m)
    \/ readable \/ unread \/ poller.pc \in {"list", "mark"}

DmInv == DmTypeOK /\ Bounded /\ NothingToDo /\ ListFresh /\ EntryNotAhead /\ Noticed
-----------------------------------------------------------------------------
\* The poller polls and nothing is there.
LEMMA DmInitInv == DmInit => DmInv
<1> SUFFICES ASSUME DmInit PROVE DmInv
  OBVIOUS
<1> USE DEF DmInit, None, NoEvent, Idle
<1>1. DmTypeOK BY DEF DmTypeOK, EventNames
<1>2. Bounded
  <2>1. ASSUME NEW m \in DmMaps
        PROVE  /\ kmap[m].inc <= changes /\ mpvec[m].inc <= changes /\ events[m].inc <= changes
               /\ ~On(kmap[m])
    BY DEF On
  <2>2. poller.pc = "poll" /\ adder.pc = "idle"
    OBVIOUS
  <2> HIDE DEF DmInit
  <2> QED BY <2>1, <2>2 DEF Bounded, NotBeyond
<1>3. NothingToDo /\ ListFresh BY DEF NothingToDo, ListFresh
<1>4. EntryNotAhead /\ Noticed BY DEF EntryNotAhead, Noticed, Tracked, Registered, On
<1> QED BY <1>1, <1>2, <1>3, <1>4 DEF DmInv

\* wait_for_events() goes on with the number it has read, or removes the map.
Watching(m) ==
  /\ adder = Idle /\ UNCHANGED <<kmap, changes, readable, events, poller, unread>>
  /\ \/ /\ On(kmap[m]) /\ mpvec' = mpvec
        /\ adder' = [pc |-> "insert", m |-> m, nr |-> kmap[m].nr, inc |-> kmap[m].inc]
     \/ mpvec' = [mpvec EXCEPT ![m] = None] /\ adder' = adder

LEMMA WatchIs ==
  ASSUME NEW m \in DmMaps, NEW ok \in BOOLEAN, watch_dmevents(m, ok)
  PROVE  Watching(m)
<1>1. CASE ok = TRUE BY <1>1 DEF watch_dmevents, Watching
<1>2. CASE ok = FALSE BY <1>2 DEF watch_dmevents, Watching
<1> QED BY <1>1, <1>2

\* What dm_get_events() makes of an entry: it takes over the number of the
\* list and asks for an update, or leaves the number alone.
LEMMA ComparedIs ==
  ASSUME NEW evt \in [inc : Nat, nr : Nat, action : {"nothing", "update", "remove"}],
         NEW name \in EventNames
  PROVE  LET c == Compared(evt, name) IN
         /\ c \in [inc : Nat, nr : Nat, action : {"nothing", "update", "remove"}]
         /\ \/ c.action = "update" /\ c.nr = name.nr /\ c.inc = name.inc
            \/ c.nr = evt.nr /\ c.inc = evt.inc
         /\ On(evt) /\ On(name) /\ c.action # "update" => c.nr = name.nr
BY DEF Compared, On, EventNames

\* Every step keeps the types.
LEMMA DmTypes == ASSUME DmTypeOK, [DmNext]_dm_vars PROVE DmTypeOK'
<1> USE DEF DmTypeOK, EventNames
<1>1. ASSUME NEW m \in DmMaps, KernelCreate(m) PROVE DmTypeOK'
  BY <1>1 DEF KernelCreate, KernelStep, None
<1>2. ASSUME NEW m \in DmMaps, KernelEvent(m) PROVE DmTypeOK'
  BY <1>2 DEF KernelEvent, KernelStep
<1>3. ASSUME NEW m \in DmMaps, KernelRemove(m) PROVE DmTypeOK'
  BY <1>3 DEF KernelRemove, KernelStep, None
<1>4. ASSUME NEW m \in DmMaps, Watching(m) PROVE DmTypeOK'
  <2>1. CASE mpvec' = [mpvec EXCEPT ![m] = None] /\ adder' = adder
    BY <1>4, <2>1 DEF Watching, None
  <2>2. CASE /\ mpvec' = mpvec
             /\ adder' = [pc |-> "insert", m |-> m, nr |-> kmap[m].nr, inc |-> kmap[m].inc]
    BY <1>4, <2>2 DEF Watching, Idle
  <2> QED BY <1>4, <2>1, <2>2 DEF Watching
<1>5. CASE watch_insert BY <1>5 DEF watch_insert, Idle
<1>6. ASSUME NEW ok \in BOOLEAN, add_setup(ok) PROVE DmTypeOK'
  BY <1>6 DEF add_setup, Refreshed, None, Idle
<1>7. ASSUME NEW m \in DmMaps, remove_map_and_stop_waiter(m) PROVE DmTypeOK'
  BY <1>7 DEF remove_map_and_stop_waiter, None
<1>8. CASE remove_maps_and_stop_waiters BY <1>8 DEF remove_maps_and_stop_waiters, None, NoEvent
<1>9. CASE poll_and_arm BY <1>9 DEF poll_and_arm
<1>10. CASE dm_list BY <1>10 DEF dm_list
<1>11. CASE dm_list_fails BY <1>11 DEF dm_list_fails
<1>12. CASE dm_get_events BY <1>12, ComparedIs DEF dm_get_events
<1>13. CASE dmevent_scan BY SMTT(40), <1>13 DEF dmevent_scan, NoEvent
<1>14. ASSUME NEW ok \in BOOLEAN, dmevent_handle(ok) PROVE DmTypeOK'
  BY <1>14 DEF dmevent_handle, Refreshed, None
<1>15. CASE unwatch_dmevents BY <1>15 DEF unwatch_dmevents, NoEvent
<1>16. CASE UNCHANGED dm_vars BY <1>16 DEF dm_vars
<1> QED BY <1>1, <1>2, <1>3, <1>4, <1>5, <1>6, <1>7, <1>8, <1>9, <1>10, <1>11, <1>12,
     <1>13, <1>14, <1>15, <1>16, WatchIs DEF DmNext, Kernel, Adder, Poller

\* Only the kernel counts, and it never counts backwards.
LEMMA BoundedStep == ASSUME DmTypeOK, Bounded, [DmNext]_dm_vars PROVE Bounded'
<1> USE DEF DmTypeOK, Bounded, NotBeyond, EventNames, On
<1>1. ASSUME NEW m \in DmMaps, KernelCreate(m) PROVE Bounded'
  BY <1>1 DEF KernelCreate, KernelStep, None
<1>2. ASSUME NEW m \in DmMaps, KernelEvent(m) PROVE Bounded'
  BY <1>2 DEF KernelEvent, KernelStep
<1>3. ASSUME NEW m \in DmMaps, KernelRemove(m) PROVE Bounded'
  BY <1>3 DEF KernelRemove, KernelStep, None
<1>4. ASSUME NEW m \in DmMaps, Watching(m) PROVE Bounded'
  <2>1. CASE mpvec' = [mpvec EXCEPT ![m] = None] /\ adder' = adder
    BY <1>4, <2>1 DEF Watching, None
  <2>2. CASE /\ mpvec' = mpvec
             /\ adder' = [pc |-> "insert", m |-> m, nr |-> kmap[m].nr, inc |-> kmap[m].inc]
    BY <1>4, <2>2 DEF Watching, Idle
  <2> QED BY <1>4, <2>1, <2>2 DEF Watching
<1>5. CASE watch_insert BY <1>5 DEF watch_insert, Idle
<1>6. ASSUME NEW ok \in BOOLEAN, add_setup(ok) PROVE Bounded'
  BY <1>6 DEF add_setup, Refreshed, None, Idle
<1>7. ASSUME NEW m \in DmMaps, remove_map_and_stop_waiter(m) PROVE Bounded'
  BY <1>7 DEF remove_map_and_stop_waiter, None
<1>8. CASE remove_maps_and_stop_waiters BY <1>8 DEF remove_maps_and_stop_waiters, None, NoEvent
<1>9. CASE poll_and_arm BY <1>9 DEF poll_and_arm
<1>10. CASE dm_list BY <1>10 DEF dm_list
<1>11. CASE dm_list_fails BY <1>11 DEF dm_list_fails
<1>12. CASE dm_get_events BY SMTT(40), <1>12, ComparedIs DEF dm_get_events
<1>13. CASE dmevent_scan BY SMTT(40), <1>13 DEF dmevent_scan, NoEvent
<1>14. ASSUME NEW ok \in BOOLEAN, dmevent_handle(ok) PROVE Bounded'
  BY <1>14 DEF dmevent_handle, Refreshed, None
<1>15. CASE unwatch_dmevents BY <1>15 DEF unwatch_dmevents, NoEvent
<1>16. CASE UNCHANGED dm_vars BY <1>16 DEF dm_vars
<1> QED BY <1>1, <1>2, <1>3, <1>4, <1>5, <1>6, <1>7, <1>8, <1>9, <1>10, <1>11, <1>12,
     <1>13, <1>14, <1>15, <1>16, WatchIs DEF DmNext, Kernel, Adder, Poller

\* Entries get something to do in dm_get_events() only, and the poller scans until nothing is left.
LEMMA NothingStep == ASSUME DmTypeOK, NothingToDo, [DmNext]_dm_vars PROVE NothingToDo'
<1> USE DEF DmTypeOK, NothingToDo, On
<1>1. ASSUME NEW m \in DmMaps, KernelCreate(m) PROVE NothingToDo'
  BY <1>1 DEF KernelCreate, KernelStep, None
<1>2. ASSUME NEW m \in DmMaps, KernelEvent(m) PROVE NothingToDo'
  BY <1>2 DEF KernelEvent, KernelStep
<1>3. ASSUME NEW m \in DmMaps, KernelRemove(m) PROVE NothingToDo'
  BY <1>3 DEF KernelRemove, KernelStep, None
<1>4. ASSUME NEW m \in DmMaps, Watching(m) PROVE NothingToDo'
  BY <1>4 DEF Watching, None, Idle
<1>5. CASE watch_insert BY <1>5 DEF watch_insert, Idle
<1>6. ASSUME NEW ok \in BOOLEAN, add_setup(ok) PROVE NothingToDo'
  BY <1>6 DEF add_setup, Refreshed, None, Idle
<1>7. ASSUME NEW m \in DmMaps, remove_map_and_stop_waiter(m) PROVE NothingToDo'
  BY <1>7 DEF remove_map_and_stop_waiter, None
<1>8. CASE remove_maps_and_stop_waiters BY <1>8 DEF remove_maps_and_stop_waiters, None, NoEvent
<1>9. CASE poll_and_arm BY <1>9 DEF poll_and_arm
<1>10. CASE dm_list BY <1>10 DEF dm_list
<1>11. CASE dm_list_fails BY <1>11 DEF dm_list_fails
<1>12. CASE dm_get_events BY <1>12, ComparedIs DEF dm_get_events
<1>13. CASE dmevent_scan BY <1>13 DEF dmevent_scan, NoEvent
<1>14. ASSUME NEW ok \in BOOLEAN, dmevent_handle(ok) PROVE NothingToDo'
  BY <1>14 DEF dmevent_handle, Refreshed, None
<1>15. CASE unwatch_dmevents BY <1>15 DEF unwatch_dmevents, NoEvent
<1>16. CASE UNCHANGED dm_vars BY <1>16 DEF dm_vars
<1> QED BY <1>1, <1>2, <1>3, <1>4, <1>5, <1>6, <1>7, <1>8, <1>9, <1>10, <1>11, <1>12,
     <1>13, <1>14, <1>15, <1>16, WatchIs DEF DmNext, Kernel, Adder, Poller

\* Whatever changes the kernel's maps makes the poll return.
LEMMA ListStep == ASSUME DmTypeOK, ListFresh, [DmNext]_dm_vars PROVE ListFresh'
<1> USE DEF DmTypeOK, ListFresh
<1>1. ASSUME NEW m \in DmMaps, KernelCreate(m) PROVE ListFresh'
  BY <1>1 DEF KernelCreate, KernelStep, None
<1>2. ASSUME NEW m \in DmMaps, KernelEvent(m) PROVE ListFresh'
  BY <1>2 DEF KernelEvent, KernelStep
<1>3. ASSUME NEW m \in DmMaps, KernelRemove(m) PROVE ListFresh'
  BY <1>3 DEF KernelRemove, KernelStep, None
<1>4. ASSUME NEW m \in DmMaps, Watching(m) PROVE ListFresh'
  BY <1>4 DEF Watching, None, Idle
<1>5. CASE watch_insert BY <1>5 DEF watch_insert, Idle
<1>6. ASSUME NEW ok \in BOOLEAN, add_setup(ok) PROVE ListFresh'
  BY <1>6 DEF add_setup, Refreshed, None, Idle
<1>7. ASSUME NEW m \in DmMaps, remove_map_and_stop_waiter(m) PROVE ListFresh'
  BY <1>7 DEF remove_map_and_stop_waiter, None
<1>8. CASE remove_maps_and_stop_waiters BY <1>8 DEF remove_maps_and_stop_waiters, None, NoEvent
<1>9. CASE poll_and_arm BY <1>9 DEF poll_and_arm
<1>10. CASE dm_list BY <1>10 DEF dm_list
<1>11. CASE dm_list_fails BY <1>11 DEF dm_list_fails
<1>12. CASE dm_get_events BY <1>12, ComparedIs DEF dm_get_events
<1>13. CASE dmevent_scan BY <1>13 DEF dmevent_scan, NoEvent
<1>14. ASSUME NEW ok \in BOOLEAN, dmevent_handle(ok) PROVE ListFresh'
  BY <1>14 DEF dmevent_handle, Refreshed, None
<1>15. CASE unwatch_dmevents BY <1>15 DEF unwatch_dmevents, NoEvent
<1>16. CASE UNCHANGED dm_vars BY <1>16 DEF dm_vars
<1> QED BY <1>1, <1>2, <1>3, <1>4, <1>5, <1>6, <1>7, <1>8, <1>9, <1>10, <1>11, <1>12,
     <1>13, <1>14, <1>15, <1>16, WatchIs DEF DmNext, Kernel, Adder, Poller

\* An entry gets ahead of the map only with somebody there to refresh it.
LEMMA EntryStep == ASSUME DmInv, [DmNext]_dm_vars PROVE EntryNotAhead'
<1> USE DEF DmInv, DmTypeOK, Bounded, NotBeyond, NothingToDo, EntryNotAhead, Tracked,
            Registered, Refreshing, On, EventNames
<1>1. ASSUME NEW m \in DmMaps, KernelCreate(m) PROVE EntryNotAhead'
  BY <1>1 DEF KernelCreate, KernelStep, None
<1>2. ASSUME NEW m \in DmMaps, KernelEvent(m) PROVE EntryNotAhead'
  BY <1>2 DEF KernelEvent, KernelStep
<1>3. ASSUME NEW m \in DmMaps, KernelRemove(m) PROVE EntryNotAhead'
  BY <1>3 DEF KernelRemove, KernelStep, None
<1>4. ASSUME NEW m \in DmMaps, Watching(m) PROVE EntryNotAhead'
  <2>1. CASE mpvec' = [mpvec EXCEPT ![m] = None] /\ adder' = adder
    BY <1>4, <2>1 DEF Watching, None
  <2>2. CASE /\ mpvec' = mpvec
             /\ adder' = [pc |-> "insert", m |-> m, nr |-> kmap[m].nr, inc |-> kmap[m].inc]
    BY <1>4, <2>2 DEF Watching, Idle
  <2> QED BY <1>4, <2>1, <2>2 DEF Watching
<1>5. CASE watch_insert BY <1>5 DEF watch_insert, Idle
<1>6. ASSUME NEW ok \in BOOLEAN, add_setup(ok) PROVE EntryNotAhead'
  BY <1>6 DEF add_setup, Refreshed, None, Idle
<1>7. ASSUME NEW m \in DmMaps, remove_map_and_stop_waiter(m) PROVE EntryNotAhead'
  BY <1>7 DEF remove_map_and_stop_waiter, None
<1>8. CASE remove_maps_and_stop_waiters BY <1>8 DEF remove_maps_and_stop_waiters, None, NoEvent
<1>9. CASE poll_and_arm BY <1>9 DEF poll_and_arm
<1>10. CASE dm_list BY <1>10 DEF dm_list
<1>11. CASE dm_list_fails BY <1>11 DEF dm_list_fails
<1>12. CASE dm_get_events BY <1>12, ComparedIs DEF dm_get_events
<1>13. CASE dmevent_scan BY <1>13 DEF dmevent_scan, NoEvent
<1>14. ASSUME NEW ok \in BOOLEAN, dmevent_handle(ok) PROVE EntryNotAhead'
  BY <1>14 DEF dmevent_handle, Refreshed, None
<1>15. CASE unwatch_dmevents BY <1>15 DEF unwatch_dmevents, NoEvent
<1>16. CASE UNCHANGED dm_vars BY <1>16 DEF dm_vars
<1> QED BY <1>1, <1>2, <1>3, <1>4, <1>5, <1>6, <1>7, <1>8, <1>9, <1>10, <1>11, <1>12,
     <1>13, <1>14, <1>15, <1>16, WatchIs DEF DmNext, Kernel, Adder, Poller

\* An event that the daemon has not seen stays noticed until it has.
LEMMA NoticedStep == ASSUME DmInv, [DmNext]_dm_vars PROVE Noticed'
<1> USE DEF DmInv, DmTypeOK, Bounded, NotBeyond, NothingToDo, ListFresh, EntryNotAhead,
            Noticed, Tracked, Registered, Refreshing, On, EventNames
<1>1. ASSUME NEW m \in DmMaps, KernelCreate(m) PROVE Noticed'
  BY <1>1 DEF KernelCreate, KernelStep, None
<1>2. ASSUME NEW m \in DmMaps, KernelEvent(m) PROVE Noticed'
  BY <1>2 DEF KernelEvent, KernelStep
<1>3. ASSUME NEW m \in DmMaps, KernelRemove(m) PROVE Noticed'
  BY <1>3 DEF KernelRemove, KernelStep, None
<1>4. ASSUME NEW m \in DmMaps, Watching(m) PROVE Noticed'
  <2>1. CASE mpvec' = [mpvec EXCEPT ![m] = None] /\ adder' = adder
    BY <1>4, <2>1 DEF Watching, None
  <2>2. CASE /\ mpvec' = mpvec
             /\ adder' = [pc |-> "insert", m |-> m, nr |-> kmap[m].nr, inc |-> kmap[m].inc]
    BY <1>4, <2>2 DEF Watching, Idle
  <2> QED BY <1>4, <2>1, <2>2 DEF Watching
<1>5. CASE watch_insert BY <1>5 DEF watch_insert, Idle
<1>6. ASSUME NEW ok \in BOOLEAN, add_setup(ok) PROVE Noticed'
  BY <1>6 DEF add_setup, Refreshed, None, Idle
<1>7. ASSUME NEW m \in DmMaps, remove_map_and_stop_waiter(m) PROVE Noticed'
  BY <1>7 DEF remove_map_and_stop_waiter, None
<1>8. CASE remove_maps_and_stop_waiters BY <1>8 DEF remove_maps_and_stop_waiters, None, NoEvent
<1>9. CASE poll_and_arm BY <1>9 DEF poll_and_arm
<1>10. CASE dm_list BY <1>10 DEF dm_list
<1>11. CASE dm_list_fails BY <1>11 DEF dm_list_fails
<1>12. CASE dm_get_events
  <2> SUFFICES ASSUME NEW m \in DmMaps, Tracked(m)', readable' = FALSE, ~Refreshing(m)'
               PROVE  mpvec'[m].nr = kmap'[m].nr
    BY <1>12 DEF dm_get_events
  <2>1. poller.names[m] = kmap[m] /\ kmap' = kmap /\ mpvec' = mpvec
    BY <1>12 DEF dm_get_events
  <2>2. events'[m] = Compared(events[m], kmap[m])
    BY <1>12, <2>1 DEF dm_get_events
  <2>3. events[m].inc = kmap[m].inc /\ events[m].nr = kmap[m].nr /\ On(kmap[m])
    BY <2>1, <2>2, ComparedIs
  <2>4. Tracked(m) /\ ~Refreshing(m)
    BY <1>12, <2>1, <2>3 DEF dm_get_events
  <2>5. mpvec[m].nr >= kmap[m].nr /\ mpvec[m].nr <= kmap[m].nr
    BY <2>3, <2>4
  <2>6. mpvec[m].nr \in Nat /\ kmap[m].nr \in Nat
    OBVIOUS
  <2> HIDE DEF DmInv
  <2> QED BY <2>1, <2>5, <2>6
<1>13. CASE dmevent_scan BY <1>13 DEF dmevent_scan, NoEvent
<1>14. ASSUME NEW ok \in BOOLEAN, dmevent_handle(ok) PROVE Noticed'
  BY <1>14 DEF dmevent_handle, Refreshed, None
<1>15. CASE unwatch_dmevents BY <1>15 DEF unwatch_dmevents, NoEvent
<1>16. CASE UNCHANGED dm_vars BY <1>16 DEF dm_vars
<1> QED BY <1>1, <1>2, <1>3, <1>4, <1>5, <1>6, <1>7, <1>8, <1>9, <1>10, <1>11, <1>12,
     <1>13, <1>14, <1>15, <1>16, WatchIs DEF DmNext, Kernel, Adder, Poller

\* The invariant holds in every state.
LEMMA DmInvariant == DmSpec => []DmInv
<1>1. DmInit => DmInv BY DmInitInv
<1>2. DmInv /\ [DmNext]_dm_vars => DmInv'
  BY DmTypes, BoundedStep, NothingStep, ListStep, EntryStep, NoticedStep DEF DmInv
<1> QED BY <1>1, <1>2, PTL DEF DmSpec

\* For any set of maps and any number of events: while the poller sleeps and
\* nobody adds a map, the daemon has seen the last event of each map it
\* watches, whatever was added, removed, refreshed or created again while
\* dm_get_events() ran. What the proof rests on is the order in dmevent_loop()
\* (the poll is armed before the list is read) and in watch_dmevents() (the map
\* is set up after its number was read).
THEOREM NoLostEventTheorem == DmSpec => []NoLostEvent
<1>1. DmInv => NoLostEvent
  BY DEF DmInv, DmTypeOK, NothingToDo, Noticed, NoLostEvent, Tracked, Refreshing, Idle
<1> QED BY <1>1, DmInvariant, PTL

-----------------------------------------------------------------------------
(***************************************************************************)
(* UEVENT QUEUE                                                            *)
(***************************************************************************)
\* A set of natural numbers has a least element.
LEMMA LeastNat ==
  ASSUME NEW T, T \subseteq Nat, T # {}
  PROVE  \E x \in T : \A y \in T : x <= y
<1> DEFINE R == OpToRel(<, Nat)
<1>1. IsWellFoundedOn(R, Nat) BY NatLessThanWellFounded
<1>2. \A x, y \in Nat : x < y => <<x, y>> \in R BY DEF OpToRel
<1> HIDE DEF R
<1>3. PICK x \in T : \A y \in T : ~(<<y, x>> \in R) BY <1>1, WFMin
<1>4. ASSUME NEW y \in T PROVE x <= y
  <2>1. x \in Nat /\ y \in Nat OBVIOUS
  <2>2. ~(<<y, x>> \in R) BY <1>3
  <2>3. ~(y < x) BY <1>2, <2>1, <2>2
  <2> QED BY <2>1, <2>3
<1> QED BY <1>4

(***************************************************************************)
(* What Kept computes: the recursive function it is written with exists,   *)
(* or CHOOSE would say nothing of it.                                      *)
(***************************************************************************)
\* What kept[i] is made of.
KeepStep(q, I, f, i) ==
  IF i = 0 THEN <<>> ELSE IF i \in I THEN Append(f[i - 1], q[i]) ELSE f[i - 1]

\* Such a function exists, up to the end of any list.
LEMMA KeptExists ==
  ASSUME NEW q, Len(q) \in Nat, NEW I
  PROVE  \E f : f = [i \in 0..Len(q) |-> KeepStep(q, I, f, i)]
<1> DEFINE Builds(m) == \E f : f = [i \in 0..m |-> KeepStep(q, I, f, i)]
           bad == {m \in Nat : ~Builds(m)}
<1>1. bad = {}
  <2> SUFFICES ASSUME bad # {} PROVE FALSE OBVIOUS
  <2>1. PICK m \in bad : \A k \in bad : m <= k
    <3>1. bad \subseteq Nat OBVIOUS
    <3> HIDE DEF bad
    <3> QED BY <3>1, LeastNat
  <2>2. Builds(0)
    <3> DEFINE f == [i \in 0..0 |-> <<>>]
    <3>1. f = [i \in 0..0 |-> KeepStep(q, I, f, i)] BY DEF KeepStep
    <3> QED BY <3>1
  <2>3. m \in Nat /\ m # 0 /\ ~Builds(m) BY <2>1, <2>2
  <2>4. PICK k \in Nat : m = k + 1 BY <2>3
  <2>5. Builds(k)
    <3>1. k \notin bad BY <2>1, <2>3, <2>4
    <3> QED BY <3>1
  <2>6. PICK g : g = [i \in 0..k |-> KeepStep(q, I, g, i)] BY <2>5
  <2> DEFINE f == [i \in 0..m |-> IF i = m THEN KeepStep(q, I, g, m) ELSE g[i]]
  <2>7. \A i \in 0..m : f[i] = KeepStep(q, I, f, i)
    <3> SUFFICES ASSUME NEW i \in 0..m PROVE f[i] = KeepStep(q, I, f, i) OBVIOUS
    <3>1. CASE i = 0
      <4>1. 0 \in 0..k /\ f[0] = g[0] BY <2>3, <2>4
      <4> HIDE DEF f
      <4> QED BY <2>6, <3>1, <4>1 DEF KeepStep
    <3>2. CASE i # 0
      <4>1. i - 1 \in 0..k /\ i - 1 \in 0..m /\ i - 1 # m BY <2>3, <2>4, <3>2
      <4>2. f[i - 1] = g[i - 1] BY <4>1
      <4>3. KeepStep(q, I, f, i) = KeepStep(q, I, g, i) BY <3>2, <4>2 DEF KeepStep
      <4>4. f[i] = KeepStep(q, I, g, i)
        <5>1. CASE i = m BY <5>1
        <5>2. CASE i # m
          <6>1. i \in 0..k BY <2>3, <2>4, <5>2
          <6>2. g[i] = KeepStep(q, I, g, i) BY <2>6, <6>1
          <6> QED BY <5>2, <6>2
        <5> QED BY <5>1, <5>2
      <4> QED BY <4>3, <4>4
    <3> QED BY <3>1, <3>2
  <2>8. f = [i \in 0..m |-> f[i]] OBVIOUS
  <2> HIDE DEF f
  <2>9. f = [i \in 0..m |-> KeepStep(q, I, f, i)] BY <2>7, <2>8
  <2> QED BY <2>3, <2>9
<1>2. \A m \in Nat : m \notin bad => Builds(m) OBVIOUS
<1> HIDE DEF bad
<1> QED BY <1>1, <1>2

\* k consists of elements of q at places in I, in their order.
TakenFrom(k, q, I) ==
  /\ \A a \in 1..Len(k) : \E i \in I \cap 1..Len(q) : k[a] = q[i]
  /\ \A a, b \in 1..Len(k) : a < b =>
       \E i, j \in I \cap 1..Len(q) : i < j /\ k[a] = q[i] /\ k[b] = q[j]

\* What Kept returns is a list of elements at the places given, in their order.
LEMMA KeptSound ==
  ASSUME NEW S, NEW q \in Seq(S), NEW I
  PROVE  Kept(q, I) \in Seq(S) /\ TakenFrom(Kept(q, I), q, I)
<1> DEFINE From(k, m) ==
             /\ k \in Seq(S)
             /\ \A a \in 1..Len(k) : \E i \in I \cap 1..m : k[a] = q[i]
             /\ \A a, b \in 1..Len(k) : a < b =>
                  \E i, j \in I \cap 1..m : i < j /\ k[a] = q[i] /\ k[b] = q[j]
<1>0. Len(q) \in Nat OBVIOUS
<1>1. PICK f : f = [i \in 0..Len(q) |-> KeepStep(q, I, f, i)] /\ Kept(q, I) = f[Len(q)]
  <2> DEFINE F(g) == g = [i \in 0..Len(q) |-> KeepStep(q, I, g, i)]
             c == CHOOSE g : F(g)
  <2>1. F(c) BY <1>0, KeptExists
  <2>2. Kept(q, I) = c[Len(q)] BY DEF Kept, KeepStep
  <2> HIDE DEF c
  <2> QED BY <2>1, <2>2
<1>2. \A i \in 0..Len(q) : f[i] = KeepStep(q, I, f, i) BY <1>1
<1> DEFINE bad == {m \in 0..Len(q) : ~From(f[m], m)}
<1>3. From(f[0], 0)
  <2>1. f[0] = <<>> BY <1>0, <1>2 DEF KeepStep
  <2> QED BY <2>1
<1>4. ASSUME NEW m \in 1..Len(q), From(f[m - 1], m - 1) PROVE From(f[m], m)
  <2>1. m \in 0..Len(q) /\ m # 0 /\ m - 1 \in Nat OBVIOUS
  <2>2. PICK k \in Nat : k = m - 1 BY <2>1
  <2>3. PICK g : g = f[k] BY <2>2
  <2>4. From(g, k) BY <1>4, <2>2, <2>3
  <2>5. From(g, m)
    <3>1. \A i \in I \cap 1..k : i \in I \cap 1..m BY <2>2
    <3>2. \A a \in 1..Len(g) : \E i \in I \cap 1..m : g[a] = q[i] BY <2>4, <3>1
    <3>3. ASSUME NEW a \in 1..Len(g), NEW b \in 1..Len(g), a < b
          PROVE  \E i, j \in I \cap 1..m : i < j /\ g[a] = q[i] /\ g[b] = q[j]
      <4>1. PICK i \in I \cap 1..k, j \in I \cap 1..k : i < j /\ g[a] = q[i] /\ g[b] = q[j]
        BY <2>4, <3>3
      <4> QED BY <3>1, <4>1
    <3> QED BY <2>4, <3>2, <3>3
  <2>6. CASE m \notin I
    <3>1. f[m] = g BY <1>2, <2>1, <2>2, <2>3, <2>6 DEF KeepStep
    <3> QED BY <2>5, <3>1
  <2>7. CASE m \in I
    <3>1. f[m] = Append(g, q[m]) BY <1>2, <2>1, <2>2, <2>3, <2>7 DEF KeepStep
    <3>2. PICK h : h = Append(g, q[m]) OBVIOUS
    <3>3. /\ h \in Seq(S) /\ Len(h) = Len(g) + 1 /\ Len(g) \in Nat
          /\ h[Len(g) + 1] = q[m] /\ \A a \in 1..Len(g) : h[a] = g[a]
      <4>1. g \in Seq(S) /\ q[m] \in S BY <2>4
      <4> QED BY <3>2, <4>1
    <3>4. m \in I \cap 1..m BY <2>7
    <3>5. ASSUME NEW a \in 1..Len(h) PROVE \E i \in I \cap 1..m : h[a] = q[i]
      <4>1. CASE a \in 1..Len(g) BY <2>5, <3>3, <4>1
      <4>2. CASE a = Len(g) + 1 BY <3>3, <3>4, <4>2
      <4> QED BY <3>3, <4>1, <4>2
    <3>6. ASSUME NEW a \in 1..Len(h), NEW b \in 1..Len(h), a < b
          PROVE  \E i, j \in I \cap 1..m : i < j /\ h[a] = q[i] /\ h[b] = q[j]
      <4>1. a \in 1..Len(g) BY <3>3, <3>6
      <4>2. CASE b \in 1..Len(g)
        <5>1. PICK i \in I \cap 1..m, j \in I \cap 1..m : i < j /\ g[a] = q[i] /\ g[b] = q[j]
          BY <2>5, <3>6, <4>1, <4>2
        <5> QED BY <3>3, <4>1, <4>2, <5>1
      <4>3. CASE b = Len(g) + 1
        <5>1. PICK i \in I \cap 1..k : g[a] = q[i] BY <2>4, <4>1
        <5>2. i \in I \cap 1..m /\ i < m BY <2>2, <5>1
        <5>3. h[a] = q[i] /\ h[b] = q[m] BY <3>3, <4>1, <4>3, <5>1
        <5> QED BY <3>4, <5>2, <5>3
      <4> QED BY <3>3, <4>2, <4>3
    <3>7. From(h, m) BY <3>3, <3>5, <3>6
    <3> HIDE DEF From
    <3> QED BY <3>1, <3>2, <3>7
  <2> QED BY <2>6, <2>7
<1> HIDE DEF From
<1>5. bad = {}
  <2> SUFFICES ASSUME bad # {} PROVE FALSE OBVIOUS
  <2>1. PICK m \in bad : \A i \in bad : m <= i
    <3>1. bad \subseteq Nat OBVIOUS
    <3> HIDE DEF bad
    <3> QED BY <3>1, LeastNat
  <2>2. m \in 1..Len(q) BY <1>0, <1>3, <2>1
  <2>3. m - 1 \in 0..Len(q) /\ m - 1 \notin bad BY <1>0, <2>1, <2>2
  <2> QED BY <1>4, <2>1, <2>2, <2>3
<1>6. From(f[Len(q)], Len(q)) BY <1>0, <1>5
<1>7. PICK k : k = Kept(q, I) /\ From(k, Len(q)) BY <1>1, <1>6
<1> QED BY <1>7 DEF From, TakenFrom
-----------------------------------------------------------------------------
(***************************************************************************)
(* The inductive invariant                                                 *)
(***************************************************************************)
Uevents ==
  [n : Nat, dev : Devs, action : Actions, wwid : Wwids \cup {NoWwid}]
Batches == [u : Uevents, merge_node : Seq(Uevents)]

UevTypeOK ==
  /\ lun \in [Named -> Wwids]
  /\ disp \in [pc : {"loop", "wait", "merge", "service"}, woken : BOOLEAN]
  /\ uevlisten_tmp \in Seq(Uevents) /\ uevq \in Seq(Uevents) /\ merging \in Seq(Uevents)
  /\ uevq_tmp \in Seq(Batches)
  /\ received \in Seq(Uevents) /\ triggered \in Seq(Uevents)

\* Uevents are numbered as they arrive. Each list that is not merged yet is
\* in that order.
Older(S, T) == \A x \in S, y \in T : x.n < y.n
Increasing(q) == \A i, j \in 1..Len(q) : i < j => q[i].n < q[j].n

\* x may be handled before y: it came first, or their order does not matter.
InOrder(x, y) ==
  \/ x.n < y.n
  \/ /\ NoWwid \notin {x.wwid, y.wwid}
     /\ x.dev = y.dev /\ x.wwid = y.wwid => "change" \in {x.action, y.action}
Settled(S, T) == \A x \in S, y \in T : InOrder(x, y)
AllInOrder(q) == \A i, j \in 1..Len(q) : i < j => InOrder(q[i], q[j])

\* The uevents handled with one entry of the dispatcher's list, those of all
\* entries, and those the dispatcher has taken out of the queue so far
Batch(b) == Range(b.merge_node) \cup {b.u}
Done == UNION {Batch(uevq_tmp[i]) : i \in 1..Len(uevq_tmp)}
Dispatched == Range(triggered) \cup Range(merging) \cup Done

Sorted == Increasing(merging) /\ Increasing(uevq) /\ Increasing(uevlisten_tmp)

\* What the dispatcher has taken is older than what is queued, and that is
\* older than what the listener holds.
Numbered ==
  /\ Older(Dispatched, Range(uevq) \cup Range(uevlisten_tmp))
  /\ Older(Range(uevq), Range(uevlisten_tmp))
  /\ \A x \in Dispatched \cup Range(uevq) \cup Range(uevlisten_tmp) : x.n <= Len(received)

\* What is not merged yet may be handled before all entries, which may be
\* handled in their order, each after its merge_node.
Arranged ==
  /\ AllInOrder(triggered)
  /\ Settled(Range(triggered), Range(merging) \cup Done)
  /\ Settled(Range(merging), Done)
  /\ \A i \in 1..Len(uevq_tmp) :
       /\ AllInOrder(uevq_tmp[i].merge_node)
       /\ Settled(Range(uevq_tmp[i].merge_node), {uevq_tmp[i].u})
  /\ \A i, j \in 1..Len(uevq_tmp) : i < j => Settled(Batch(uevq_tmp[i]), Batch(uevq_tmp[j]))

\* The dispatcher takes new uevents only when it has handled the old ones.
Stage ==
  /\ merging # <<>> => disp.pc = "merge"
  /\ uevq_tmp # <<>> => disp.pc \in {"merge", "service"}

UevInv == UevTypeOK /\ Sorted /\ Numbered /\ Arranged /\ Stage

-----------------------------------------------------------------------------
(***************************************************************************)
(* Lists of uevents                                                        *)
(***************************************************************************)
\* The elements of a list and its range
LEMMA RangeIs ==
  ASSUME NEW S, NEW q \in Seq(S)
  PROVE  /\ \A i \in 1..Len(q) : q[i] \in Range(q)
         /\ \A x \in Range(q) : x \in S /\ \E i \in 1..Len(q) : x = q[i]
BY DEF Range

\* The elements of two lists put together
LEMMA ConcatIs ==
  ASSUME NEW S, NEW s \in Seq(S), NEW t \in Seq(S)
  PROVE  /\ s \o t \in Seq(S)
         /\ \A k \in 1..Len(s \o t) : \/ k \in 1..Len(s) /\ (s \o t)[k] = s[k]
                                      \/ /\ k > Len(s) /\ k - Len(s) \in 1..Len(t)
                                         /\ (s \o t)[k] = t[k - Len(s)]
         /\ \A x \in Range(s \o t) : x \in Range(s) \cup Range(t)
         /\ Range(s \o t) = Range(s) \cup Range(t)
<1>1. s \o t \in Seq(S) /\ Len(s \o t) = Len(s) + Len(t) /\ Len(s) \in Nat /\ Len(t) \in Nat OBVIOUS
<1>2. ASSUME NEW k \in 1..Len(s \o t)
      PROVE  \/ k \in 1..Len(s) /\ (s \o t)[k] = s[k]
             \/ /\ k > Len(s) /\ k - Len(s) \in 1..Len(t)
                /\ (s \o t)[k] = t[k - Len(s)]
  BY <1>1
<1>3. ASSUME NEW x \in Range(s \o t) PROVE x \in Range(s) \cup Range(t)
  <2>1. PICK k \in 1..Len(s \o t) : x = (s \o t)[k] BY <1>1, RangeIs
  <2> QED BY <1>2, <2>1, RangeIs
<1>4. ASSUME NEW x \in Range(s) PROVE x \in Range(s \o t)
  <2>1. PICK k \in 1..Len(s) : x = s[k] BY RangeIs
  <2>2. k \in 1..Len(s \o t) /\ (s \o t)[k] = s[k] BY <1>1, <2>1
  <2> QED BY <1>1, <2>1, <2>2, RangeIs
<1>5. ASSUME NEW x \in Range(t) PROVE x \in Range(s \o t)
  <2>1. PICK k \in 1..Len(t) : x = t[k] BY RangeIs
  <2>2. k + Len(s) \in 1..Len(s \o t) /\ (s \o t)[k + Len(s)] = t[k] BY <1>1, <2>1
  <2> QED BY <1>1, <2>1, <2>2, RangeIs
<1> QED BY <1>1, <1>2, <1>3, <1>4, <1>5

\* Lists of which the first is older are in the order of arrival together.
LEMMA ConcatIncreasing ==
  ASSUME NEW s \in Seq(Uevents), NEW t \in Seq(Uevents),
         Increasing(s), Increasing(t), Older(Range(s), Range(t))
  PROVE  Increasing(s \o t)
<1> SUFFICES ASSUME NEW i \in 1..Len(s \o t), NEW j \in 1..Len(s \o t), i < j
             PROVE  (s \o t)[i].n < (s \o t)[j].n
  BY DEF Increasing
<1>0. Len(s) \in Nat /\ Len(t) \in Nat OBVIOUS
<1>1. CASE j \in 1..Len(s)
  <2>1. i \in 1..Len(s) BY <1>0, <1>1
  <2>2. (s \o t)[i] = s[i] /\ (s \o t)[j] = s[j] BY <1>0, <1>1, <2>1
  <2> QED BY <1>1, <2>1, <2>2 DEF Increasing
<1>2. CASE i \in 1..Len(s) /\ j \notin 1..Len(s)
  <2>1. (s \o t)[i] = s[i] BY <1>0, <1>2
  <2>2. j - Len(s) \in 1..Len(t) /\ (s \o t)[j] = t[j - Len(s)] BY <1>2, ConcatIs
  <2>3. s[i] \in Range(s) /\ t[j - Len(s)] \in Range(t) BY <1>2, <2>2, RangeIs
  <2> QED BY <2>1, <2>2, <2>3 DEF Older
<1>3. CASE i \notin 1..Len(s)
  <2>1. j \notin 1..Len(s) BY <1>0, <1>3
  <2>2. /\ i - Len(s) \in 1..Len(t) /\ (s \o t)[i] = t[i - Len(s)]
        /\ j - Len(s) \in 1..Len(t) /\ (s \o t)[j] = t[j - Len(s)]
    BY <1>3, <2>1, ConcatIs
  <2>3. i - Len(s) < j - Len(s) BY <1>0
  <2> QED BY <2>2, <2>3 DEF Increasing
<1> QED BY <1>1, <1>2, <1>3

\* Lists that may be handled one after the other
LEMMA ConcatInOrder ==
  ASSUME NEW s \in Seq(Uevents), NEW t \in Seq(Uevents),
         AllInOrder(s), AllInOrder(t), Settled(Range(s), Range(t))
  PROVE  AllInOrder(s \o t)
<1> SUFFICES ASSUME NEW i \in 1..Len(s \o t), NEW j \in 1..Len(s \o t), i < j
             PROVE  InOrder((s \o t)[i], (s \o t)[j])
  BY DEF AllInOrder
<1>0. Len(s) \in Nat /\ Len(t) \in Nat OBVIOUS
<1>1. CASE j \in 1..Len(s)
  <2>1. i \in 1..Len(s) BY <1>0, <1>1
  <2>2. (s \o t)[i] = s[i] /\ (s \o t)[j] = s[j] BY <1>0, <1>1, <2>1
  <2> QED BY <1>1, <2>1, <2>2 DEF AllInOrder
<1>2. CASE i \in 1..Len(s) /\ j \notin 1..Len(s)
  <2>1. (s \o t)[i] = s[i] BY <1>0, <1>2
  <2>2. j - Len(s) \in 1..Len(t) /\ (s \o t)[j] = t[j - Len(s)] BY <1>2, ConcatIs
  <2>3. s[i] \in Range(s) /\ t[j - Len(s)] \in Range(t) BY <1>2, <2>2, RangeIs
  <2> QED BY <2>1, <2>2, <2>3 DEF Settled
<1>3. CASE i \notin 1..Len(s)
  <2>1. j \notin 1..Len(s) BY <1>0, <1>3
  <2>2. /\ i - Len(s) \in 1..Len(t) /\ (s \o t)[i] = t[i - Len(s)]
        /\ j - Len(s) \in 1..Len(t) /\ (s \o t)[j] = t[j - Len(s)]
    BY <1>3, <2>1, ConcatIs
  <2>3. i - Len(s) < j - Len(s) BY <1>0
  <2> QED BY <2>2, <2>3 DEF AllInOrder
<1> QED BY <1>1, <1>2, <1>3

\* Taking uevents out of a list keeps the order of arrival.
LEMMA KeptIncreasing ==
  ASSUME NEW q \in Seq(Uevents), NEW I, Increasing(q)
  PROVE  LET k == Kept(q, I)
         IN  /\ k \in Seq(Uevents) /\ Increasing(k)
             /\ \A x \in Range(k) : x \in Range(q) /\ \E i \in I \cap 1..Len(q) : x = q[i]
<1>1. PICK k : k = Kept(q, I) OBVIOUS
<1>2. /\ k \in Seq(Uevents)
      /\ \A a \in 1..Len(k) : \E i \in I \cap 1..Len(q) : k[a] = q[i]
      /\ \A a, b \in 1..Len(k) : a < b =>
           \E i, j \in I \cap 1..Len(q) : i < j /\ k[a] = q[i] /\ k[b] = q[j]
  <2>1. k \in Seq(Uevents) /\ TakenFrom(k, q, I) BY <1>1, KeptSound
  <2> QED BY <2>1 DEF TakenFrom
<1>3. Increasing(k)
  <2> SUFFICES ASSUME NEW a \in 1..Len(k), NEW b \in 1..Len(k), a < b PROVE k[a].n < k[b].n
    BY DEF Increasing
  <2>1. PICK i \in I \cap 1..Len(q), j \in I \cap 1..Len(q) :
            i < j /\ k[a] = q[i] /\ k[b] = q[j]
    BY <1>2
  <2> QED BY <2>1 DEF Increasing
<1>4. ASSUME NEW x \in Range(k)
      PROVE  x \in Range(q) /\ \E i \in I \cap 1..Len(q) : x = q[i]
  <2>1. PICK a \in 1..Len(k) : x = k[a] BY <1>2, RangeIs
  <2>2. PICK i \in I \cap 1..Len(q) : k[a] = q[i] BY <1>2
  <2> QED BY <2>1, <2>2, RangeIs
<1> QED BY <1>1, <1>2, <1>3, <1>4

\* The last uevent is the youngest.
LEMMA LastIs ==
  ASSUME NEW q \in Seq(Uevents), q # <<>>, Increasing(q)
  PROVE  /\ Last(q) \in Uevents /\ Last(q) \in Range(q)
         /\ Front(q) \in Seq(Uevents) /\ Increasing(Front(q))
         /\ \A x \in Range(Front(q)) : x \in Range(q) /\ x.n < Last(q).n
<1>1. Len(q) \in Nat /\ Len(q) # 0 /\ Len(q) \in 1..Len(q) OBVIOUS
<1>2. PICK f : f = Front(q) OBVIOUS
<1>3. PICK k \in Nat : k = Len(q) - 1 BY <1>1
<1>4. f = SubSeq(q, 1, k) BY <1>2, <1>3 DEF Front
<1>5. f \in Seq(Uevents) /\ Len(f) = k /\ \A i \in 1..k : f[i] = q[i]
  <2>1. \A i \in 1..k : i \in 1..Len(q) BY <1>1, <1>3
  <2> QED BY <1>1, <1>3, <1>4, <2>1
<1>6. Last(q) = q[Len(q)] BY DEF Last
<1>7. ASSUME NEW i \in 1..k PROVE i \in 1..Len(q) /\ i < Len(q) BY <1>3
<1>8. Increasing(f) BY <1>5, <1>7 DEF Increasing
<1>9. ASSUME NEW x \in Range(f) PROVE x \in Range(q) /\ x.n < Last(q).n
  <2>1. PICK i \in 1..k : x = f[i] BY <1>5, RangeIs
  <2>2. x = q[i] BY <1>5, <2>1
  <2> QED BY <1>1, <1>6, <1>7, <2>2, RangeIs DEF Increasing
<1> QED BY <1>1, <1>2, <1>5, <1>6, <1>8, <1>9, RangeIs

\* Uevents may always be handled in the order they arrived in.
LEMMA OldestFirst ==
  ASSUME NEW q \in Seq(Uevents), Increasing(q)
  PROVE  AllInOrder(q)
BY DEF Increasing, AllInOrder, InOrder

\* What uevent_merge() leaves behind may be handled before what it moves.
LEMMA MergeSound ==
  ASSUME NEW q \in Seq(Uevents), Increasing(q),
         NEW later \in Uevents, \A x \in Range(q) : x.n < later.n
  PROVE  LET moved == Merged(later, q)
             left  == (1..Len(q)) \ moved
         IN  /\ Settled(Range(Kept(q, left)), Range(Kept(q, moved)) \cup {later})
             /\ Settled(Range(Kept(q, moved)), {later})
             /\ AllInOrder(Kept(q, moved))
<1> DEFINE moved == Merged(later, q)
           left  == (1..Len(q)) \ moved
<1>0. Len(q) \in Nat /\ \A i \in 1..Len(q) : q[i] \in Uevents OBVIOUS
<1>1. ASSUME NEW i \in moved, NEW j \in left PROVE InOrder(q[j], q[i])
  <2>1. /\ i \in 1..Len(q) /\ j \in 1..Len(q) /\ i # j
        /\ uevent_can_merge(q[i], later)
        /\ \A k \in i..Len(q) : ~merge_need_stop(q[k], later)
    BY DEF Merged
  <2>2. CASE j < i BY <2>1, <2>2 DEF Increasing, InOrder
  <2>3. CASE j > i
    <3>1. ~merge_need_stop(q[j], later) BY <2>1, <2>3
    <3>2. \A k \in j..Len(q) : k \in i..Len(q) BY <2>1, <2>3
    <3>3. ~uevent_can_merge(q[j], later) BY <2>1, <3>2 DEF Merged
    <3> QED BY <2>1, <3>1, <3>3 DEF InOrder, uevent_can_merge, merge_need_stop
  <2> QED BY <2>1, <2>2, <2>3
<1>2. PICK m : m = Kept(q, moved) OBVIOUS
<1>3. PICK r : r = Kept(q, left) OBVIOUS
<1>4. /\ m \in Seq(Uevents) /\ Increasing(m)
      /\ \A x \in Range(m) : x \in Range(q) /\ \E i \in moved \cap 1..Len(q) : x = q[i]
  BY <1>2, KeptIncreasing
<1>5. /\ r \in Seq(Uevents) /\ Increasing(r)
      /\ \A x \in Range(r) : x \in Range(q) /\ \E i \in left \cap 1..Len(q) : x = q[i]
  BY <1>3, KeptIncreasing
<1> HIDE DEF moved, left
<1>6. Settled(Range(r), Range(m))
  <2> SUFFICES ASSUME NEW x \in Range(r), NEW y \in Range(m) PROVE InOrder(x, y)
    BY DEF Settled
  <2>1. PICK j \in left : x = q[j] BY <1>5
  <2>2. PICK i \in moved : y = q[i] BY <1>4
  <2> QED BY <1>1, <2>1, <2>2
<1>7. Settled(Range(r), {later}) /\ Settled(Range(m), {later})
  BY <1>4, <1>5 DEF Settled, InOrder
<1>8. AllInOrder(m) BY <1>4, OldestFirst
<1>9. Settled(Range(r), Range(m) \cup {later}) BY <1>6, <1>7 DEF Settled
<1> QED BY <1>2, <1>3, <1>7, <1>8, <1>9 DEF moved, left

\* The property follows from the order of what was handled.
LEMMA InOrderMeansKept ==
  ASSUME UevTypeOK, AllInOrder(triggered)
  PROVE  OrderKept
<1>1. AddRemoveOrder
  <2> SUFFICES ASSUME NEW i \in 1..Len(triggered), NEW j \in 1..Len(triggered), i < j,
                      triggered[i].dev = triggered[j].dev, triggered[i].wwid = triggered[j].wwid,
                      "change" \notin {triggered[i].action, triggered[j].action}
               PROVE  triggered[i].n < triggered[j].n
    BY DEF AddRemoveOrder
  <2>1. InOrder(triggered[i], triggered[j]) BY DEF AllInOrder
  <2> QED BY <2>1 DEF InOrder
<1>2. BarrierKept
  <2> SUFFICES ASSUME NEW i \in 1..Len(triggered), NEW j \in 1..Len(triggered), i < j,
                      NoWwid \in {triggered[i].wwid, triggered[j].wwid}
               PROVE  triggered[i].n < triggered[j].n
    BY DEF BarrierKept
  <2>1. InOrder(triggered[i], triggered[j]) BY DEF AllInOrder
  <2> QED BY <2>1 DEF InOrder
<1> QED BY <1>1, <1>2 DEF OrderKept

-----------------------------------------------------------------------------
(***************************************************************************)
(* The steps                                                               *)
(***************************************************************************)
UevPlace == <<uevlisten_tmp, uevq, merging, uevq_tmp, triggered>>

\* Initially there are no uevents.
LEMMA UevInitial == UevInit => UevInv
<1> SUFFICES ASSUME UevInit PROVE UevInv OBVIOUS
<1>1. UevTypeOK BY DEF UevInit, UevTypeOK
<1>2. Range(triggered) = {} /\ Range(merging) = {} /\ Done = {} /\ Range(uevq) = {}
      /\ Range(uevlisten_tmp) = {}
  BY DEF UevInit, Range, Done
<1>3. Sorted BY DEF UevInit, Sorted, Increasing
<1>4. Numbered BY <1>2 DEF Numbered, Dispatched, Older
<1>5. Arranged BY <1>2 DEF UevInit, Arranged, AllInOrder, Settled
<1>6. Stage BY DEF UevInit, Stage
<1> QED BY <1>1, <1>3, <1>4, <1>5, <1>6 DEF UevInv

\* Where the uevents are is all that the order depends on.
LEMMA SamePlaces ==
  ASSUME UevInv, UNCHANGED <<UevPlace, received>>
  PROVE  Sorted' /\ Numbered' /\ Arranged'
<1>1. UNCHANGED <<uevlisten_tmp, uevq, merging, uevq_tmp, triggered, received>> BY DEF UevPlace
<1>2. UNCHANGED <<Dispatched, Done>> BY <1>1 DEF Dispatched, Done
<1>3. Sorted' BY <1>1 DEF UevInv, Sorted
<1>4. Numbered' BY <1>1, <1>2 DEF UevInv, Numbered
<1>5. Arranged' BY <1>1, <1>2 DEF UevInv, Arranged
<1> QED BY <1>3, <1>4, <1>5

\* A uevent that arrives is the youngest.
LEMMA UevReceiveStep ==
  ASSUME UevInv, UeventAssumption, NEW d \in Devs, NEW a \in Actions, uevent_receive(d, a)
  PROVE  UevInv'
<1> DEFINE u == [n |-> Len(received) + 1, dev |-> d, action |-> a,
                 wwid |-> IF d \in Named THEN lun[d] ELSE NoWwid]
<1>0. UevTypeOK BY DEF UevInv
<1>1. u \in Uevents
  <2>1. d \in Named => lun[d] \in Wwids BY <1>0 DEF UevTypeOK
  <2>2. Len(received) + 1 \in Nat BY <1>0 DEF UevTypeOK
  <2> QED BY <2>1, <2>2 DEF Uevents
<1>2. /\ received' = Append(received, u) /\ uevlisten_tmp' = Append(uevlisten_tmp, u)
      /\ UNCHANGED <<lun, uevq, merging, uevq_tmp, disp, triggered>>
  BY DEF uevent_receive
<1>3. PICK x \in Uevents : x = u BY <1>1
<1>4. x.n = Len(received) + 1 BY <1>3
<1> HIDE DEF u
<1>5. UevTypeOK' BY <1>0, <1>2, <1>1 DEF UevTypeOK
<1>6. /\ uevlisten_tmp' = uevlisten_tmp \o <<x>> /\ Range(<<x>>) = {x} /\ <<x>> \in Seq(Uevents)
      /\ Len(received') = Len(received) + 1 /\ Len(received) \in Nat
  BY <1>0, <1>2, <1>3 DEF UevTypeOK, Range
<1>7. Range(uevlisten_tmp') = Range(uevlisten_tmp) \cup {x}
  <2>1. uevlisten_tmp \in Seq(Uevents) /\ <<x>> \in Seq(Uevents) BY <1>0, <1>6 DEF UevTypeOK
  <2>2. Range(uevlisten_tmp \o <<x>>) = Range(uevlisten_tmp) \cup Range(<<x>>)
    BY <2>1, ConcatIs
  <2> QED BY <1>6, <2>2
<1>8. UNCHANGED <<Dispatched, Range(uevq), Range(merging), Range(triggered), Done>>
  BY <1>2 DEF Dispatched, Done
<1>9. /\ Older(Dispatched, Range(uevq) \cup Range(uevlisten_tmp))
      /\ Older(Range(uevq), Range(uevlisten_tmp))
      /\ \A y \in Dispatched \cup Range(uevq) \cup Range(uevlisten_tmp) : y.n <= Len(received)
  BY DEF UevInv, Numbered
<1>10. ASSUME NEW y \in Dispatched \cup Range(uevq) \cup Range(uevlisten_tmp)
       PROVE  y.n < x.n /\ y.n <= Len(received')
  <2>1. y.n <= Len(received) BY <1>9
  <2>2. y.n \in Nat
    <3>1. CASE y \in Range(triggered) \cup Range(merging) \cup Range(uevq) \cup Range(uevlisten_tmp)
      <4>1. y \in Uevents BY <1>0, <3>1, RangeIs DEF UevTypeOK
      <4> QED BY <4>1 DEF Uevents
    <3>2. CASE y \in Done
      <4>1. PICK i \in 1..Len(uevq_tmp) : y \in Batch(uevq_tmp[i]) BY <3>2 DEF Done
      <4>2. uevq_tmp[i] \in Batches BY <1>0, <4>1 DEF UevTypeOK
      <4>3. y \in Uevents BY <4>1, <4>2, RangeIs DEF Batch, Batches
      <4> QED BY <4>3 DEF Uevents
    <3> QED BY <3>1, <3>2 DEF Dispatched
  <2> QED BY <1>4, <1>6, <2>1, <2>2
<1>11. Numbered' BY <1>4, <1>6, <1>7, <1>8, <1>9, <1>10 DEF Numbered, Older
<1>12. Sorted'
  <2>1. Increasing(uevlisten_tmp) /\ Increasing(<<x>>) BY DEF UevInv, Sorted, Increasing
  <2>2. Older(Range(uevlisten_tmp), Range(<<x>>)) BY <1>6, <1>10 DEF Older
  <2>3. Increasing(uevlisten_tmp \o <<x>>)
    BY <1>0, <1>6, <2>1, <2>2, ConcatIncreasing DEF UevTypeOK
  <2> QED BY <1>2, <1>6, <2>3 DEF UevInv, Sorted
<1>13. Arranged' BY <1>2, <1>8 DEF UevInv, Arranged
<1>14. Stage' BY <1>2 DEF UevInv, Stage
<1> QED BY <1>5, <1>11, <1>12, <1>13, <1>14 DEF UevInv

\* The listener appends to the queue what is younger than it.
LEMMA UevListenStep ==
  ASSUME UevInv, uevent_listen
  PROVE  UevInv'
<1>0. UevTypeOK BY DEF UevInv
<1>1. /\ uevlisten_tmp' = <<>> /\ uevq' = uevq \o uevlisten_tmp
      /\ UNCHANGED <<lun, merging, uevq_tmp, received, triggered, disp.pc>>
  BY <1>0 DEF uevent_listen, UevTypeOK
<1>2. UevTypeOK'
  <2>1. disp' \in [pc : {"loop", "wait", "merge", "service"}, woken : BOOLEAN]
    BY <1>0 DEF UevTypeOK, uevent_listen
  <2>2. uevq' \in Seq(Uevents) BY <1>0, <1>1 DEF UevTypeOK
  <2> QED BY <1>0, <1>1, <2>1, <2>2 DEF UevTypeOK
<1>3. Range(uevq') = Range(uevq) \cup Range(uevlisten_tmp)
  BY <1>0, <1>1, ConcatIs DEF UevTypeOK
<1>4. Range(uevlisten_tmp') = {} BY <1>1 DEF Range
<1>5. UNCHANGED <<Dispatched, Range(merging), Range(triggered), Done>>
  BY <1>1 DEF Dispatched, Done
<1>6. Numbered' BY <1>1, <1>3, <1>4, <1>5 DEF UevInv, Numbered, Older
<1>7. Sorted'
  <2>1. Increasing(uevq \o uevlisten_tmp)
    BY <1>0, ConcatIncreasing DEF UevTypeOK, UevInv, Sorted, Numbered
  <2>2. Increasing(uevlisten_tmp') BY <1>1 DEF Increasing
  <2> QED BY <1>1, <2>1, <2>2 DEF UevInv, Sorted
<1>8. Arranged' BY <1>1, <1>5 DEF UevInv, Arranged
<1>9. Stage' BY <1>1 DEF UevInv, Stage
<1> QED BY <1>2, <1>6, <1>7, <1>8, <1>9 DEF UevInv

\* The dispatcher takes what is younger than all that it has handled.
LEMMA UevDispatchStep ==
  ASSUME UevInv, uevent_dispatch
  PROVE  UevInv'
<1>0. UevTypeOK BY DEF UevInv
<1>1. UNCHANGED <<lun, uevlisten_tmp, uevq_tmp, received, triggered, Done>>
  BY DEF uevent_dispatch, Done
<1>2. CASE disp.pc = "loop" /\ uevq = <<>>
  <2>1. disp' = [disp EXCEPT !.pc = "wait"] /\ UNCHANGED <<uevq, merging>>
    BY <1>2 DEF uevent_dispatch
  <2>2. Sorted' /\ Numbered' /\ Arranged' BY <1>1, <2>1, SamePlaces DEF UevPlace
  <2>3. UevTypeOK' BY <1>0, <1>1, <2>1 DEF UevTypeOK
  <2>4. Stage' BY <1>1, <1>2, <2>1 DEF UevInv, Stage
  <2> QED BY <2>2, <2>3, <2>4 DEF UevInv
<1>3. CASE ~(disp.pc = "loop" /\ uevq = <<>>)
  <2>1. /\ disp' = [pc |-> "merge", woken |-> FALSE] /\ uevq' = <<>>
        /\ merging' = uevent_prepare(uevq) /\ disp.pc \in {"loop", "wait"}
    BY <1>3 DEF uevent_dispatch
  <2>2. merging = <<>> /\ uevq_tmp = <<>> BY <2>1 DEF UevInv, Stage
  <2>3. /\ merging' \in Seq(Uevents) /\ Increasing(merging')
        /\ \A x \in Range(merging') : x \in Range(uevq)
    BY <1>0, <2>1, KeptIncreasing DEF uevent_prepare, UevTypeOK, UevInv, Sorted
  <2>4. Done = {} /\ Range(merging) = {} /\ Range(uevq') = {}
    BY <2>1, <2>2 DEF Done, Range
  <2>5. Dispatched = Range(triggered) /\ Dispatched' = Range(triggered) \cup Range(merging')
    BY <1>1, <2>4 DEF Dispatched
  <2>6. UevTypeOK' BY <1>0, <1>1, <2>1, <2>3 DEF UevTypeOK
  <2>7. Sorted' BY <1>1, <2>1, <2>3 DEF UevInv, Sorted, Increasing
  <2>8. Numbered' BY <1>1, <2>3, <2>4, <2>5 DEF UevInv, Numbered, Older
  <2>9. Arranged'
    <3>1. Settled(Range(triggered), Range(merging'))
      BY <2>3, <2>5 DEF UevInv, Numbered, Older, Settled, InOrder
    <3>2. Done' = {} BY <1>1, <2>4
    <3> QED BY <1>1, <2>2, <3>1, <3>2 DEF UevInv, Arranged, Settled
  <2>10. Stage' BY <1>1, <2>1, <2>2 DEF Stage
  <2> QED BY <2>6, <2>7, <2>8, <2>9, <2>10 DEF UevInv
<1> QED BY <1>2, <1>3

\* A round of merge_uevq() puts a new entry before the others: MergeSound.
LEMMA UevMergeStep ==
  ASSUME UevInv, merge_uevq
  PROVE  UevInv'
<1>0. UevTypeOK BY DEF UevInv
<1>1. UNCHANGED <<lun, uevlisten_tmp, uevq, received, triggered>> BY DEF merge_uevq
<1>2. CASE merging = <<>>
  <2>1. disp' = [disp EXCEPT !.pc = "service"] /\ UNCHANGED <<merging, uevq_tmp>>
    BY <1>2 DEF merge_uevq
  <2>2. Sorted' /\ Numbered' /\ Arranged' BY <1>1, <2>1, SamePlaces DEF UevPlace
  <2>3. UevTypeOK' BY <1>0, <1>1, <2>1 DEF UevTypeOK
  <2>4. Stage' BY <1>0, <1>2, <2>1 DEF Stage, UevTypeOK
  <2> QED BY <2>2, <2>3, <2>4 DEF UevInv
<1>3. CASE merging # <<>>
  <2>1. PICK later : later = Last(merging) OBVIOUS
  <2>2. PICK earlier : earlier = uevent_filter(later, Front(merging)) OBVIOUS
  <2>3. PICK moved : moved = Merged(later, earlier) OBVIOUS
  <2>4. PICK b : b = [u |-> later, merge_node |-> Kept(earlier, moved)] OBVIOUS
  <2>5. /\ uevq_tmp' = <<b>> \o uevq_tmp
        /\ merging' = Kept(earlier, (1..Len(earlier)) \ moved)
        /\ disp' = disp /\ disp.pc = "merge"
    BY <1>3, <2>1, <2>2, <2>3, <2>4 DEF merge_uevq
  <2>6. merging \in Seq(Uevents) /\ Increasing(merging) BY <1>0 DEF UevTypeOK, UevInv, Sorted
  <2>7. /\ later \in Uevents /\ later \in Range(merging)
        /\ Front(merging) \in Seq(Uevents) /\ Increasing(Front(merging))
        /\ \A x \in Range(Front(merging)) : x \in Range(merging) /\ x.n < later.n
    BY <1>3, <2>1, <2>6, LastIs
  <2>8. /\ earlier \in Seq(Uevents) /\ Increasing(earlier)
        /\ \A x \in Range(earlier) : x \in Range(merging) /\ x.n < later.n
    <3>1. /\ earlier \in Seq(Uevents) /\ Increasing(earlier)
          /\ \A x \in Range(earlier) : x \in Range(Front(merging))
      BY <2>2, <2>7, KeptIncreasing DEF uevent_filter
    <3> QED BY <2>7, <3>1
  <2>9. /\ merging' \in Seq(Uevents) /\ Increasing(merging')
        /\ \A x \in Range(merging') : x \in Range(merging)
    <3>1. /\ merging' \in Seq(Uevents) /\ Increasing(merging')
          /\ \A x \in Range(merging') : x \in Range(earlier)
      BY <2>5, <2>8, KeptIncreasing
    <3> QED BY <2>8, <3>1
  <2>10. /\ b.merge_node = Kept(earlier, moved) /\ b.u = later
         /\ b.merge_node \in Seq(Uevents)
         /\ \A x \in Range(b.merge_node) : x \in Range(merging)
    <3>1. /\ Kept(earlier, moved) \in Seq(Uevents)
          /\ \A x \in Range(Kept(earlier, moved)) : x \in Range(earlier)
      BY <2>8, KeptIncreasing
    <3> QED BY <2>4, <2>8, <3>1
  <2>11. b \in Batches BY <2>4, <2>7, <2>10 DEF Batches
  <2>12. \A x \in Batch(b) : x \in Range(merging) BY <2>7, <2>10 DEF Batch
  <2>13. /\ Settled(Range(merging'), Batch(b)) /\ Settled(Range(b.merge_node), {b.u})
         /\ AllInOrder(b.merge_node)
    BY <2>3, <2>5, <2>7, <2>8, <2>10, MergeSound DEF Batch
  <2>14. /\ uevq_tmp \in Seq(Batches) /\ uevq_tmp' \in Seq(Batches)
         /\ Len(uevq_tmp) \in Nat /\ Len(uevq_tmp') = Len(uevq_tmp) + 1
         /\ uevq_tmp'[1] = b
         /\ \A i \in 1..Len(uevq_tmp) :
              i + 1 \in 1..Len(uevq_tmp') /\ uevq_tmp'[i + 1] = uevq_tmp[i]
    <3>1. <<b>> \in Seq(Batches) /\ uevq_tmp \in Seq(Batches) BY <1>0, <2>11 DEF UevTypeOK
    <3> QED BY <2>5, <3>1
  <2>15. \A i \in 1..Len(uevq_tmp') :
           i = 1 \/ (i - 1 \in 1..Len(uevq_tmp) /\ uevq_tmp'[i] = uevq_tmp[i - 1])
    BY <2>14
  <2>16. Done' = Batch(b) \cup Done
    <3>1. ASSUME NEW x \in Done' PROVE x \in Batch(b) \cup Done
      <4>1. PICK i \in 1..Len(uevq_tmp') : x \in Batch(uevq_tmp'[i])
        BY DEF Done
      <4> QED BY <2>14, <2>15, <4>1 DEF Done
    <3>2. ASSUME NEW x \in Batch(b) PROVE x \in Done'
      BY <2>14 DEF Done
    <3>3. ASSUME NEW x \in Done PROVE x \in Done'
      <4>1. PICK i \in 1..Len(uevq_tmp) : x \in Batch(uevq_tmp[i]) BY DEF Done
      <4> QED BY <2>14, <4>1 DEF Done
    <3> QED BY <3>1, <3>2, <3>3
  <2>17. UevTypeOK' BY <1>0, <1>1, <2>5, <2>9, <2>14 DEF UevTypeOK
  <2>18. Sorted' BY <1>1, <2>9 DEF UevInv, Sorted
  <2>19. \A x \in Dispatched' : x \in Dispatched BY <1>1, <2>9, <2>12, <2>16 DEF Dispatched
  <2>20. Numbered' BY <1>1, <2>19 DEF UevInv, Numbered, Older
  <2>21. Arranged'
    <3>1. Settled(Range(merging), Done) /\ Settled(Range(triggered), Range(merging) \cup Done)
      BY DEF UevInv, Arranged
    <3>2. Settled(Range(triggered), Range(merging') \cup Done')
      BY <2>9, <2>12, <2>16, <3>1 DEF Settled
    <3>3. Settled(Range(merging'), Done')
      BY <2>9, <2>13, <2>16, <3>1 DEF Settled
    <3>4. ASSUME NEW i \in 1..Len(uevq_tmp')
          PROVE  /\ AllInOrder(uevq_tmp'[i].merge_node)
                 /\ Settled(Range(uevq_tmp'[i].merge_node), {uevq_tmp'[i].u})
      <4>1. CASE i = 1 BY <2>13, <2>14, <4>1
      <4>2. CASE i # 1
        <5>1. PICK k \in 1..Len(uevq_tmp) : uevq_tmp'[i] = uevq_tmp[k] BY <2>15, <4>2
        <5> QED BY <5>1 DEF UevInv, Arranged
      <4> QED BY <4>1, <4>2
    <3>5. ASSUME NEW i \in 1..Len(uevq_tmp'), NEW j \in 1..Len(uevq_tmp'), i < j
          PROVE  Settled(Batch(uevq_tmp'[i]), Batch(uevq_tmp'[j]))
      <4>1. PICK k \in 1..Len(uevq_tmp) : k = j - 1 /\ uevq_tmp'[j] = uevq_tmp[k]
        BY <2>14, <2>15, <3>5
      <4>2. CASE i = 1
        <5>1. \A x \in Batch(uevq_tmp[k]) : x \in Done BY DEF Done
        <5> QED BY <2>12, <2>14, <3>1, <4>1, <4>2, <5>1 DEF Settled
      <4>3. CASE i # 1
        <5>1. PICK l \in 1..Len(uevq_tmp) : l = i - 1 /\ uevq_tmp'[i] = uevq_tmp[l]
          BY <2>15, <4>3
        <5>2. l < k BY <3>5, <4>1, <5>1, <2>14
        <5> QED BY <4>1, <5>1, <5>2 DEF UevInv, Arranged
      <4> QED BY <4>2, <4>3
    <3>6. AllInOrder(triggered') BY <1>1 DEF UevInv, Arranged
    <3> QED BY <1>1, <3>2, <3>3, <3>4, <3>5, <3>6 DEF Arranged
  <2>22. Stage' BY <2>5 DEF Stage
  <2> QED BY <2>17, <2>18, <2>20, <2>21, <2>22 DEF UevInv
<1> QED BY <1>2, <1>3

\* uev_trigger() handles the first entry, when nothing is left to merge.
LEMMA UevServiceStep ==
  ASSUME UevInv, service_uevq
  PROVE  UevInv'
<1>0. UevTypeOK BY DEF UevInv
<1>1. UNCHANGED <<lun, uevlisten_tmp, uevq, merging, received>> /\ disp.pc = "service"
  BY DEF service_uevq
<1>2. CASE uevq_tmp = <<>>
  <2>1. disp' = [disp EXCEPT !.pc = "loop"] /\ UNCHANGED <<uevq_tmp, triggered>>
    BY <1>2 DEF service_uevq
  <2>2. Sorted' /\ Numbered' /\ Arranged' BY <1>1, <2>1, SamePlaces DEF UevPlace
  <2>3. UevTypeOK' BY <1>0, <1>1, <2>1 DEF UevTypeOK
  <2>4. Stage' BY <1>1, <1>2, <2>1 DEF UevInv, Stage
  <2> QED BY <2>2, <2>3, <2>4 DEF UevInv
<1>3. CASE uevq_tmp # <<>>
  <2>1. PICK b : b = Head(uevq_tmp) OBVIOUS
  <2>2. /\ triggered' = (triggered \o b.merge_node) \o <<b.u>>
        /\ uevq_tmp' = Tail(uevq_tmp) /\ disp' = disp
    BY <1>3, <2>1 DEF service_uevq
  <2>3. /\ uevq_tmp \in Seq(Batches) /\ Len(uevq_tmp) \in Nat /\ Len(uevq_tmp) # 0
        /\ b = uevq_tmp[1] /\ b \in Batches /\ 1 \in 1..Len(uevq_tmp)
    BY <1>0, <1>3, <2>1 DEF UevTypeOK
  <2>4. /\ uevq_tmp' \in Seq(Batches) /\ Len(uevq_tmp') = Len(uevq_tmp) - 1
        /\ \A i \in 1..Len(uevq_tmp') : i + 1 \in 1..Len(uevq_tmp) /\ uevq_tmp'[i] = uevq_tmp[i + 1]
    BY <1>3, <2>2, <2>3
  <2>5. /\ triggered \in Seq(Uevents) /\ b.merge_node \in Seq(Uevents) /\ b.u \in Uevents
        /\ <<b.u>> \in Seq(Uevents) /\ Range(<<b.u>>) = {b.u}
    BY <1>0, <2>3 DEF UevTypeOK, Batches, Range
  <2>6. PICK t : t = triggered \o b.merge_node OBVIOUS
  <2>7. t \in Seq(Uevents) /\ Range(t) = Range(triggered) \cup Range(b.merge_node)
    BY <2>5, <2>6, ConcatIs
  <2>8. triggered' = t \o <<b.u>> BY <2>2, <2>6
  <2>9. triggered' \in Seq(Uevents) /\ Range(triggered') = Range(t) \cup Range(<<b.u>>)
    <3>1. PICK v \in Seq(Uevents) : v = <<b.u>> BY <2>5
    <3>2. t \o v \in Seq(Uevents) /\ Range(t \o v) = Range(t) \cup Range(v) BY <2>7, ConcatIs
    <3> QED BY <2>8, <3>1, <3>2
  <2>10. Range(triggered') = Range(triggered) \cup Batch(b)
    BY <2>5, <2>7, <2>9 DEF Batch
  <2>11. Done = Batch(b) \cup Done'
    <3>1. ASSUME NEW x \in Done PROVE x \in Batch(b) \cup Done'
      <4>1. PICK i \in 1..Len(uevq_tmp) : x \in Batch(uevq_tmp[i]) BY DEF Done
      <4>2. CASE i = 1 BY <2>3, <4>1, <4>2
      <4>3. CASE i # 1
        <5>1. PICK k \in 1..Len(uevq_tmp') : k = i - 1 BY <2>3, <2>4, <4>3
        <5>2. uevq_tmp'[k] = uevq_tmp[i] BY <2>4, <5>1
        <5> QED BY <4>1, <5>1, <5>2 DEF Done
      <4> QED BY <4>2, <4>3
    <3>2. ASSUME NEW x \in Batch(b) PROVE x \in Done BY <2>3 DEF Done
    <3>3. ASSUME NEW x \in Done' PROVE x \in Done
      <4>1. PICK i \in 1..Len(uevq_tmp') : x \in Batch(uevq_tmp'[i]) BY DEF Done
      <4>2. i + 1 \in 1..Len(uevq_tmp) /\ uevq_tmp'[i] = uevq_tmp[i + 1] BY <2>4
      <4> QED BY <4>1, <4>2 DEF Done
    <3> QED BY <3>1, <3>2, <3>3
  <2>12. UevTypeOK' BY <1>0, <1>1, <2>2, <2>4, <2>9 DEF UevTypeOK
  <2>13. Sorted' BY <1>1 DEF UevInv, Sorted
  <2>14. Dispatched' = Dispatched BY <1>1, <2>10, <2>11 DEF Dispatched
  <2>15. Numbered' BY <1>1, <2>14 DEF UevInv, Numbered
  <2>16. Arranged'
    <3>1. /\ AllInOrder(triggered) /\ Settled(Range(triggered), Range(merging) \cup Done)
          /\ Settled(Range(merging), Done)
          /\ AllInOrder(b.merge_node) /\ Settled(Range(b.merge_node), {b.u})
      BY <2>3 DEF UevInv, Arranged
    <3>2. merging = <<>> /\ Range(merging) = {} BY <1>1 DEF UevInv, Stage, Range
    <3>3. AllInOrder(triggered')
      <4>1. /\ Settled(Range(triggered), Range(b.merge_node))
            /\ Settled(Range(t), {b.u})
        BY <2>7, <2>11, <3>1 DEF Settled, Batch
      <4>2. AllInOrder(t) BY <2>5, <2>6, <3>1, <4>1, ConcatInOrder
      <4>3. AllInOrder(<<b.u>>) BY DEF AllInOrder
      <4> QED BY <2>5, <2>7, <2>8, <4>1, <4>2, <4>3, ConcatInOrder
    <3>4. Settled(Batch(b), Done')
      <4> SUFFICES ASSUME NEW x \in Batch(b), NEW y \in Done' PROVE InOrder(x, y)
        BY DEF Settled
      <4>1. PICK i \in 1..Len(uevq_tmp') : y \in Batch(uevq_tmp'[i]) BY DEF Done
      <4>2. i + 1 \in 1..Len(uevq_tmp) /\ 1 < i + 1 /\ uevq_tmp'[i] = uevq_tmp[i + 1] BY <2>4
      <4>3. Settled(Batch(uevq_tmp[1]), Batch(uevq_tmp[i + 1]))
        BY <2>3, <4>2 DEF UevInv, Arranged
      <4> QED BY <2>3, <4>1, <4>2, <4>3 DEF Settled
    <3>5. Settled(Range(triggered'), Range(merging') \cup Done')
      BY <1>1, <2>10, <2>11, <3>1, <3>2, <3>4 DEF Settled
    <3>6. Settled(Range(merging'), Done') BY <1>1, <3>2 DEF Settled
    <3>7. ASSUME NEW i \in 1..Len(uevq_tmp')
          PROVE  /\ AllInOrder(uevq_tmp'[i].merge_node)
                 /\ Settled(Range(uevq_tmp'[i].merge_node), {uevq_tmp'[i].u})
      BY <2>4 DEF UevInv, Arranged
    <3>8. ASSUME NEW i \in 1..Len(uevq_tmp'), NEW j \in 1..Len(uevq_tmp'), i < j
          PROVE  Settled(Batch(uevq_tmp'[i]), Batch(uevq_tmp'[j]))
      BY <2>4, <3>8 DEF UevInv, Arranged
    <3> QED BY <3>3, <3>5, <3>6, <3>7, <3>8 DEF Arranged
  <2>17. Stage' BY <1>1, <2>2 DEF UevInv, Stage
  <2> QED BY <2>12, <2>13, <2>15, <2>16, <2>17 DEF UevInv
<1> QED BY <1>2, <1>3

\* The other steps leave the uevents where they are.
LEMMA UevOtherStep ==
  ASSUME UevInv, \/ \E d \in Named, w \in Wwids : Reassign(d, w)
                 \/ SpuriousWakeupUev
                 \/ UNCHANGED uev_vars
  PROVE  UevInv'
<1>1. UNCHANGED <<uevlisten_tmp, uevq, merging, uevq_tmp, received, triggered, disp.pc>>
  BY DEF UevInv, UevTypeOK, Reassign, SpuriousWakeupUev, uev_vars
<1>2. Sorted' /\ Numbered' /\ Arranged' BY <1>1, SamePlaces DEF UevPlace
<1>3. lun' \in [Named -> Wwids] BY DEF UevInv, UevTypeOK, Reassign, SpuriousWakeupUev, uev_vars
<1>4. disp' \in [pc : {"loop", "wait", "merge", "service"}, woken : BOOLEAN]
  BY DEF UevInv, UevTypeOK, Reassign, SpuriousWakeupUev, uev_vars
<1>5. UevTypeOK' BY <1>1, <1>3, <1>4 DEF UevInv, UevTypeOK
<1>6. Stage' BY <1>1 DEF UevInv, Stage
<1> QED BY <1>2, <1>5, <1>6 DEF UevInv

\* Every step keeps the invariant.
LEMMA UevStep == UevInv /\ [UevNext]_uev_vars => UevInv'
<1> SUFFICES ASSUME UevInv, [UevNext]_uev_vars PROVE UevInv' OBVIOUS
<1>1. ASSUME NEW d \in Devs, NEW a \in Actions, uevent_receive(d, a) PROVE UevInv'
  BY <1>1, UeventAssumption, UevReceiveStep
<1>2. CASE uevent_listen BY <1>2, UevListenStep
<1>3. CASE uevent_dispatch BY <1>3, UevDispatchStep
<1>4. CASE merge_uevq BY <1>4, UevMergeStep
<1>5. CASE service_uevq BY <1>5, UevServiceStep
<1>6. CASE \/ \E d \in Named, w \in Wwids : Reassign(d, w)
           \/ SpuriousWakeupUev
           \/ UNCHANGED uev_vars
  BY <1>6, UevOtherStep
<1> QED BY <1>1, <1>2, <1>3, <1>4, <1>5, <1>6 DEF UevNext

\* The add and remove uevents of a path that leads to one LUN are handled in
\* the order they arrived in, and none is moved across one of a map or without
\* a WWID, however uevent_filter() and uevent_merge() rearrange a burst.
THEOREM OrderKeptTheorem == UevSpec => []OrderKept
<1>1. UevInv => OrderKept BY InOrderMeansKept DEF UevInv, Arranged
<1> QED BY <1>1, UevInitial, UevStep, PTL DEF UevSpec
=============================================================================
