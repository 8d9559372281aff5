--------------------------- MODULE PathCheckProofs ---------------------------
(***************************************************************************)
(* Proofs about PathCheck, for any number of paths, priorities and         *)
(* settings: the counters stay in their ranges and failed paths are        *)
(* checked soon; if no reload fails and no ghost path is left passive,     *)
(* recovery mode follows the paths; and the last path is never held back.  *)
(***************************************************************************)
EXTENDS PathCheck, WellFoundedInduction, TLAPS

(***************************************************************************)
(* The inductive invariant                                                 *)
(***************************************************************************)
RetryTicks    == 0..(IF NoPathRetry > 0 THEN NoPathRetry * Checkint + 1 ELSE 0)
FailbackTicks == 0..(IF PgFailback > 0 THEN PgFailback + 1 ELSE 0)

\* Whether the table of the map could be read
Known == IF SyncMayFail THEN BOOLEAN ELSE {TRUE}

Mpps ==
  [no_path_retry : {NoPathRetry, FAIL}, disable_queueing : BOOLEAN, in_recovery : BOOLEAN,
   retry_tick : RetryTicks, features : {"null", "queue", "fail"}, pg : Known,
   failback_tick : FailbackTicks, bestpg : Paths, nextpg : Paths]

PathTicks == 0..MaxCheckint
Intervals == Checkint..MaxCheckint
Failures  == 0..(SanThreshold + 1)
Rates     == 0..SanForgetRate
Delays    == 0..(SanRecoveryTime + 1)

PathRecords ==
  [state : {"UP", "GHOST", "DOWN", "SHAKY", "PENDING", "DELAYED"},
   chkrstate : {"UP", "GHOST", "DOWN", "SHAKY"}, tick : PathTicks, checkint : Intervals,
   checker_disabled : BOOLEAN, path_failures : Failures, disable_reinstate : BOOLEAN,
   forget_rate : Rates, delayed_for : Delays]

\* A path that is not usable is checked soon, one that is to be delayed is
\* not usable, and failures are only counted up to the threshold.
PathStates ==
  {x \in PathRecords : /\ x.state \notin Good => x.tick <= Checkint
                       /\ x.state \in Good => ~x.disable_reinstate
                       /\ x.disable_reinstate => san_path_check_enabled
                       /\ x.checker_disabled => Operator
                       /\ ~x.disable_reinstate => x.path_failures <= SanThreshold}

Dms == [path : [Paths -> {"A", "F"}], queue : BOOLEAN, pg : Paths, event : BOOLEAN]

States == [mpp : Mpps, pp : [Paths -> PathStates], dm : Dms]

\* Recovery mode follows the paths.
Consistent(w) ==
  w.mpp.no_path_retry > 0 /\ w.mpp.pg => (w.mpp.in_recovery <=> ~Active(w))

\* A reload that is begun succeeds, and a ghost path is always made active.
Tame == ~ImplicitTpgs /\ FALSE \notin Reloads

PathInv ==
  /\ W \in States /\ turn \in 1..(NPaths + 1)
  /\ Tame => Consistent(W)
-----------------------------------------------------------------------------
(***************************************************************************)
(* The best path group                                                     *)
(***************************************************************************)
\* A set of natural numbers has a least element.
LEMMA LeastNat ==
  ASSUME NEW T, T \subseteq Nat, T # {}
  PROVE  \E x \in T : \A y \in T : x <= y
<1> DEFINE R == OpToRel(<, Nat)
<1>1. IsWellFoundedOn(R, Nat) BY NatLessThanWellFounded
<1>2. \A x, y \in Nat : x < y => <<x, y>> \in R BY DEF OpToRel
<1> HIDE DEF R
<1>3. PICK x \in T : \A y \in T : ~(<<y, x>> \in R) BY <1>1, WFMin
<1>4. ASSUME NEW y \in T PROVE x <= y
  <2>1. x \in Nat /\ y \in Nat OBVIOUS
  <2>2. ~(<<y, x>> \in R) BY <1>3
  <2>3. ~(y < x) BY <1>2, <2>1, <2>2
  <2> QED BY <2>1, <2>3
<1> QED BY <1>4

\* Some path has the highest priority.
LEMMA BestExists ==
  ASSUME NEW U, U \subseteq Paths, U # {}
  PROVE  \E p \in U : \A q \in U : Prio[p] >= Prio[q]
<1> DEFINE Best(n) == \/ \A q \in U : q > n
                      \/ \E p \in U : p <= n /\ \A q \in U : q <= n => Prio[p] >= Prio[q]
           bad == {n \in Nat : n <= NPaths /\ ~Best(n)}
<1>1. /\ NPaths \in Nat /\ Prio \in [Paths -> Nat]
      /\ \A q \in U : q \in Nat /\ 1 <= q /\ q <= NPaths
      /\ \A q \in U : q \in Paths /\ Prio[q] \in Nat
  BY PathCheckAssumption DEF Paths
<1>2. bad = {}
  <2> SUFFICES ASSUME bad # {} PROVE FALSE
    OBVIOUS
  <2>1. PICK n \in bad : \A m \in bad : n <= m
    <3>1. bad \subseteq Nat OBVIOUS
    <3> HIDE DEF bad
    <3> QED BY <3>1, LeastNat
  <2>2. n \in Nat /\ n <= NPaths /\ ~Best(n) BY <2>1
  <2>3. n # 0
    <3>1. \A q \in U : q > 0 BY <1>1
    <3> QED BY <2>2, <3>1
  <2>4. n - 1 \in Nat /\ n - 1 <= NPaths /\ n - 1 \notin bad BY <1>1, <2>1, <2>2, <2>3
  <2>10. PICK k \in Nat : k = n - 1 BY <2>4
  <2>5. Best(k)
    <3>1. \A i \in Nat : i <= NPaths /\ i \notin bad => Best(i) OBVIOUS
    <3>2. k <= NPaths /\ k \notin bad BY <2>4, <2>10
    <3> HIDE DEF Best, bad
    <3> QED BY <2>10, <3>1, <3>2
  <2>6. \A q \in U : q <= k \/ q = n \/ q > n
    <3>1. ASSUME NEW q \in U PROVE q <= k \/ q = n \/ q > n
      <4>1. q \in Nat /\ n \in Nat /\ k \in Nat /\ k = n - 1 BY <1>1, <2>2, <2>10
      <4> HIDE DEF bad
      <4> QED BY <4>1
    <3> QED BY <3>1
  <2>7. CASE n \notin U
    <3>1. CASE \A q \in U : q > k BY <1>1, <2>2, <2>10, <2>7, <3>1
    <3>2. ASSUME NEW p \in U, p <= k, \A q \in U : q <= k => Prio[p] >= Prio[q]
          PROVE  FALSE
      BY <1>1, <2>2, <2>10, <2>6, <2>7, <3>2
    <3> QED BY <2>5, <3>1, <3>2
  <2>8. CASE n \in U
    <3>1. CASE \A q \in U : q > k
      <4>1. \A q \in U : q <= n => q = n BY <1>1, <2>2, <2>10, <3>1
      <4>2. Prio[n] >= Prio[n] /\ n <= n BY <1>1, <2>8
      <4> QED BY <2>2, <2>8, <4>1, <4>2
    <3>2. ASSUME NEW p \in U, p <= k, \A q \in U : q <= k => Prio[p] >= Prio[q]
          PROVE  FALSE
      <4>1. p <= n BY <1>1, <2>2, <2>10, <3>2
      <4>2. CASE Prio[p] >= Prio[n]
        <5>1. \A q \in U : q <= n => Prio[p] >= Prio[q] BY <1>1, <2>2, <2>10, <2>6, <3>2, <4>2
        <5> QED BY <2>2, <4>1, <5>1
      <4>3. CASE Prio[n] > Prio[p]
        <5>1. \A q \in U : q <= n => Prio[n] >= Prio[q]
          BY <1>1, <2>2, <2>10, <2>6, <2>8, <3>2, <4>3
        <5>2. n <= n BY <2>2
        <5> QED BY <2>2, <2>8, <5>1, <5>2
      <4> QED BY <1>1, <2>8, <4>2, <4>3
    <3> QED BY <2>5, <3>1, <3>2
  <2> QED BY <2>7, <2>8
<1>3. Best(NPaths)
  <2>1. \A k \in Nat : k <= NPaths /\ k \notin bad => Best(k) OBVIOUS
  <2>2. NPaths \in Nat /\ NPaths <= NPaths BY <1>1
  <2> HIDE DEF Best, bad
  <2> QED BY <1>2, <2>1, <2>2
<1>4. \A q \in U : q <= NPaths /\ ~(q > NPaths) BY <1>1
<1> QED BY <1>3, <1>4

\* select_path_group() returns a path group.
LEMMA SelectIs == ASSUME NEW w PROVE select_path_group(w) \in Paths
<1> DEFINE usable == {p \in Paths : w.pp[p].state \in Good}
           best   == {p \in usable : \A q \in usable : Prio[p] >= Prio[q]}
<1>1. 1 \in Paths BY PathCheckAssumption DEF Paths
<1>2. CASE ~w.mpp.pg \/ usable = {} BY <1>1, <1>2 DEF select_path_group
<1>3. CASE ~(~w.mpp.pg \/ usable = {})
  <2>1. best \subseteq Paths OBVIOUS
  <2>2. best # {}
    <3>1. usable \subseteq Paths /\ usable # {} BY <1>3
    <3> HIDE DEF usable
    <3> QED BY <3>1, BestExists
  <2>3. select_path_group(w) = CHOOSE p \in best : \A q \in best : p <= q
    BY <1>3 DEF select_path_group
  <2> HIDE DEF best, usable
  <2>4. best \subseteq Nat BY <2>1, PathCheckAssumption DEF Paths
  <2>5. \E p \in best : \A q \in best : p <= q BY <2>2, <2>4, LeastNat
  <2> QED BY <2>1, <2>3, <2>5
<1> QED BY <1>2, <1>3
-----------------------------------------------------------------------------
(***************************************************************************)
(* The kernel's operations                                                 *)
(***************************************************************************)
\* Only the group structure and the paths' states decide on usability.
LEMMA ActiveSame ==
  ASSUME NEW w, NEW v, v.mpp.pg = w.mpp.pg, v.pp = w.pp
  PROVE  Active(v) <=> Active(w)
BY DEF Active

\* The kernel's operations keep the types, and the daemon's state.
LEMMA QueueIs ==
  ASSUME NEW w \in States, NEW on \in BOOLEAN
  PROVE  LET v == dm_queue_if_no_path(w, on)
         IN  v \in States /\ v.mpp = w.mpp /\ v.pp = w.pp
BY DEF States, Dms, dm_queue_if_no_path

LEMMA PathIs ==
  ASSUME NEW w \in States, NEW p \in Paths, NEW s \in {"A", "F"}
  PROVE  LET v == SetPath(w, p, s)
         IN  v \in States /\ v.mpp = w.mpp /\ v.pp = w.pp
BY DEF States, Dms, SetPath

LEMMA SwitchIs ==
  ASSUME NEW w \in States, NEW g \in Paths
  PROVE  LET v == dm_switchgroup(w, g)
         IN  v \in States /\ v.mpp = w.mpp /\ v.pp = w.pp
BY DEF States, Dms, dm_switchgroup

LEMMA AddmapIs ==
  ASSUME NEW w \in States, NEW g \in Paths, NEW queue \in BOOLEAN
  PROVE  LET v == dm_addmap_reload(w, queue, g)
         IN  v \in States /\ v.mpp = w.mpp /\ v.pp = w.pp
BY DEF States, Dms, dm_addmap_reload

\* The counters of the map
LEMMA RetryTicksIs ==
  /\ 0 \in RetryTicks /\ RetryTicks \subseteq Nat
  /\ NoPathRetry > 0 => NoPathRetry * Checkint + 1 \in RetryTicks
  /\ \A t \in RetryTicks : t # 0 => t - 1 \in RetryTicks
<1>1. CASE NoPathRetry > 0
  <2>1. PICK m \in Nat : m = NoPathRetry * Checkint BY <1>1, PathCheckAssumption
  <2> QED BY <1>1, <2>1 DEF RetryTicks
<1>2. CASE ~(NoPathRetry > 0) BY <1>2 DEF RetryTicks
<1> QED BY <1>1, <1>2

LEMMA FailbackTicksAre ==
  /\ 0 \in FailbackTicks /\ FailbackTicks \subseteq Nat
  /\ PgFailback > 0 => PgFailback + 1 \in FailbackTicks
  /\ \A t \in FailbackTicks : t > 0 => t - 1 \in FailbackTicks
BY PathCheckAssumption DEF FailbackTicks

\* Recovery mode is entered and left as a whole.
LEMMA EnterIs ==
  ASSUME NEW w \in States
  PROVE  LET v == enter_recovery_mode(w)
         IN  /\ v \in States /\ v.pp = w.pp /\ v.mpp.pg = w.mpp.pg
             /\ v.mpp.no_path_retry = w.mpp.no_path_retry
             /\ w.mpp.no_path_retry > 0 => v.mpp.in_recovery
<1>1. CASE w.mpp.in_recovery \/ w.mpp.no_path_retry <= 0
  BY <1>1, PathCheckAssumption DEF States, Mpps, enter_recovery_mode, FAIL, QUEUE
<1>2. CASE ~(w.mpp.in_recovery \/ w.mpp.no_path_retry <= 0)
  <2>1. w.mpp.no_path_retry = NoPathRetry /\ NoPathRetry > 0
    BY <1>2, PathCheckAssumption DEF States, Mpps, FAIL, QUEUE
  <2>2. PICK t \in RetryTicks : t = w.mpp.no_path_retry * Checkint + 1
    BY <2>1, RetryTicksIs
  <2> DEFINE u == [w EXCEPT !.mpp.in_recovery = TRUE, !.mpp.retry_tick = t]
  <2>3. enter_recovery_mode(w) = u BY <1>2, <2>2 DEF enter_recovery_mode
  <2>4. /\ u \in States /\ u.pp = w.pp /\ u.mpp.pg = w.mpp.pg
        /\ u.mpp.no_path_retry = w.mpp.no_path_retry /\ u.mpp.in_recovery
    BY DEF States, Mpps
  <2> HIDE DEF u
  <2> QED BY <2>3, <2>4
<1> QED BY <1>1, <1>2

LEMMA LeaveIs ==
  ASSUME NEW w \in States
  PROVE  LET v == leave_recovery_mode(w)
         IN  /\ v \in States /\ v.pp = w.pp /\ v.mpp.pg = w.mpp.pg
             /\ v.mpp.no_path_retry = w.mpp.no_path_retry
             /\ ~v.mpp.in_recovery
<1> DEFINE u == [w EXCEPT !.mpp.in_recovery = FALSE, !.mpp.retry_tick = 0]
<1>1. /\ u \in States /\ u.pp = w.pp /\ u.mpp.pg = w.mpp.pg
      /\ u.mpp.no_path_retry = w.mpp.no_path_retry /\ ~u.mpp.in_recovery
  BY RetryTicksIs DEF States, Mpps
<1>2. leave_recovery_mode(w) \in {u, dm_queue_if_no_path(u, TRUE)} BY DEF leave_recovery_mode
<1> HIDE DEF u
<1> QED BY <1>1, <1>2, QueueIs

\* Recovery mode follows the paths once no_path_retry was applied.
LEMMA RetryModeIs ==
  ASSUME NEW w \in States
  PROVE  LET v == set_no_path_retry(w)
         IN  /\ v \in States /\ v.pp = w.pp /\ v.mpp.pg = w.mpp.pg
             /\ v.mpp.no_path_retry = w.mpp.no_path_retry /\ Consistent(v)
<1> DEFINE n == w.mpp.no_path_retry
           Result(v) == /\ v \in States /\ v.pp = w.pp /\ v.mpp.pg = w.mpp.pg
                        /\ v.mpp.no_path_retry = n /\ Consistent(v)
<1>1. n \in Int /\ n >= -2 /\ n \in {NoPathRetry, FAIL}
  BY PathCheckAssumption DEF States, Mpps, FAIL, QUEUE
<1>2. n = FAIL \/ n = QUEUE \/ n = UNDEF \/ n > 0 BY <1>1 DEF FAIL, QUEUE, UNDEF
<1>3. ASSUME NEW on \in BOOLEAN PROVE dm_queue_if_no_path(w, on).mpp = w.mpp
                                      /\ dm_queue_if_no_path(w, on).pp = w.pp
                                      /\ dm_queue_if_no_path(w, on) \in States
  BY <1>3, QueueIs
<1>4. CASE ~(n > 0)
  <2>1. set_no_path_retry(w) \in
          {w, dm_queue_if_no_path(w, TRUE), dm_queue_if_no_path(w, FALSE)}
    BY <1>2, <1>4 DEF set_no_path_retry, FAIL, QUEUE, UNDEF
  <2>2. \A v \in {w, dm_queue_if_no_path(w, TRUE), dm_queue_if_no_path(w, FALSE)} :
          v \in States /\ v.mpp = w.mpp /\ v.pp = w.pp
    BY <1>3
  <2>3. \A v : v.mpp = w.mpp => Consistent(v) BY <1>4 DEF Consistent
  <2> QED BY <2>1, <2>2, <2>3
<1>5. CASE n > 0 /\ Active(w)
  <2> DEFINE on == w.mpp.features # "queue" /\ ~w.mpp.in_recovery
             u0 == IF on THEN dm_queue_if_no_path(w, TRUE) ELSE w
  <2>0. n # FAIL /\ n # QUEUE /\ n # UNDEF /\ n > 0
    BY <1>1, <1>5 DEF FAIL, QUEUE, UNDEF
  <2>a. set_no_path_retry(w) = leave_recovery_mode(u0)
    BY <1>5, <2>0 DEF set_no_path_retry
  <2>1. PICK u \in {w, dm_queue_if_no_path(w, TRUE)} :
          set_no_path_retry(w) = leave_recovery_mode(u)
    BY <2>a
  <2>2. u \in States /\ u.mpp = w.mpp /\ u.pp = w.pp BY <1>3
  <2>3. PICK v : v = leave_recovery_mode(u) OBVIOUS
  <2>4. /\ v \in States /\ v.pp = w.pp /\ v.mpp.pg = w.mpp.pg
        /\ v.mpp.no_path_retry = n /\ ~v.mpp.in_recovery
    BY <2>2, <2>3, LeaveIs
  <2>5. Active(v) BY <1>5, <2>4, ActiveSame
  <2> QED BY <2>1, <2>3, <2>4, <2>5 DEF Consistent
<1>6. CASE n > 0 /\ ~Active(w)
  <2>0. n # FAIL /\ n # QUEUE /\ n # UNDEF /\ n > 0
    BY <1>1, <1>6 DEF FAIL, QUEUE, UNDEF
  <2>1. set_no_path_retry(w) = enter_recovery_mode(w)
    BY <1>6, <2>0 DEF set_no_path_retry
  <2>3. PICK v : v = enter_recovery_mode(w) OBVIOUS
  <2>4. /\ v \in States /\ v.pp = w.pp /\ v.mpp.pg = w.mpp.pg
        /\ v.mpp.no_path_retry = n /\ v.mpp.in_recovery
    BY <1>6, <2>3, EnterIs
  <2>5. ~Active(v) BY <1>6, <2>4, ActiveSame
  <2> QED BY <2>1, <2>3, <2>4, <2>5 DEF Consistent
<1> QED BY <1>4, <1>5, <1>6

\* A path gone or come back moves the map into or out of recovery mode.
LEMMA DelPathIs ==
  ASSUME NEW w \in States
  PROVE  LET v == update_queue_mode_del_path(w)
         IN  /\ v \in States /\ v.pp = w.pp /\ v.mpp.pg = w.mpp.pg
             /\ v.mpp.no_path_retry = w.mpp.no_path_retry
             /\ Consistent(w) \/ ~Active(w) => Consistent(v)
<1>1. CASE Active(w) BY <1>1 DEF update_queue_mode_del_path
<1>2. CASE ~Active(w)
  <2>1. PICK v : v = enter_recovery_mode(w) OBVIOUS
  <2>2. /\ v \in States /\ v.pp = w.pp /\ v.mpp.pg = w.mpp.pg
        /\ v.mpp.no_path_retry = w.mpp.no_path_retry
        /\ w.mpp.no_path_retry > 0 => v.mpp.in_recovery
    BY <2>1, EnterIs
  <2>3. ~Active(v) BY <1>2, <2>2, ActiveSame
  <2> QED BY <1>2, <2>1, <2>2, <2>3 DEF update_queue_mode_del_path, Consistent
<1> QED BY <1>1, <1>2

LEMMA AddPathIs ==
  ASSUME NEW w \in States
  PROVE  LET v == update_queue_mode_add_path(w)
         IN  /\ v \in States /\ v.pp = w.pp /\ v.mpp.pg = w.mpp.pg
             /\ v.mpp.no_path_retry = w.mpp.no_path_retry
             /\ Consistent(w) \/ Active(w) => Consistent(v)
<1>1. CASE ~Active(w) BY <1>1 DEF update_queue_mode_add_path
<1>2. CASE Active(w)
  <2>1. PICK v : v = leave_recovery_mode(w) OBVIOUS
  <2>2. /\ v \in States /\ v.pp = w.pp /\ v.mpp.pg = w.mpp.pg
        /\ v.mpp.no_path_retry = w.mpp.no_path_retry /\ ~v.mpp.in_recovery
    BY <2>1, LeaveIs
  <2>3. Active(v) BY <1>2, <2>2, ActiveSame
  <2> QED BY <1>2, <2>1, <2>2, <2>3 DEF update_queue_mode_add_path, Consistent
<1> QED BY <1>1, <1>2

\* Reading the table, and telling the kernel the checkers' states, leave the paths alone.
LEMMA StringsIs ==
  ASSUME NEW w \in States, NEW known \in Known
  PROVE  LET v == update_multipath_strings(w, known)
         IN  /\ v \in States /\ v.pp = w.pp /\ v.dm = w.dm /\ v.mpp.pg = known
             /\ v.mpp.no_path_retry = w.mpp.no_path_retry
BY DEF States, Mpps, Dms, update_multipath_strings

LEMMA SyncIs ==
  ASSUME NEW w \in States
  PROVE  LET v == sync_map_state(w)
         IN  v \in States /\ v.mpp = w.mpp /\ v.pp = w.pp
BY DEF States, Dms, sync_map_state

\* After a reload that succeeds, recovery mode follows the paths.
LEMMA ReloadIs ==
  ASSUME NEW w \in States, NEW load \in BOOLEAN
  PROVE  LET v == reload_and_sync_map(w, load)
         IN  v \in States /\ v.pp = w.pp /\ (load => Consistent(v))
<1> DEFINE g == select_path_group(w)
           v == [w EXCEPT !.mpp.disable_queueing = FALSE, !.mpp.no_path_retry = NoPathRetry,
                          !.mpp.bestpg = g, !.mpp.pg = TRUE]
           queue == NoPathRetry \notin {UNDEF, FAIL}
           u == [v EXCEPT !.mpp.features = IF queue THEN "queue" ELSE "fail"]
<1>1. g \in Paths BY SelectIs
<1>2. reload_and_sync_map(w, load) =
        IF ~load THEN u
        ELSE sync_map_state(set_no_path_retry(
               update_multipath_strings(dm_addmap_reload(v, queue, g), TRUE)))
  BY DEF reload_and_sync_map
<1>3. v \in States /\ v.pp = w.pp
  <2> HIDE DEF g
  <2> QED BY <1>1 DEF States, Mpps, Known
<1>4. CASE ~load
  <2> HIDE DEF v
  <2>1. u \in States /\ u.pp = w.pp
    <3> HIDE DEF queue
    <3> QED BY <1>3 DEF States, Mpps
  <2> HIDE DEF u
  <2> QED BY <1>2, <1>4, <2>1
<1>5. CASE load
  <2> HIDE DEF v
  <2>1. PICK a : a = dm_addmap_reload(v, queue, g) OBVIOUS
  <2>2. a \in States /\ a.pp = w.pp
    <3>1. queue \in BOOLEAN OBVIOUS
    <3> HIDE DEF queue, g
    <3> QED BY <1>1, <1>3, <2>1, <3>1, AddmapIs
  <2>3. PICK b : b = update_multipath_strings(a, TRUE) OBVIOUS
  <2>4. b \in States /\ b.pp = w.pp BY <2>2, <2>3, StringsIs DEF Known
  <2>5. PICK c : c = set_no_path_retry(b) OBVIOUS
  <2>6. c \in States /\ c.pp = w.pp /\ Consistent(c) BY <2>4, <2>5, RetryModeIs
  <2>7. PICK d : d = sync_map_state(c) OBVIOUS
  <2>8. d \in States /\ d.pp = c.pp /\ d.mpp = c.mpp BY <2>6, <2>7, SyncIs
  <2>9. Consistent(d) BY <2>6, <2>8, ActiveSame DEF Consistent
  <2> QED BY <1>2, <1>5, <2>1, <2>3, <2>5, <2>6, <2>7, <2>8, <2>9
<1> QED BY <1>4, <1>5
-----------------------------------------------------------------------------
(***************************************************************************)
(* check_path()                                                            *)
(***************************************************************************)
\* One path gets a new state.
LEMMA PpIs ==
  ASSUME NEW w \in States, NEW p \in Paths, NEW x \in PathStates
  PROVE  LET v == [w EXCEPT !.pp[p] = x]
         IN  /\ v \in States /\ v.mpp = w.mpp /\ v.dm = w.dm
             /\ v.pp = [w.pp EXCEPT ![p] = x] /\ v.pp[p] = x
BY DEF States

\* What the state of one path says of the usability of the map.
LEMMA ActiveChange ==
  ASSUME NEW w \in States, NEW v, NEW p \in Paths, NEW x,
         v.mpp = w.mpp, v.pp = [w.pp EXCEPT ![p] = x]
  PROVE  /\ (x.state \in Good <=> w.pp[p].state \in Good) => (Active(v) <=> Active(w))
         /\ x.state \in Good /\ w.mpp.pg => Active(v)
         /\ x.state \notin Good /\ Active(v) => Active(w)
<1>1. w.pp \in [Paths -> PathStates] BY DEF States
<1>2. v.pp[p] = x /\ \A q \in Paths : q # p => v.pp[q] = w.pp[q] BY <1>1
<1> QED BY <1>2 DEF Active

\* The counters of a path
LEMMA CountersAre ==
  /\ SanThreshold \in Nat /\ SanForgetRate \in Nat /\ SanRecoveryTime \in Nat
  /\ Checkint \in Nat
  /\ {1, Checkint, MaxCheckint} \subseteq PathTicks /\ PathTicks \subseteq Nat
  /\ \A t \in PathTicks : t > 1 => t - 1 \in PathTicks
  /\ {Checkint, MaxCheckint} \subseteq Intervals /\ Intervals \subseteq PathTicks
  /\ \A i \in Intervals : i < MaxCheckint \div 2 => 2 * i \in Intervals
  /\ 0 \in Failures /\ Failures \subseteq Nat
  /\ \A f \in Failures : (f > 0 => f - 1 \in Failures)
                       /\ (f <= SanThreshold => f + 1 \in Failures)
  /\ {0, SanForgetRate} \subseteq Rates /\ Rates \subseteq Nat
  /\ \A r \in Rates : r > 0 => r - 1 \in Rates
  /\ 0 \in Delays /\ Delays \subseteq Nat
  /\ \A t \in Delays : t <= SanRecoveryTime => t + 1 \in Delays
<1>1. /\ Checkint \in Nat /\ MaxCheckint \in Nat /\ 1 <= Checkint /\ Checkint <= MaxCheckint
      /\ SanThreshold \in Nat /\ SanForgetRate \in Nat /\ SanRecoveryTime \in Nat
  BY PathCheckAssumption
<1>2. /\ {1, Checkint, MaxCheckint} \subseteq PathTicks /\ PathTicks \subseteq Nat
      /\ \A t \in PathTicks : t > 1 => t - 1 \in PathTicks
      /\ {Checkint, MaxCheckint} \subseteq Intervals /\ Intervals \subseteq PathTicks
  BY <1>1 DEF PathTicks, Intervals
<1>3. \A i \in Intervals : i < MaxCheckint \div 2 => 2 * i \in Intervals
  <2> SUFFICES ASSUME NEW i \in Intervals, i < MaxCheckint \div 2 PROVE 2 * i \in Intervals
    OBVIOUS
  <2>1. i \in Nat /\ Checkint <= i BY <1>1 DEF Intervals
  <2>2. 2 * i <= MaxCheckint BY <1>1, <2>1
  <2> QED BY <1>1, <2>1, <2>2 DEF Intervals
<1>4. /\ 0 \in Failures /\ Failures \subseteq Nat
      /\ \A f \in Failures : (f > 0 => f - 1 \in Failures)
                           /\ (f <= SanThreshold => f + 1 \in Failures)
  BY <1>1 DEF Failures
<1>5. /\ {0, SanForgetRate} \subseteq Rates /\ Rates \subseteq Nat
      /\ \A r \in Rates : r > 0 => r - 1 \in Rates
      /\ 0 \in Delays /\ Delays \subseteq Nat
      /\ \A t \in Delays : t <= SanRecoveryTime => t + 1 \in Delays
  BY <1>1 DEF Rates, Delays
<1> QED BY <1>1, <1>2, <1>3, <1>4, <1>5

\* A path that is delayed is not usable, one that is not delayed may become so.
LEMMA ReinstateIs ==
  ASSUME NEW w \in States, NEW p \in Paths, san_path_check_enabled
  PROVE  LET r == check_path_reinstate_state(w, p)
         IN  /\ r[1] \in PathStates /\ r[2] \in BOOLEAN
             /\ r[1].state = w.pp[p].state /\ r[1].tick = w.pp[p].tick
             /\ ~r[2] => ~r[1].disable_reinstate
             /\ r[2] => w.pp[p].state \notin Good
             /\ r[2] /\ w.pp[p].disable_reinstate => Active(w)
<1> DEFINE x == w.pp[p]
           R(r) == /\ r[1] \in PathStates /\ r[2] \in BOOLEAN
                   /\ r[1].state = x.state /\ r[1].tick = x.tick
                   /\ ~r[2] => ~r[1].disable_reinstate
                   /\ r[2] => x.state \notin Good
                   /\ r[2] /\ x.disable_reinstate => Active(w)
           clear == [x EXCEPT !.path_failures = 0, !.disable_reinstate = FALSE,
                              !.forget_rate = 0]
           y0 == [x EXCEPT !.forget_rate = SanForgetRate, !.delayed_for = 0]
           y  == IF x.state \in Good \cup {"DELAYED"} THEN x ELSE y0
           less == [x EXCEPT !.forget_rate = @ - 1]
           again == [x EXCEPT !.path_failures = @ - 1, !.forget_rate = SanForgetRate]
           forget == IF x.forget_rate > 0 THEN less ELSE again
           count == [x EXCEPT !.path_failures = @ + 1,
                              !.forget_rate = IF x.path_failures = 0 THEN SanForgetRate ELSE @]
           delay == [count EXCEPT !.delayed_for = 0, !.disable_reinstate = TRUE]
<1>1. x \in PathStates BY DEF States
<1>2. check_path_reinstate_state(w, p) =
        CASE x.disable_reinstate /\ (~Active(w) \/ y.delayed_for > SanRecoveryTime)
               -> <<clear, FALSE>>
          [] x.disable_reinstate /\ Active(w) /\ y.delayed_for <= SanRecoveryTime -> <<y, TRUE>>
          [] ~x.disable_reinstate /\ x.state \in Good /\ x.path_failures > 0 -> <<forget, FALSE>>
          [] ~x.disable_reinstate /\ x.state \in {"DOWN", "SHAKY"} ->
               IF count.path_failures > SanThreshold THEN <<delay, TRUE>> ELSE <<count, FALSE>>
          [] OTHER -> <<x, FALSE>>
  BY DEF check_path_reinstate_state
<1> HIDE DEF x
<1>3. R(<<clear, FALSE>>)
  <2>1. clear \in PathRecords /\ clear.state = x.state /\ clear.tick = x.tick
        /\ clear.path_failures = 0 /\ clear.disable_reinstate = FALSE
        /\ clear.checker_disabled = x.checker_disabled
    BY <1>1, CountersAre DEF PathStates, PathRecords
  <2>2. 0 <= SanThreshold BY CountersAre
  <2>3. clear \in PathStates
    <3> HIDE DEF clear
    <3> QED BY <1>1, <2>1, <2>2 DEF PathStates
  <2> HIDE DEF clear
  <2> QED BY <2>1, <2>3
<1>4. y \in PathStates /\ y.state = x.state /\ y.tick = x.tick
      /\ y.disable_reinstate = x.disable_reinstate
  BY <1>1, CountersAre DEF PathStates, PathRecords
<1>5. CASE x.disable_reinstate
  <2>1. x.state \notin Good BY <1>1, <1>5 DEF PathStates
  <2>2. Active(w) => R(<<y, TRUE>>)
    <3> HIDE DEF y
    <3> QED BY <1>4, <2>1
  <2>3. y.delayed_for \in Nat BY <1>4, CountersAre DEF PathStates, PathRecords
  <2>4. \/ check_path_reinstate_state(w, p) = <<clear, FALSE>>
        \/ Active(w) /\ check_path_reinstate_state(w, p) = <<y, TRUE>>
    <3>1. y.delayed_for > SanRecoveryTime \/ y.delayed_for <= SanRecoveryTime
      BY <2>3, CountersAre
    <3> HIDE DEF y, clear, forget, count, delay
    <3>2. CASE ~Active(w) \/ y.delayed_for > SanRecoveryTime BY <1>2, <1>5, <3>2
    <3>3. CASE Active(w) /\ y.delayed_for <= SanRecoveryTime
      <4>1. ~(~Active(w) \/ y.delayed_for > SanRecoveryTime) BY <2>3, <3>3, CountersAre
      <4> QED BY <1>2, <1>5, <3>3, <4>1
    <3> QED BY <3>1, <3>2, <3>3
  <2> HIDE DEF R, y, clear
  <2>5. R(check_path_reinstate_state(w, p)) BY <1>3, <2>2, <2>4
  <2> QED BY <2>5 DEF R, x
<1>6. CASE ~x.disable_reinstate /\ x.state \in Good /\ x.path_failures > 0
  <2>1. less \in PathStates \/ ~(x.forget_rate > 0)
    BY <1>1, <1>6, CountersAre DEF PathStates, PathRecords
  <2>2. again \in PathStates
    <3>1. x.path_failures \in Failures /\ x.path_failures <= SanThreshold
      BY <1>1, <1>6 DEF PathStates, PathRecords
    <3>2. PICK f : f = x.path_failures - 1 OBVIOUS
    <3>a. x.path_failures \in Nat /\ x.path_failures > 0 /\ SanThreshold \in Nat
      BY <1>6, <3>1, CountersAre
    <3>b. f \in Failures BY <1>6, <3>1, <3>2, CountersAre
    <3>c. f <= SanThreshold BY <3>1, <3>2, <3>a
    <3>3. again = [x EXCEPT !.path_failures = f, !.forget_rate = SanForgetRate] BY <3>2
    <3> HIDE DEF again
    <3> QED BY <1>1, <1>6, <3>3, <3>b, <3>c, CountersAre DEF PathStates, PathRecords
  <2>3. forget \in PathStates /\ forget.state = x.state /\ forget.tick = x.tick
        /\ forget.disable_reinstate = x.disable_reinstate
    BY <1>1, <2>1, <2>2 DEF PathStates, PathRecords
  <2>4. check_path_reinstate_state(w, p) = <<forget, FALSE>>
    <3>1. x.state \notin {"DOWN", "SHAKY"} BY <1>6 DEF Good
    <3> HIDE DEF y, clear, forget, count, delay
    <3> QED BY <1>2, <1>6, <3>1
  <2> HIDE DEF forget
  <2> QED BY <1>6, <2>3, <2>4 DEF x
<1>7. CASE ~x.disable_reinstate /\ x.state \in {"DOWN", "SHAKY"}
  <2>1. /\ count.path_failures = x.path_failures + 1 /\ x.path_failures <= SanThreshold
        /\ x.path_failures \in Nat
    BY <1>1, <1>7, CountersAre DEF PathStates, PathRecords
  <2>2. count.path_failures <= SanThreshold => R(<<count, FALSE>>)
    BY <1>1, <1>7, <2>1, CountersAre DEF PathStates, PathRecords, Good
  <2>3. R(<<delay, TRUE>>)
    BY <1>1, <1>7, <2>1, CountersAre DEF PathStates, PathRecords, Good
  <2>4. \/ check_path_reinstate_state(w, p) = <<delay, TRUE>>
        \/ /\ count.path_failures <= SanThreshold
           /\ check_path_reinstate_state(w, p) = <<count, FALSE>>
    <3>1. x.state \notin Good BY <1>7 DEF Good
    <3>2. count.path_failures > SanThreshold \/ count.path_failures <= SanThreshold
      BY <2>1, CountersAre
    <3> HIDE DEF y, clear, forget, count, delay
    <3> QED BY <1>2, <1>7, <3>1, <3>2
  <2> HIDE DEF R, count, delay
  <2>5. R(check_path_reinstate_state(w, p)) BY <2>2, <2>3, <2>4
  <2> QED BY <2>5 DEF R, x
<1>8. CASE ~(\/ x.disable_reinstate
             \/ x.state \in Good /\ x.path_failures > 0
             \/ x.state \in {"DOWN", "SHAKY"})
  <2>1. check_path_reinstate_state(w, p) = <<x, FALSE>>
    <3> HIDE DEF y, clear, forget, count, delay
    <3> QED BY <1>2, <1>8
  <2> QED BY <1>1, <1>8, <2>1 DEF x
<1> QED BY <1>5, <1>6, <1>7, <1>8

\* The path has the new state; recovery mode follows, except for a ghost path
\* left passive.
LEMMA ApplyIs ==
  ASSUME NEW w \in States, NEW p \in Paths, NEW ns \in {"UP", "GHOST", "DOWN", "SHAKY"},
         NEW dmstate, w.pp[p].tick <= Checkint, ns \in Good => ~w.pp[p].disable_reinstate
  PROVE  LET v == ApplyState(w, p, ns, dmstate)
         IN  /\ v \in States /\ v.mpp.pg = w.mpp.pg /\ v.pp[p].state = ns
             /\ ~ImplicitTpgs /\ Consistent(w) => Consistent(v)
<1> DEFINE x0 == w.pp[p]
           old == x0.state
           keep == ns = "GHOST" /\ ~Active(w) /\ ImplicitTpgs
           xv == [x0 EXCEPT !.state = ns, !.chkrstate = ns]
           v  == [w EXCEPT !.pp[p] = xv]
           xr == [xv EXCEPT !.checkint = Checkint]
           r  == [w EXCEPT !.pp[p] = xr]
           ci == IF xv.checkint < MaxCheckint \div 2 THEN 2 * xv.checkint ELSE MaxCheckint
           xc == [xv EXCEPT !.checkint = ci, !.tick = ci]
           c  == [w EXCEPT !.pp[p] = xc]
           res == ApplyState(w, p, ns, dmstate)
           R(z) == /\ z \in States /\ z.mpp.pg = w.mpp.pg /\ z.pp[p].state = ns
                   /\ ~ImplicitTpgs /\ Consistent(w) => Consistent(z)
<1>1. x0 \in PathStates /\ w.pp \in [Paths -> PathStates] BY DEF States
<1>2. /\ v = [w EXCEPT !.pp[p].state = ns, !.pp[p].chkrstate = ns]
      /\ r = [v EXCEPT !.pp[p].checkint = Checkint]
      /\ c = [v EXCEPT !.pp[p].checkint = ci, !.pp[p].tick = ci]
      /\ v.pp[p] = xv
  <2>1. w = [mpp |-> w.mpp, pp |-> w.pp, dm |-> w.dm] BY DEF States
  <2>2. v = [w EXCEPT !.pp[p].state = ns, !.pp[p].chkrstate = ns] BY <1>1, <2>1
  <2>3. v.pp[p] = xv /\ v.pp = [w.pp EXCEPT ![p] = xv]
        /\ v = [mpp |-> w.mpp, pp |-> v.pp, dm |-> w.dm]
    <3> HIDE DEF xv
    <3> QED BY <1>1, <2>1
  <2> HIDE DEF xv, ci
  <2>4. r = [v EXCEPT !.pp[p].checkint = Checkint] BY <1>1, <2>1, <2>3
  <2>5. c = [v EXCEPT !.pp[p].checkint = ci, !.pp[p].tick = ci] BY <1>1, <2>1, <2>3
  <2> QED BY <2>2, <2>3, <2>4, <2>5
<1>3. res =
        CASE ns # old /\ ns \notin Good ->
               [fail_path(r, p, old \in Good) EXCEPT !.mpp.failback_tick = 0]
          [] ns # old /\ ns \in Good ->
               IF keep THEN r ELSE reinstate_path(r, p)
          [] ns = old /\ ns \in Good ->
               IF dmstate \in {"F", "undef"} /\ ~keep THEN reinstate_path(v, p) ELSE c
          [] ns = old /\ ns \notin Good ->
               IF dmstate \in {"A", "undef"} THEN fail_path(v, p, FALSE) ELSE v
  <2> HIDE DEF xv, xr, xc, v, r, c
  <2> QED BY <1>2 DEF ApplyState
<1>4. xv \in PathStates /\ xr \in PathStates /\ xv.state = ns /\ xr.state = ns
  BY <1>1, CountersAre DEF PathStates, PathRecords
<1>5. ns \in Good => xc \in PathStates /\ xc.state = ns
  <2>1. ci \in Intervals /\ ci \in PathTicks
    <3>1. xv.checkint \in Intervals BY <1>4 DEF PathStates, PathRecords
    <3> HIDE DEF xv
    <3> QED BY <3>1, CountersAre
  <2> HIDE DEF ci
  <2> QED BY <1>4, <2>1 DEF PathStates, PathRecords
<1> HIDE DEF xv, xr, xc
<1>6. /\ v \in States /\ v.mpp = w.mpp /\ v.pp = [w.pp EXCEPT ![p] = xv] /\ v.pp[p] = xv
      /\ r \in States /\ r.mpp = w.mpp /\ r.pp = [w.pp EXCEPT ![p] = xr] /\ r.pp[p] = xr
      /\ ns \in Good => c \in States /\ c.mpp = w.mpp /\ c.pp = [w.pp EXCEPT ![p] = xc]
                        /\ c.pp[p] = xc
  BY <1>4, <1>5, PpIs
<1> HIDE DEF v, r, c
\* A path reinstated
<1>7. ASSUME NEW z \in {v, r}, ns \in Good PROVE R(reinstate_path(z, p))
  <2>1. PICK u : u = dm_reinstate_path(z, p) OBVIOUS
  <2>2. z \in States /\ z.mpp = w.mpp /\ z.pp[p].state = ns BY <1>4, <1>6, <1>7
  <2>3. u \in States /\ u.mpp = w.mpp /\ u.pp = z.pp
    BY <2>1, <2>2, PathIs DEF dm_reinstate_path
  <2>4. w.mpp.pg => Active(u) BY <1>7, <2>2, <2>3 DEF Active
  <2>5. PICK e : e = update_queue_mode_add_path(u) OBVIOUS
  <2>6. /\ e \in States /\ e.pp = u.pp /\ e.mpp.pg = u.mpp.pg
        /\ Consistent(u) \/ Active(u) => Consistent(e)
    BY <2>3, <2>5, AddPathIs
  <2>7. ~w.mpp.pg => Consistent(u) BY <2>3 DEF Consistent
  <2>8. reinstate_path(z, p) = e BY <2>1, <2>5 DEF reinstate_path
  <2>9. w.mpp.pg \in BOOLEAN BY DEF States, Mpps, Known
  <2> QED BY <2>2, <2>3, <2>4, <2>6, <2>7, <2>8, <2>9
<1>8. CASE ns # old /\ ns \notin Good
  <2>1. PICK u : u = dm_fail_path(r, p) OBVIOUS
  <2>2. u \in States /\ u.mpp = w.mpp /\ u.pp = r.pp
    BY <1>6, <2>1, PathIs DEF dm_fail_path
  <2>3. PICK e : e = fail_path(r, p, old \in Good) OBVIOUS
  <2>4. PICK d : d = update_queue_mode_del_path(u) OBVIOUS
  <2>5. /\ d \in States /\ d.pp = u.pp /\ d.mpp.pg = u.mpp.pg
        /\ Consistent(u) \/ ~Active(u) => Consistent(d)
    BY <2>2, <2>4, DelPathIs
  <2>6. e = IF old \in Good THEN d ELSE u BY <2>1, <2>3, <2>4 DEF fail_path
  <2>7. (old \notin Good => (Active(u) <=> Active(w))) /\ (Active(u) => Active(w))
    BY <1>4, <1>6, <1>8, <2>2, ActiveChange
  <2>8. Consistent(w) /\ (old \notin Good \/ Active(u)) => Consistent(u)
    BY <2>2, <2>7 DEF Consistent
  <2>9. /\ e \in States /\ e.pp = r.pp /\ e.mpp.pg = w.mpp.pg
        /\ Consistent(w) => Consistent(e)
    BY <2>2, <2>5, <2>6, <2>8
  <2>10. PICK f : f = [e EXCEPT !.mpp.failback_tick = 0] OBVIOUS
  <2>11. f \in States /\ f.pp = e.pp /\ f.mpp.pg = e.mpp.pg
         /\ f.mpp.no_path_retry = e.mpp.no_path_retry /\ f.mpp.in_recovery = e.mpp.in_recovery
    BY <2>9, <2>10, FailbackTicksAre DEF States, Mpps
  <2>12. Consistent(e) => Consistent(f) BY <2>11, ActiveSame DEF Consistent
  <2>13. res = f BY <1>3, <1>8, <2>3, <2>10
  <2>14. R(f) BY <1>4, <1>6, <2>9, <2>11, <2>12
  <2> HIDE DEF R, res
  <2>15. R(res) BY <2>13, <2>14
  <2> QED BY <2>15 DEF R, res
<1>9. CASE ns # old /\ ns \in Good
  <2>1. res = IF keep THEN r ELSE reinstate_path(r, p) BY <1>3, <1>9
  <2>2. CASE keep
    <3>1. res = r /\ ImplicitTpgs BY <2>1, <2>2
    <3>2. R(r) BY <1>4, <1>6, <3>1
    <3> HIDE DEF R, res
    <3>3. R(res) BY <3>1, <3>2
    <3> QED BY <3>3 DEF R, res
  <2>3. CASE ~keep BY <1>7, <1>9, <2>1, <2>3
  <2> QED BY <2>2, <2>3
<1>10. CASE ns = old /\ ns \in Good
  <2>1. res \in {reinstate_path(v, p), c} BY <1>3, <1>10
  <2>2. R(c)
    <3>1. Active(c) <=> Active(w) BY <1>5, <1>6, <1>10, ActiveChange
    <3> QED BY <1>5, <1>6, <1>10, <3>1 DEF Consistent
  <2>3. R(reinstate_path(v, p)) BY <1>7, <1>10
  <2> HIDE DEF R, res
  <2>4. R(res) BY <2>1, <2>2, <2>3
  <2> QED BY <2>4 DEF R, res
<1>11. CASE ns = old /\ ns \notin Good
  <2>1. res \in {dm_fail_path(v, p), v} BY <1>3, <1>11 DEF fail_path
  <2>2. ASSUME NEW z, z \in States, z.mpp = w.mpp, z.pp = v.pp PROVE R(z)
    <3>1. Active(z) <=> Active(w) BY <1>4, <1>6, <1>11, <2>2, ActiveChange
    <3> QED BY <1>4, <1>6, <2>2, <3>1 DEF Consistent
  <2>3. R(v) BY <1>6, <2>2
  <2>4. R(dm_fail_path(v, p))
    <3>1. PICK u : u = dm_fail_path(v, p) OBVIOUS
    <3>2. u \in States /\ u.mpp = w.mpp /\ u.pp = v.pp BY <1>6, <3>1, PathIs DEF dm_fail_path
    <3> HIDE DEF R
    <3> QED BY <2>2, <3>1, <3>2
  <2> HIDE DEF R, res
  <2>5. R(res) BY <2>1, <2>3, <2>4
  <2> QED BY <2>5 DEF R, res
<1> QED BY <1>8, <1>9, <1>10, <1>11

\* A failback changes no path, and recovery mode at most by a reload.
LEMMA FailbackIs ==
  ASSUME NEW w \in States, NEW p \in Paths, NEW load \in BOOLEAN,
         NEW new_path_up, NEW chkr_new_path_up, NEW prio_changed
  PROVE  LET v == Failback(w, p, new_path_up, chkr_new_path_up, prio_changed, load)
         IN  v \in States /\ v.pp = w.pp /\ (load /\ Consistent(w) => Consistent(v))
<1> DEFINE best == select_path_group(w)
           v == IF w.mpp.pg /\ PgFailback # MANUAL THEN [w EXCEPT !.mpp.bestpg = best] ELSE w
           armed == [v EXCEPT !.mpp.failback_tick = PgFailback + 1]
           res == Failback(w, p, new_path_up, chkr_new_path_up, prio_changed, load)
           R(z) == z \in States /\ z.pp = w.pp /\ (load /\ Consistent(w) => Consistent(z))
<1>1. best \in Paths BY SelectIs
<1>2. \/ res = reload_and_sync_map(w, load)
      \/ res = v
      \/ PgFailback > 0 /\ res = armed
      \/ res = dm_switchgroup(v, best)
  <2> HIDE DEF best
  <2> QED BY DEF Failback, best
<1>3. v \in States /\ v.pp = w.pp /\ v.mpp.pg = w.mpp.pg
      /\ v.mpp.no_path_retry = w.mpp.no_path_retry /\ v.mpp.in_recovery = w.mpp.in_recovery
  <2> HIDE DEF best
  <2> QED BY <1>1 DEF States, Mpps
<1> HIDE DEF best, v
<1>4. ASSUME NEW z \in States, z.pp = w.pp, z.mpp.pg = w.mpp.pg,
             z.mpp.no_path_retry = w.mpp.no_path_retry, z.mpp.in_recovery = w.mpp.in_recovery
      PROVE  R(z)
  BY <1>4, ActiveSame DEF Consistent
<1>5. R(reload_and_sync_map(w, load)) BY ReloadIs
<1>6. R(v) BY <1>3, <1>4
<1>7. PgFailback > 0 => R(armed)
  <2> SUFFICES ASSUME PgFailback > 0 PROVE R(armed)
    OBVIOUS
  <2>1. PICK t \in FailbackTicks : t = PgFailback + 1 BY FailbackTicksAre
  <2>2. armed = [v EXCEPT !.mpp.failback_tick = t] BY <2>1
  <2> HIDE DEF armed, R
  <2>3. armed \in States /\ armed.pp = v.pp /\ armed.mpp.pg = v.mpp.pg
        /\ armed.mpp.no_path_retry = v.mpp.no_path_retry
        /\ armed.mpp.in_recovery = v.mpp.in_recovery
    BY <1>3, <2>2 DEF States, Mpps
  <2> QED BY <1>3, <1>4, <2>3
<1>8. R(dm_switchgroup(v, best))
  <2>1. PICK z : z = dm_switchgroup(v, best) OBVIOUS
  <2>2. z \in States /\ z.mpp = v.mpp /\ z.pp = v.pp BY <1>1, <1>3, <2>1, SwitchIs
  <2> HIDE DEF R
  <2> QED BY <1>3, <1>4, <2>1, <2>2
<1> HIDE DEF R, res, armed
<1>9. R(res) BY <1>2, <1>5, <1>6, <1>7, <1>8
<1> QED BY <1>9 DEF R, res

\* A whole check of a path that is due
LEMMA CheckIs ==
  ASSUME NEW w \in States, NEW p \in Paths, NEW ns \in Results \cup {"WILD"},
         NEW known \in Known, NEW rc, NEW prio_changed, NEW load \in BOOLEAN
  PROVE  LET v == CheckDue(w, p, ns, known, rc, prio_changed, load)
         IN  /\ v \in States
             /\ ~ImplicitTpgs /\ load /\ Consistent(w) => Consistent(v)
             /\ w.pp[p].disable_reinstate /\ v.pp[p].state = "DELAYED" /\ ns # "WILD"
                /\ w.mpp.pg = known
                => Active(w)
<1> DEFINE x == w.pp[p]
           ta == [x EXCEPT !.tick = Checkint]
           a == [w EXCEPT !.pp[p].tick = Checkint]
           s == update_multipath_strings(a, known)
           n == set_no_path_retry(s)
           reinst == IF ns \in Good /\ san_path_check_enabled
                     THEN check_path_reinstate_state(n, p) ELSE <<n.pp[p], FALSE>>
           b == [n EXCEPT !.pp[p] = reinst[1]]
           c == ApplyState(b, p, ns, IF rc = "OK" THEN s.dm.path[p] ELSE "undef")
           new_path_up == ns \in Good /\ ns # b.pp[p].state
           chkr_new_path_up == new_path_up /\ b.pp[p].chkrstate \notin Good
           f == Failback(c, p, new_path_up, chkr_new_path_up, prio_changed, load)
           d == [b EXCEPT !.pp[p].state = "DELAYED"]
           bad == [a EXCEPT !.pp[p].state = ns]
           soon == [a EXCEPT !.pp[p].tick = 1]
           res == CheckDue(w, p, ns, known, rc, prio_changed, load)
           R(z) == /\ z \in States
                   /\ ~ImplicitTpgs /\ load /\ Consistent(w) => Consistent(z)
                   /\ x.disable_reinstate /\ z.pp[p].state = "DELAYED" /\ ns # "WILD"
                      /\ w.mpp.pg = known
                      => Active(w)
<1>1. res = CASE ns = "WILD" -> a
              [] ns \notin Good \cup {"WILD"} /\ a.pp[p].state = "DELAYED" -> bad
              [] ns = "PENDING" /\ a.pp[p].state # "DELAYED" -> soon
              [] OTHER ->
                   IF reinst[2] THEN d
                   ELSE IF ns # b.pp[p].state /\ ns \notin Good THEN c
                   ELSE f
  BY DEF CheckDue
<1>2. x \in PathStates /\ ta \in PathStates /\ ta.state = x.state
      /\ ta.disable_reinstate = x.disable_reinstate /\ ta.tick = Checkint
      /\ Checkint \in Nat
  BY CountersAre DEF States, PathStates, PathRecords
<1> HIDE DEF x
<1>3. a = [w EXCEPT !.pp[p] = ta] BY DEF States, x
<1> HIDE DEF ta
<1>4. /\ a \in States /\ a.mpp = w.mpp /\ a.pp = [w.pp EXCEPT ![p] = ta] /\ a.pp[p] = ta
      /\ (Active(a) <=> Active(w))
  <2> HIDE DEF a
  <2>1. /\ a \in States /\ a.mpp = w.mpp /\ a.pp = [w.pp EXCEPT ![p] = ta] /\ a.pp[p] = ta
    BY <1>2, <1>3, PpIs
  <2> QED BY <1>2, <2>1, ActiveChange DEF x
<1> HIDE DEF a
<1>5. R(a) \/ ns # "WILD"
  BY <1>4 DEF Consistent
<1>6. CASE ns = "WILD"
  <2>1. res = a BY <1>1, <1>6
  <2> HIDE DEF R, res
  <2>2. R(res) BY <1>5, <1>6, <2>1
  <2> QED BY <2>2 DEF R, res, x
<1>7. CASE ns \notin Good \cup {"WILD"} /\ a.pp[p].state = "DELAYED"
  <2>1. res = bad BY <1>1, <1>7
  <2>2. ns \in {"DOWN", "SHAKY", "PENDING"} BY <1>7, PathCheckAssumption DEF Good
  <2> DEFINE y == [ta EXCEPT !.state = ns]
  <2>3. y \in PathStates /\ y.state = ns
    BY <1>2, <1>4, <1>7, <2>2 DEF PathStates, PathRecords, Good
  <2>4. bad = [a EXCEPT !.pp[p] = y] BY <1>4 DEF States
  <2> HIDE DEF y, bad
  <2>5. bad \in States /\ bad.mpp = a.mpp /\ bad.pp = [a.pp EXCEPT ![p] = y] /\ bad.pp[p] = y
    BY <1>4, <2>3, <2>4, PpIs
  <2>6. Active(bad) <=> Active(a)
    BY <1>4, <1>7, <2>2, <2>3, <2>5, ActiveChange DEF Good
  <2>7. R(bad) BY <1>4, <2>2, <2>3, <2>5, <2>6 DEF Consistent
  <2> HIDE DEF R, res
  <2>8. R(res) BY <2>1, <2>7
  <2> QED BY <2>8 DEF R, res, x
<1>8. CASE ns = "PENDING" /\ a.pp[p].state # "DELAYED"
  <2>1. res = soon
    <3>1. ns # "WILD" BY <1>8
    <3> HIDE DEF soon
    <3> QED BY <1>1, <1>8, <3>1
  <2> DEFINE y == [ta EXCEPT !.tick = 1]
  <2>2. 1 <= Checkint BY PathCheckAssumption
  <2>3. y \in PathStates /\ y.state = x.state
    BY <1>2, <2>2, CountersAre DEF PathStates, PathRecords
  <2>4. soon = [a EXCEPT !.pp[p] = y] BY <1>4 DEF States
  <2> HIDE DEF y, soon
  <2>5. soon \in States /\ soon.mpp = a.mpp /\ soon.pp = [a.pp EXCEPT ![p] = y] /\ soon.pp[p] = y
    BY <1>4, <2>3, <2>4, PpIs
  <2>6. Active(soon) <=> Active(a) BY <1>2, <1>4, <2>3, <2>5, ActiveChange
  <2>7. R(soon) BY <1>2, <1>4, <1>8, <2>3, <2>5, <2>6 DEF Consistent
  <2> HIDE DEF R, res
  <2>8. R(res) BY <2>1, <2>7
  <2> QED BY <2>8 DEF R, res, x
<1>9. CASE /\ ns # "WILD" /\ ~(ns \notin Good \cup {"WILD"} /\ a.pp[p].state = "DELAYED")
           /\ ~(ns = "PENDING" /\ a.pp[p].state # "DELAYED")
  <2>1. res = IF reinst[2] THEN d ELSE IF ns # b.pp[p].state /\ ns \notin Good THEN c ELSE f
    <3> HIDE DEF reinst, d, b, c, f
    <3> QED BY <1>1, <1>9
  <2>2. ns \in {"UP", "GHOST", "DOWN", "SHAKY"} BY <1>9, PathCheckAssumption DEF Good
  <2>3. s \in States /\ s.pp = a.pp /\ s.mpp.pg = known BY <1>4, StringsIs
  <2> HIDE DEF s
  <2>4. n \in States /\ n.pp = a.pp /\ n.mpp.pg = known /\ Consistent(n)
    BY <2>3, RetryModeIs
  <2> HIDE DEF n
  <2>5. n.pp[p] = ta BY <1>4, <2>4
  <2>6. w.mpp.pg = known => (Active(n) <=> Active(w))
    BY <1>4, <2>4, ActiveSame
  <2>7. /\ reinst[1] \in PathStates /\ reinst[2] \in BOOLEAN
        /\ reinst[1].state = x.state /\ reinst[1].tick = Checkint
        /\ ns \in Good /\ ~reinst[2] => ~reinst[1].disable_reinstate
        /\ reinst[2] => x.state \notin Good
        /\ reinst[2] /\ x.disable_reinstate => Active(n)
    <3>1. CASE ns \in Good /\ san_path_check_enabled
      BY <1>2, <2>4, <2>5, <3>1, ReinstateIs
    <3>2. CASE ~(ns \in Good /\ san_path_check_enabled)
      <4>1. reinst = <<ta, FALSE>> BY <2>5, <3>2
      <4>2. ~san_path_check_enabled => ~ta.disable_reinstate BY <1>2 DEF PathStates
      <4> HIDE DEF reinst
      <4> QED BY <1>2, <3>2, <4>1, <4>2
    <3> QED BY <3>1, <3>2
  <2> DEFINE r1 == reinst[1]
             r2 == reinst[2]
  <2> HIDE DEF reinst
  <2>8. /\ b \in States /\ b.mpp = n.mpp /\ b.pp = [n.pp EXCEPT ![p] = r1] /\ b.pp[p] = r1
    BY <2>4, <2>7, PpIs
  <2>9. Consistent(b) /\ (Active(b) <=> Active(n))
    <3> HIDE DEF b
    <3>1. Active(b) <=> Active(n) BY <1>2, <2>4, <2>5, <2>7, <2>8, ActiveChange
    <3> QED BY <2>4, <2>8, <3>1 DEF Consistent
  <2>10. CASE r2
    <3> DEFINE y == [r1 EXCEPT !.state = "DELAYED"]
    <3>1. d = [b EXCEPT !.pp[p] = y]
      <4> HIDE DEF b
      <4> QED BY <2>8 DEF States
    <3>2. y \in PathStates /\ y.state = "DELAYED"
      BY <1>2, <2>7 DEF PathStates, PathRecords, Good
    <3> HIDE DEF b, d, y
    <3>3. d \in States /\ d.mpp = b.mpp /\ d.pp = [b.pp EXCEPT ![p] = y]
      BY <2>8, <3>1, <3>2, PpIs
    <3>4. Active(d) <=> Active(b)
      BY <2>7, <2>8, <2>10, <3>2, <3>3, ActiveChange DEF Good
    <3>5. R(d) BY <2>6, <2>7, <2>8, <2>9, <2>10, <3>3, <3>4 DEF Consistent
    <3>6. res = d BY <2>1, <2>10
    <3> HIDE DEF R, res
    <3>7. R(res) BY <3>5, <3>6
    <3> QED BY <3>7 DEF R, res, x
  <2>11. CASE ~r2
    <3> DEFINE dmstate == IF rc = "OK" THEN s.dm.path[p] ELSE "undef"
    <3>1. b.pp[p].tick <= Checkint /\ (ns \in Good => ~b.pp[p].disable_reinstate)
      <4> HIDE DEF b
      <4> QED BY <1>2, <2>7, <2>8, <2>11
    <3>2. PICK e, z : e = dmstate /\ z = b /\ c = ApplyState(z, p, ns, e) OBVIOUS
    <3> HIDE DEF b, c, dmstate
    <3>3. /\ c \in States /\ c.pp[p].state = ns
          /\ ~ImplicitTpgs /\ Consistent(b) => Consistent(c)
      <4>1. z \in States /\ z.pp[p].tick <= Checkint /\ (ns \in Good => ~z.pp[p].disable_reinstate)
        BY <2>8, <3>1, <3>2
      <4>2. LET v == ApplyState(z, p, ns, e)
            IN  /\ v \in States /\ v.mpp.pg = z.mpp.pg /\ v.pp[p].state = ns
                /\ ~ImplicitTpgs /\ Consistent(z) => Consistent(v)
        BY <2>2, <4>1, ApplyIs
      <4> QED BY <3>2, <4>2
    <3> HIDE DEF new_path_up, chkr_new_path_up
    <3>4. f \in States /\ f.pp = c.pp /\ (load /\ Consistent(c) => Consistent(f))
      BY <3>3, FailbackIs
    <3>5. res = c \/ res = f BY <2>1, <2>11
    <3> HIDE DEF f
    <3>6. R(c) /\ R(f) BY <2>2, <2>9, <3>3, <3>4
    <3> HIDE DEF R, res
    <3>7. R(res) BY <3>5, <3>6
    <3> QED BY <3>7 DEF R, res, x
  <2> QED BY <2>10, <2>11
<1> QED BY <1>6, <1>7, <1>8, <1>9
-----------------------------------------------------------------------------
(***************************************************************************)
(* The ticks of checkerloop(), and the dm event                            *)
(***************************************************************************)
\* The ticks leave recovery mode alone.
LEMMA DeferedIs ==
  ASSUME NEW w \in States
  PROVE  LET v == defered_failback_tick(w)
         IN  /\ v \in States /\ v.pp = w.pp /\ v.mpp.pg = w.mpp.pg
             /\ v.mpp.no_path_retry = w.mpp.no_path_retry
             /\ v.mpp.in_recovery = w.mpp.in_recovery
<1> DEFINE v == [w EXCEPT !.mpp.failback_tick = @ - 1]
           best == select_path_group(w)
           u == [v EXCEPT !.mpp.bestpg = best]
           Same(z) == /\ z \in States /\ z.pp = w.pp /\ z.mpp.pg = w.mpp.pg
                      /\ z.mpp.no_path_retry = w.mpp.no_path_retry
                      /\ z.mpp.in_recovery = w.mpp.in_recovery
<1>1. best \in Paths BY SelectIs
<1> HIDE DEF best
<1>2. \/ defered_failback_tick(w) = w
      \/ w.mpp.failback_tick > 0 /\ defered_failback_tick(w) \in {v, dm_switchgroup(u, best)}
  <2>1. defered_failback_tick(w) =
          IF PgFailback > 0 /\ w.mpp.failback_tick > 0
          THEN IF v.mpp.failback_tick = 0 /\ need_switch_pathgroup(v)
               THEN dm_switchgroup([v EXCEPT !.mpp.bestpg = best], best)
               ELSE v
          ELSE w
    BY DEF defered_failback_tick, best
  <2>2. CASE ~(PgFailback > 0 /\ w.mpp.failback_tick > 0) BY <2>1, <2>2
  <2> HIDE DEF v, u
  <2>3. CASE PgFailback > 0 /\ w.mpp.failback_tick > 0
    <3>1. u = [v EXCEPT !.mpp.bestpg = best] BY DEF u
    <3>2. defered_failback_tick(w) = v \/ defered_failback_tick(w) = dm_switchgroup(u, best)
      BY <2>1, <2>3, <3>1
    <3> QED BY <2>3, <3>2
  <2> QED BY <2>2, <2>3
<1>3. CASE defered_failback_tick(w) = w BY <1>3
<1>4. CASE w.mpp.failback_tick > 0 /\ defered_failback_tick(w) \in {v, dm_switchgroup(u, best)}
  <2>1. PICK t \in FailbackTicks : t = w.mpp.failback_tick - 1
    BY <1>4, FailbackTicksAre DEF States, Mpps
  <2>2. v = [w EXCEPT !.mpp.failback_tick = t] BY <2>1
  <2> HIDE DEF v
  <2>3. Same(v) BY <2>2 DEF States, Mpps
  <2>4. Same(u) BY <1>1, <2>3 DEF States, Mpps
  <2> HIDE DEF u
  <2>5. PICK z : z = dm_switchgroup(u, best) OBVIOUS
  <2>6. Same(z) BY <1>1, <2>4, <2>5, SwitchIs
  <2> QED BY <1>4, <2>3, <2>5, <2>6
<1> QED BY <1>2, <1>3, <1>4

LEMMA RetryTickIs ==
  ASSUME NEW w \in States
  PROVE  LET v == retry_count_tick(w)
         IN  /\ v \in States /\ v.pp = w.pp /\ v.mpp.pg = w.mpp.pg
             /\ v.mpp.no_path_retry = w.mpp.no_path_retry
             /\ v.mpp.in_recovery = w.mpp.in_recovery
<1> DEFINE v == [w EXCEPT !.mpp.retry_tick = @ - 1]
<1>1. \/ retry_count_tick(w) = w
      \/ w.mpp.retry_tick # 0 /\ retry_count_tick(w) \in {v, dm_queue_if_no_path(v, FALSE)}
  <2>1. retry_count_tick(w) =
          IF w.mpp.retry_tick = 0 THEN w
          ELSE IF v.mpp.retry_tick = 0 THEN dm_queue_if_no_path(v, FALSE) ELSE v
    BY DEF retry_count_tick
  <2>2. CASE w.mpp.retry_tick = 0 BY <2>1, <2>2
  <2> HIDE DEF v
  <2>3. CASE w.mpp.retry_tick # 0
    <3>1. retry_count_tick(w) = v \/ retry_count_tick(w) = dm_queue_if_no_path(v, FALSE)
      BY <2>1, <2>3
    <3> QED BY <2>3, <3>1
  <2> QED BY <2>2, <2>3
<1>2. CASE retry_count_tick(w) = w BY <1>2
<1>3. CASE w.mpp.retry_tick # 0 /\ retry_count_tick(w) \in {v, dm_queue_if_no_path(v, FALSE)}
  <2>1. PICK t \in RetryTicks : t = w.mpp.retry_tick - 1
    BY <1>3, RetryTicksIs DEF States, Mpps
  <2>2. v = [w EXCEPT !.mpp.retry_tick = t] BY <2>1
  <2> HIDE DEF v
  <2>3. /\ v \in States /\ v.pp = w.pp /\ v.mpp.pg = w.mpp.pg
        /\ v.mpp.no_path_retry = w.mpp.no_path_retry
        /\ v.mpp.in_recovery = w.mpp.in_recovery
    BY <2>2 DEF States, Mpps
  <2>4. PICK z : z = dm_queue_if_no_path(v, FALSE) OBVIOUS
  <2>5. z \in States /\ z.mpp = v.mpp /\ z.pp = v.pp BY <2>3, <2>4, QueueIs
  <2> QED BY <1>3, <2>3, <2>4, <2>5
<1> QED BY <1>1, <1>2, <1>3

LEMMA ClockIs ==
  ASSUME NEW w \in States
  PROVE  LET v == Clock(w)
         IN  v \in States /\ v.mpp = w.mpp /\ (Active(v) <=> Active(w))
<1> DEFINE late(p) == IF w.pp[p].disable_reinstate /\ w.pp[p].delayed_for <= SanRecoveryTime
                      THEN w.pp[p].delayed_for + 1 ELSE w.pp[p].delayed_for
           x(p) == [w.pp[p] EXCEPT !.delayed_for = late(p)]
           f == [p \in Paths |-> x(p)]
<1>1. Clock(w) = [w EXCEPT !.pp = f] BY DEF Clock
<1>2. ASSUME NEW p \in Paths PROVE x(p) \in PathStates /\ x(p).state = w.pp[p].state
  <2>1. w.pp[p] \in PathStates BY DEF States
  <2>2. late(p) \in Delays
    <3>1. w.pp[p].delayed_for \in Delays BY <2>1 DEF PathStates, PathRecords
    <3> QED BY <3>1, CountersAre
  <2>3. PICK t \in Delays : t = late(p) BY <2>2
  <2>4. x(p) = [w.pp[p] EXCEPT !.delayed_for = t] BY <2>3
  <2> QED BY <2>1, <2>4 DEF PathStates, PathRecords
<1> HIDE DEF x
<1>3. f \in [Paths -> PathStates] /\ \A p \in Paths : f[p].state = w.pp[p].state BY <1>2
<1> HIDE DEF f
<1>4. /\ [w EXCEPT !.pp = f] \in States /\ [w EXCEPT !.pp = f].mpp = w.mpp
      /\ [w EXCEPT !.pp = f].pp = f
  BY <1>3 DEF States
<1> QED BY <1>1, <1>3, <1>4 DEF Active

\* No path becomes usable, and none of a map that is unusable is lost.
LEMMA MarkFailedIs ==
  ASSUME NEW w \in States, NEW F, F \subseteq Paths
  PROVE  LET v == MarkFailed(w, F)
         IN  /\ v \in States /\ v.mpp = w.mpp
             /\ Active(v) => Active(w)
             /\ (\A p \in F : w.pp[p].state \notin Good) => (Active(v) <=> Active(w))
<1> DEFINE soon(p) == IF w.pp[p].tick > Checkint THEN Checkint ELSE w.pp[p].tick
           y(p) == [w.pp[p] EXCEPT !.state = "DOWN", !.tick = soon(p)]
           x(p) == IF p \in F THEN y(p) ELSE w.pp[p]
           f == [p \in Paths |-> x(p)]
<1>1. MarkFailed(w, F) = [w EXCEPT !.pp = f] BY DEF MarkFailed
<1>2. ASSUME NEW p \in Paths
      PROVE  /\ x(p) \in PathStates
             /\ p \notin F => x(p).state = w.pp[p].state
             /\ p \in F => x(p).state \notin Good
  <2>1. w.pp[p] \in PathStates BY DEF States
  <2>2. soon(p) \in PathTicks /\ soon(p) <= Checkint
    <3>1. w.pp[p].tick \in PathTicks BY <2>1 DEF PathStates, PathRecords
    <3>2. w.pp[p].tick \in Nat /\ Checkint \in Nat BY <3>1, CountersAre
    <3> QED BY <3>1, <3>2, CountersAre
  <2>3. PICK t \in PathTicks : t = soon(p) /\ t <= Checkint BY <2>2
  <2>4. y(p) = [w.pp[p] EXCEPT !.state = "DOWN", !.tick = t] BY <2>3
  <2> HIDE DEF y
  <2>5. y(p) \in PathStates /\ y(p).state = "DOWN"
    BY <2>1, <2>3, <2>4 DEF PathStates, PathRecords, Good
  <2> QED BY <2>1, <2>5 DEF Good
<1> HIDE DEF x
<1>3. f \in [Paths -> PathStates] /\ \A p \in Paths : f[p] = x(p) BY <1>2
<1> HIDE DEF f
<1>4. /\ [w EXCEPT !.pp = f] \in States /\ [w EXCEPT !.pp = f].mpp = w.mpp
      /\ [w EXCEPT !.pp = f].pp = f
  BY <1>3 DEF States
<1> QED BY <1>1, <1>2, <1>3, <1>4 DEF Active
-----------------------------------------------------------------------------
(***************************************************************************)
(* The steps                                                               *)
(***************************************************************************)
LEMMA AssignIs ==
  ASSUME NEW v \in States, Assign(v)
  PROVE  W' = v
BY DEF States, Assign, W

\* An operation that returns a good state is a good step.
LEMMA PathInvNext ==
  ASSUME NEW v \in States, Assign(v), turn' \in 1..(NPaths + 1), Tame => Consistent(v)
  PROVE  PathInv'
<1>1. W' = v BY AssignIs
<1>2. Consistent(v) => Consistent(W)' BY <1>1 DEF Consistent, Active
<1> QED BY <1>1, <1>2 DEF PathInv, Tame

\* Every action keeps the invariant.
LEMMA CheckStep ==
  ASSUME PathInv, Check
  PROVE  PathInv'
<1>1. W \in States /\ turn \in 1..(NPaths + 1) /\ (Tame => Consistent(W)) BY DEF PathInv
<1>2. NPaths \in Nat BY PathCheckAssumption
<1>0. W.mpp = mpp /\ W.pp = pp /\ W.dm = dm BY DEF W
<1>3. CASE CheckNotDue
  <2>1. turn \in Paths /\ pp[turn].tick > 1 /\ mpp' = mpp /\ dm' = dm /\ turn' = turn + 1
    BY <1>3 DEF CheckNotDue
  <2>2. PICK p \in Paths : p = turn BY <2>1
  <2>3. W.pp[p] = pp[p] /\ pp[p] \in PathStates BY <1>1 DEF W, States
  <2>4. PICK t : t = pp[p].tick - 1 OBVIOUS
  <2>5. t \in PathTicks /\ (pp[p].tick <= Checkint => t <= Checkint)
    <3>1. pp[p].tick \in PathTicks BY <2>3 DEF PathStates, PathRecords
    <3>2. pp[p].tick \in Nat /\ Checkint \in Nat BY <3>1, CountersAre
    <3> QED BY <2>1, <2>2, <2>4, <3>1, <3>2, CountersAre
  <2>6. PICK x : x = [pp[p] EXCEPT !.tick = t] OBVIOUS
  <2>7. x \in PathStates /\ x.state = pp[p].state
    BY <2>3, <2>5, <2>6 DEF PathStates, PathRecords
  <2>8. PICK v : v = [W EXCEPT !.pp[p] = x] OBVIOUS
  <2>9. v \in States /\ v.mpp = mpp /\ v.dm = dm /\ v.pp = [pp EXCEPT ![p] = x]
    BY <1>1, <1>0, <2>7, <2>8, PpIs
  <2>a. pp' = [pp EXCEPT ![p] = x]
    BY <1>3, <2>2, <2>4, <2>6 DEF CheckNotDue
  <2>10. Assign(v) BY <2>1, <2>9, <2>a DEF Assign
  <2>12. Active(v) <=> Active(W)
    BY <1>1, <1>0, <2>3, <2>7, <2>9, ActiveChange
  <2>13. Consistent(W) => Consistent(v) BY <1>0, <2>9, <2>12 DEF Consistent
  <2>14. turn' \in 1..(NPaths + 1) BY <1>2, <2>1 DEF Paths
  <2> QED BY <1>1, <2>9, <2>10, <2>13, <2>14, PathInvNext
<1>4. ASSUME NEW ns \in Results \cup {"WILD"},
             NEW known \in IF SyncMayFail THEN BOOLEAN ELSE {TRUE},
             NEW rc \in IF SyncMayFail THEN {"OK", "ERR"} ELSE {"OK"},
             NEW prio_changed \in IF Reloads = {} THEN {FALSE} ELSE BOOLEAN,
             NEW load \in Reloads \cup {TRUE},
             check_path(ns, known, rc, prio_changed, load)
      PROVE  PathInv'
  <2>1. turn \in Paths /\ turn' = turn + 1 BY <1>4 DEF check_path
  <2>2. PICK p \in Paths : p = turn BY <2>1
  <2>3. PICK v : v = CheckDue(W, p, ns, known, rc, prio_changed, load) OBVIOUS
  <2>4. Assign(v) BY <1>4, <2>2, <2>3 DEF check_path
  <2>5. known \in Known /\ load \in BOOLEAN /\ (Tame => load)
    BY PathCheckAssumption DEF Known, Tame
  <2>6. v \in States /\ (~ImplicitTpgs /\ load /\ Consistent(W) => Consistent(v))
    BY <1>1, <2>3, <2>5, CheckIs
  <2>7. turn' \in 1..(NPaths + 1) BY <1>2, <2>1 DEF Paths
  <2>8. Tame => Consistent(v) BY <1>1, <2>5, <2>6 DEF Tame
  <2> QED BY <2>4, <2>6, <2>7, <2>8, PathInvNext
<1> QED BY <1>3, <1>4 DEF Check, PathInv

LEMMA TicksStep ==
  ASSUME PathInv, Ticks
  PROVE  PathInv'
<1>1. W \in States /\ (Tame => Consistent(W)) BY DEF PathInv
<1>2. PICK a : a = defered_failback_tick(W) OBVIOUS
<1>3. /\ a \in States /\ a.pp = W.pp /\ a.mpp.pg = W.mpp.pg
      /\ a.mpp.no_path_retry = W.mpp.no_path_retry /\ a.mpp.in_recovery = W.mpp.in_recovery
  BY <1>1, <1>2, DeferedIs
<1>4. PICK b : b = retry_count_tick(a) OBVIOUS
<1>5. /\ b \in States /\ b.pp = W.pp /\ b.mpp.pg = W.mpp.pg
      /\ b.mpp.no_path_retry = W.mpp.no_path_retry /\ b.mpp.in_recovery = W.mpp.in_recovery
  BY <1>3, <1>4, RetryTickIs
<1>6. PICK c : c = Clock(b) OBVIOUS
<1>7. c \in States /\ c.mpp = b.mpp /\ (Active(c) <=> Active(b)) BY <1>5, <1>6, ClockIs
<1>8. Active(b) <=> Active(W) BY <1>5, ActiveSame
<1>9. Consistent(W) => Consistent(c) BY <1>5, <1>7, <1>8 DEF Consistent
<1>10. Assign(c) /\ turn' = 1 BY <1>2, <1>4, <1>6 DEF Ticks
<1>11. turn' \in 1..(NPaths + 1) BY <1>10, PathCheckAssumption
<1> QED BY <1>1, <1>7, <1>9, <1>10, <1>11, PathInvNext

LEMMA EventStep ==
  ASSUME PathInv, update_multipath
  PROVE  PathInv'
<1>1. W \in States /\ turn \in 1..(NPaths + 1) BY DEF PathInv
<1>2. PICK a : a = [W EXCEPT !.dm.event = FALSE] OBVIOUS
<1>3. a \in States BY <1>1, <1>2 DEF States, Dms
<1>4. PICK s : s = update_multipath_strings(a, TRUE) OBVIOUS
<1>5. s \in States BY <1>3, <1>4, StringsIs DEF Known
<1>6. PICK w : w = set_no_path_retry(s) OBVIOUS
<1>7. w \in States /\ Consistent(w) BY <1>5, <1>6, RetryModeIs
<1>8. PICK F : F = {p \in Paths : w.dm.path[p] = "F" /\ w.pp[p].state # "DOWN"} OBVIOUS
<1>9. PICK v : v = MarkFailed(w, F) OBVIOUS
<1>10. /\ v \in States /\ v.mpp = w.mpp /\ (Active(v) => Active(w))
       /\ (\A p \in F : w.pp[p].state \notin Good) => (Active(v) <=> Active(w))
  BY <1>7, <1>8, <1>9, MarkFailedIs
<1>11. PICK d : d = update_queue_mode_del_path(v) OBVIOUS
<1>12. d \in States /\ (Consistent(v) \/ ~Active(v) => Consistent(d))
  BY <1>10, <1>11, DelPathIs
<1>13. Active(v) => Consistent(v) BY <1>7, <1>10 DEF Consistent
<1>14. (\A p \in F : w.pp[p].state \notin Good) => Consistent(v)
  BY <1>7, <1>10 DEF Consistent
<1>15. PICK r : r = IF \E p \in F : w.pp[p].state \in Good THEN d ELSE v OBVIOUS
<1>16. r \in States /\ Consistent(r) BY <1>10, <1>12, <1>13, <1>14, <1>15
<1>17. Assign(r) /\ turn' = turn
  BY <1>2, <1>4, <1>6, <1>8, <1>9, <1>11, <1>15 DEF update_multipath
<1> QED BY <1>1, <1>16, <1>17, PathInvNext

LEMMA QueueingStep ==
  ASSUME PathInv, cli_disable_queueing \/ cli_restore_queueing
  PROVE  PathInv'
<1>1. W \in States /\ turn \in 1..(NPaths + 1) BY DEF PathInv
<1>2. CASE cli_disable_queueing
  <2>1. PICK a : a = [W EXCEPT !.mpp.retry_tick = 0, !.mpp.no_path_retry = FAIL,
                               !.mpp.disable_queueing = TRUE]
    OBVIOUS
  <2>2. a \in States BY <1>1, <2>1, RetryTicksIs DEF States, Mpps
  <2>3. PICK v : v = set_no_path_retry(a) OBVIOUS
  <2>4. v \in States /\ Consistent(v) BY <2>2, <2>3, RetryModeIs
  <2>5. Assign(v) /\ turn' = turn BY <1>2, <2>1, <2>3 DEF cli_disable_queueing
  <2> QED BY <1>1, <2>4, <2>5, PathInvNext
<1>3. CASE cli_restore_queueing
  <2>1. PICK a : a = [W EXCEPT !.mpp.disable_queueing = FALSE, !.mpp.no_path_retry = NoPathRetry]
    OBVIOUS
  <2>2. a \in States /\ a.mpp.no_path_retry = NoPathRetry BY <1>1, <2>1 DEF States, Mpps
  <2>3. PICK s : s = set_no_path_retry(a) OBVIOUS
  <2>4. s \in States /\ Consistent(s) BY <2>2, <2>3, RetryModeIs
  <2>5. NoPathRetry \in {UNDEF, FAIL} => Consistent(a) BY <2>2 DEF Consistent, UNDEF, FAIL
  <2>6. PICK v : v = IF NoPathRetry \in {UNDEF, FAIL} THEN a ELSE s OBVIOUS
  <2>7. v \in States /\ Consistent(v) BY <2>2, <2>4, <2>5, <2>6
  <2>8. Assign(v) /\ turn' = turn BY <1>3, <2>1, <2>3, <2>6 DEF cli_restore_queueing
  <2> QED BY <1>1, <2>7, <2>8, PathInvNext
<1> QED BY <1>2, <1>3

LEMMA CliPathStep ==
  ASSUME PathInv, NEW p \in Paths, cli_fail(p) \/ cli_reinstate(p) \/ cli_switch_group(p)
  PROVE  PathInv'
<1>1. W \in States /\ turn \in 1..(NPaths + 1) /\ (Tame => Consistent(W)) BY DEF PathInv
<1>2. ASSUME NEW u \in States, NEW on \in BOOLEAN, on => Operator, u.mpp = W.mpp, u.pp = W.pp,
             NEW v, v = [u EXCEPT !.pp[p].checker_disabled = on]
      PROVE  v \in States /\ (Consistent(W) => Consistent(v))
  <2>1. PICK x : x = [u.pp[p] EXCEPT !.checker_disabled = on] OBVIOUS
  <2>2. x \in PathStates /\ x.state = u.pp[p].state
    BY <1>2, <2>1 DEF States, PathStates, PathRecords
  <2>3. v = [u EXCEPT !.pp[p] = x] BY <1>2, <2>1
  <2>4. v \in States /\ v.mpp = u.mpp /\ v.pp = [u.pp EXCEPT ![p] = x]
    BY <2>2, <2>3, PpIs
  <2>5. Active(v) <=> Active(u) BY <2>2, <2>4, ActiveChange
  <2>6. Active(u) <=> Active(W) BY <1>2, ActiveSame
  <2> QED BY <1>2, <2>4, <2>5, <2>6 DEF Consistent
<1>3. CASE cli_fail(p)
  <2>1. PICK u : u = dm_fail_path(W, p) OBVIOUS
  <2>2. u \in States /\ u.mpp = W.mpp /\ u.pp = W.pp BY <1>1, <2>1, PathIs DEF dm_fail_path
  <2>3. PICK v : v = [u EXCEPT !.pp[p].checker_disabled = TRUE] OBVIOUS
  <2>4. Operator /\ Assign(v) /\ turn' = turn BY <1>3, <2>1, <2>3 DEF cli_fail
  <2>5. v \in States /\ (Consistent(W) => Consistent(v)) BY <1>2, <2>2, <2>3, <2>4
  <2> QED BY <1>1, <2>4, <2>5, PathInvNext
<1>4. CASE cli_reinstate(p)
  <2>1. PICK u : u = dm_reinstate_path(W, p) OBVIOUS
  <2>2. u \in States /\ u.mpp = W.mpp /\ u.pp = W.pp BY <1>1, <2>1, PathIs DEF dm_reinstate_path
  <2>3. PICK v : v = [u EXCEPT !.pp[p].checker_disabled = FALSE] OBVIOUS
  <2>4. Assign(v) /\ turn' = turn BY <1>4, <2>1, <2>3 DEF cli_reinstate
  <2>5. v \in States /\ (Consistent(W) => Consistent(v)) BY <1>2, <2>2, <2>3
  <2> QED BY <1>1, <2>4, <2>5, PathInvNext
<1>5. CASE cli_switch_group(p)
  <2>1. PICK v : v = dm_switchgroup(W, p) OBVIOUS
  <2>2. v \in States /\ v.mpp = W.mpp /\ v.pp = W.pp BY <1>1, <2>1, SwitchIs
  <2>3. Assign(v) /\ turn' = turn BY <1>5, <2>1 DEF cli_switch_group
  <2>4. Consistent(W) => Consistent(v) BY <2>2, ActiveSame DEF Consistent
  <2> QED BY <1>1, <2>2, <2>3, <2>4, PathInvNext
<1> QED BY <1>3, <1>4, <1>5

LEMMA ReloadStep ==
  ASSUME PathInv, NEW load \in Reloads, cli_reload(load)
  PROVE  PathInv'
<1>1. W \in States /\ turn \in 1..(NPaths + 1) BY DEF PathInv
<1>2. load \in BOOLEAN /\ (Tame => load) BY PathCheckAssumption DEF Tame
<1>3. PICK v : v = reload_and_sync_map(W, load) OBVIOUS
<1>4. v \in States /\ (load => Consistent(v)) BY <1>1, <1>2, <1>3, ReloadIs
<1>5. Assign(v) /\ turn' = turn BY <1>3 DEF cli_reload
<1> QED BY <1>1, <1>2, <1>4, <1>5, PathInvNext

LEMMA KernelStep ==
  ASSUME PathInv, Kernel
  PROVE  PathInv'
<1>1. W \in States /\ turn \in 1..(NPaths + 1) /\ (Tame => Consistent(W)) BY DEF PathInv
<1>0. W.mpp = mpp /\ W.pp = pp /\ W.dm = dm BY DEF W
<1>2. ASSUME NEW v \in States, v.mpp = mpp, v.pp = pp, dm' = v.dm, UNCHANGED <<mpp, pp, turn>>
      PROVE  PathInv'
  <2>1. Assign(v) BY <1>2 DEF Assign
  <2>2. Consistent(W) => Consistent(v) BY <1>0, <1>2, ActiveSame DEF Consistent
  <2>3. turn' \in 1..(NPaths + 1) BY <1>1, <1>2
  <2> QED BY <1>1, <2>1, <2>2, <2>3, PathInvNext
<1>3. CASE KernelSwitch
  <2>1. PICK g \in Paths : dm' = [dm EXCEPT !.pg = g] BY <1>3 DEF KernelSwitch
  <2>2. PICK v : v = dm_switchgroup(W, g) OBVIOUS
  <2>3. v \in States /\ v.mpp = mpp /\ v.pp = pp BY <1>0, <1>1, <2>2, SwitchIs
  <2>4. dm' = v.dm BY <2>1, <2>2 DEF dm_switchgroup, W
  <2> QED BY <1>2, <1>3, <2>3, <2>4 DEF KernelSwitch
<1>4. ASSUME NEW p \in Paths, KernelFail(p) PROVE PathInv'
  <2>1. PICK v : v = SetPath(W, p, "F") OBVIOUS
  <2>2. v \in States /\ v.mpp = mpp /\ v.pp = pp BY <1>0, <1>1, <2>1, PathIs
  <2>3. dm' = v.dm /\ UNCHANGED <<mpp, pp, turn>> BY <1>4, <2>1 DEF KernelFail
  <2> QED BY <1>2, <2>2, <2>3
<1> QED BY <1>3, <1>4 DEF Kernel

\* The invariant holds initially, and every step keeps it.
LEMMA InitInv == Init => PathInv
<1> SUFFICES ASSUME Init PROVE PathInv
  OBVIOUS
<1>1. W = [mpp |-> mpp, pp |-> pp, dm |-> dm] BY DEF W
<1>2. mpp \in Mpps
  <2>1. 1 \in Paths BY PathCheckAssumption DEF Paths
  <2> QED BY <2>1, RetryTicksIs, FailbackTicksAre DEF Init, Mpps, Known
<1>3. pp \in [Paths -> PathStates]
  <2>1. 0 \in Failures /\ 0 \in Rates /\ 0 \in Delays /\ 1 \in PathTicks /\ Checkint \in Intervals
        /\ 0 <= SanThreshold
    BY CountersAre
  <2> QED BY <2>1 DEF Init, PathStates, PathRecords, Good
<1>4. dm \in Dms
  <2>1. 1 \in Paths BY PathCheckAssumption DEF Paths
  <2> QED BY <2>1 DEF Init, Dms
<1>5. W \in States BY <1>1, <1>2, <1>3, <1>4 DEF States
<1>6. Consistent(W)
  <2>1. 1 \in Paths BY PathCheckAssumption DEF Paths
  <2> QED BY <1>1, <2>1 DEF Init, Consistent, Active, Good
<1>7. turn \in 1..(NPaths + 1) BY PathCheckAssumption DEF Init
<1> QED BY <1>5, <1>6, <1>7 DEF PathInv

LEMMA NextInv == PathInv /\ [Next]_vars => PathInv'
<1> SUFFICES ASSUME PathInv, [Next]_vars PROVE PathInv'
  OBVIOUS
<1>1. CASE Check BY <1>1, CheckStep
<1>2. CASE Ticks BY <1>2, TicksStep
<1>3. CASE update_multipath BY <1>3, EventStep
<1>4. CASE Cli BY <1>4, QueueingStep, CliPathStep, ReloadStep DEF Cli
<1>5. CASE Kernel BY <1>5, KernelStep
<1>6. CASE UNCHANGED vars
  BY <1>6 DEF vars, PathInv, W, Consistent, Active
<1> QED BY <1>1, <1>2, <1>3, <1>4, <1>5, <1>6 DEF Next

LEMMA InvTheorem == Spec => []PathInv
<1> QED BY InitInv, NextInv, PTL DEF Spec
-----------------------------------------------------------------------------
(***************************************************************************)
(* The theorems                                                            *)
(***************************************************************************)
\* What the invariant says of the counters and of the paths' intervals
LEMMA InvTypes == PathInv => TypeOK /\ BadPathsCheckedSoon
<1> SUFFICES ASSUME PathInv PROVE TypeOK /\ BadPathsCheckedSoon
  OBVIOUS
<1>1. mpp \in Mpps /\ pp \in [Paths -> PathStates] /\ dm \in Dms /\ turn \in 1..(NPaths + 1)
  BY DEF PathInv, W, States
<1>2. ASSUME NEW p \in Paths
      PROVE  pp[p] \in PathRecords /\ (pp[p].state \notin Good => pp[p].tick <= Checkint)
  BY <1>1 DEF PathStates
<1>3. BadPathsCheckedSoon BY <1>2 DEF BadPathsCheckedSoon
<1>4. ASSUME NEW p \in Paths
      PROVE  /\ pp[p].state \in Good \cup {"DOWN", "SHAKY", "PENDING", "DELAYED"}
             /\ pp[p].chkrstate \in Good \cup {"DOWN", "SHAKY"}
             /\ pp[p].tick \in 0..MaxCheckint
             /\ pp[p].checkint \in Checkint..MaxCheckint
             /\ pp[p].path_failures \in 0..(SanThreshold + 1)
             /\ pp[p].forget_rate \in 0..SanForgetRate
             /\ pp[p].delayed_for \in 0..(SanRecoveryTime + 1)
  <2>1. pp[p] \in PathRecords BY <1>2
  <2> QED BY <2>1 DEF PathRecords, Good, PathTicks, Intervals, Failures, Rates, Delays
<1>5. /\ mpp.no_path_retry \in {NoPathRetry, FAIL}
      /\ mpp.retry_tick \in 0..(IF NoPathRetry > 0 THEN NoPathRetry * Checkint + 1 ELSE 0)
      /\ mpp.features \in {"null", "queue", "fail"}
      /\ mpp.failback_tick \in 0..(IF PgFailback > 0 THEN PgFailback + 1 ELSE 0)
      /\ {mpp.disable_queueing, mpp.in_recovery, mpp.pg} \subseteq BOOLEAN
  BY <1>1 DEF Mpps, RetryTicks, FailbackTicks, Known
<1>6. {mpp.bestpg, mpp.nextpg, dm.pg} \subseteq Paths /\ dm.path \in [Paths -> {"A", "F"}]
  BY <1>1 DEF Mpps, Dms
<1> QED BY <1>1, <1>3, <1>4, <1>5, <1>6 DEF TypeOK

\* The retry and failback counters, and the counters of every path (tick,
\* checkint, path_failures, ...), stay in their ranges, whatever check_path(),
\* the ticks, the operator and the kernel do, and in whatever order.
THEOREM TypeOKTheorem == Spec => []TypeOK
<1> QED BY InvTheorem, InvTypes, PTL

\* check_path() and update_multipath() never leave a path that is not usable
\* with a longer interval than the shortest one.
THEOREM BadPathsCheckedSoonTheorem == Spec => []BadPathsCheckedSoon
<1> QED BY InvTheorem, InvTypes, PTL

\* The map is in recovery mode (enter_recovery_mode(), leave_recovery_mode())
\* exactly while no path is usable, whoever finds that out, if no reload
\* fails and no ghost path is left passive.
THEOREM RecoverySoundTheorem ==
  ASSUME Tame
  PROVE  Spec => []RecoverySound
<1>1. PathInv => RecoverySound
  <2> SUFFICES ASSUME PathInv PROVE RecoverySound
    OBVIOUS
  <2>1. TypeOK BY InvTypes
  <2>2. Consistent(W) /\ W.mpp = mpp BY Tame DEF PathInv, W
  <2> QED BY <2>1, <2>2 DEF RecoverySound, RecoveryIffNoPath, Consistent
<1> QED BY <1>1, InvTheorem, PTL

\* check_path_reinstate_state() lets the last path in, also when the other
\* paths failed during its delay, if the table is always read and no checker
\* is disabled or fails to give a state.
THEOREM LastPathNotDelayedTheorem ==
  ASSUME ~SyncMayFail, ~Operator, "WILD" \notin Results
  PROVE  Spec => LastPathNotDelayed
<1> DEFINE Held(p) == turn = p /\ turn' # p /\ pp[p].tick <= 1 /\ pp[p].disable_reinstate
                      /\ pp'[p].state = "DELAYED"
<1>1. ASSUME PathInv, Next, NEW p \in Paths, Held(p)
      PROVE  Active(W)
  <2>1. W \in States /\ W.pp = pp /\ W.mpp = mpp BY <1>1 DEF PathInv, W
  <2>2. W.mpp.pg = TRUE /\ ~pp[p].checker_disabled
    <3>1. W.mpp.pg \in {TRUE} BY <2>1 DEF States, Mpps, Known
    <3>2. W.pp[p] \in PathStates BY <2>1 DEF States
    <3> QED BY <2>1, <3>1, <3>2 DEF PathStates
  <2>3. turn \in Paths /\ turn' # turn /\ turn # NPaths + 1
    BY <1>1, PathCheckAssumption DEF Paths
  <2>4. Check
    BY <1>1, <2>3 DEF Next, Ticks, update_multipath, Cli, cli_disable_queueing,
                      cli_restore_queueing, cli_fail, cli_reinstate, cli_switch_group,
                      cli_reload, Kernel, KernelSwitch, KernelFail
  <2>5. ~CheckNotDue
    <3>1. pp[p].tick \in Nat
      <4>1. pp[p] \in PathRecords BY <2>1 DEF States, PathStates
      <4> QED BY <4>1 DEF PathRecords, PathTicks
    <3> QED BY <1>1, <3>1 DEF CheckNotDue
  <2>12. PICK ns \in Results \cup {"WILD"} :
          \E known \in IF SyncMayFail THEN BOOLEAN ELSE {TRUE},
             rc \in IF SyncMayFail THEN {"OK", "ERR"} ELSE {"OK"},
             prio_changed \in IF Reloads = {} THEN {FALSE} ELSE BOOLEAN,
             load \in Reloads \cup {TRUE} :
            check_path(ns, known, rc, prio_changed, load)
    BY <2>4, <2>5 DEF Check
  <2>13. PICK known \in {TRUE},
             rc \in {"OK"},
             prio_changed \in IF Reloads = {} THEN {FALSE} ELSE BOOLEAN,
             load \in Reloads \cup {TRUE} :
            check_path(ns, known, rc, prio_changed, load)
    BY <2>12
  <2>6. check_path(ns, TRUE, rc, prio_changed, load) BY <2>13
  <2>7. ns # "WILD" BY <1>1, <2>2, <2>6 DEF check_path, CheckResults
  <2>8. load \in BOOLEAN /\ TRUE \in Known BY PathCheckAssumption DEF Known
  <2>9. PICK v : v = CheckDue(W, p, ns, TRUE, rc, prio_changed, load) OBVIOUS
  <2>10. W.pp[p].disable_reinstate /\ v.pp[p].state = "DELAYED"
         /\ ns # "WILD" /\ W.mpp.pg = TRUE => Active(W)
    BY <2>1, <2>8, <2>9, CheckIs
  <2>11. pp' = v.pp BY <1>1, <2>6, <2>9 DEF check_path, Assign
  <2> QED BY <1>1, <2>1, <2>2, <2>7, <2>10, <2>11
<1>2. PathInv /\ [Next]_vars => [\A p \in Paths : Held(p) => Active(W)]_vars BY <1>1
<1>3. LastPathNotDelayed <=> [][\A p \in Paths : Held(p) => Active(W)]_vars
  BY DEF LastPathNotDelayed
<1> HIDE DEF Held
<1> QED BY <1>2, <1>3, InvTheorem, PTL DEF Spec
=============================================================================
