------------------------------ MODULE Directio ------------------------------
(***************************************************************************)
(* The directio path checker (libmultipath/checkers/directio.c) and the    *)
(* reference count of its class (libmultipath/checkers.c). Paths share     *)
(* groups of asynchronous requests: a group has one kernel AIO context and *)
(* AIO_GROUP_SIZE places. A path that goes away while its read cannot be   *)
(* aborted leaves the request behind as an orphan, which whoever reads the *)
(* events of the group next frees. All operations run under vecs->lock;    *)
(* the kernel completes reads at any time.                                 *)
(***************************************************************************)
EXTENDS Naturals, Sequences, FiniteSets, SequencesExt

CONSTANTS
  DioPaths,        \* paths with the directio checker
  AIO_GROUP_SIZE,  \* places in a group
  AioGroups,       \* addresses of groups: the kernel's fs.aio-max-nr
  AsyncReqs,       \* addresses of requests
  DioTimeout,      \* checker_timeout, in checks
  MaxRefs          \* bound on references to the class

ASSUME DioConstants ==
  /\ AIO_GROUP_SIZE \in Nat \ {0} /\ DioTimeout \in Nat /\ MaxRefs \in Nat
  /\ IsFiniteSet(DioPaths) /\ IsFiniteSet(AsyncReqs)

VARIABLES
  aio_grp_list,  \* the groups, the latest first
  holders,       \* aio_grp->holders
  orphans,       \* aio_grp->orphans
  dio_ct,        \* per path, c->context: NoDioContext or its group, request and
                 \* how many checks its read has been running
  req_state,     \* per request, req->state, or "freed"
  inflight,      \* <<group, request>>: reads that the kernel works on
  completed,     \* <<group, request, right size>>: events not yet read
  cls_refcount,  \* c->cls->refcount, 0 when the class is not loaded
  dio_reported   \* per path, the result of its last check

dio_vars == <<aio_grp_list, holders, orphans, dio_ct, req_state, inflight,
              completed, cls_refcount, dio_reported>>

aio_vars == <<aio_grp_list, holders, orphans, req_state, inflight, completed>>

NoDioContext == [running |-> 0]
DioContexts == {p \in DioPaths : dio_ct[p] # NoDioContext}
ListedGroups == {aio_grp_list[i] : i \in DOMAIN aio_grp_list}
Least(a, b) == IF a < b THEN a ELSE b

DioInit ==
  /\ aio_grp_list = <<>> /\ inflight = {} /\ completed = {}
  /\ holders = [g \in AioGroups |-> 0] /\ orphans = [g \in AioGroups |-> {}]
  /\ dio_ct = [p \in DioPaths |-> NoDioContext]
  /\ req_state = [r \in AsyncReqs |-> "freed"]
  /\ cls_refcount = 0 /\ dio_reported = [p \in DioPaths |-> "none"]

\* add_aio_group() and set_aio_group(): the first group of the list with a
\* free place, or a new one at its head; then aio_grp_list becomes lst.
set_aio_group(g, lst) ==
  LET free == {i \in DOMAIN aio_grp_list : holders[aio_grp_list[i]] < AIO_GROUP_SIZE}
  IN  \/ free # {} /\ lst = aio_grp_list
         /\ \E i \in free : g = aio_grp_list[i] /\ \A j \in free : i <= j
      \/ free = {} /\ g \notin ListedGroups /\ lst = <<g>> \o aio_grp_list

\* The class is loaded with one reference of its own.
add_checker_class == 1
checker_get ==
  cls_refcount' = (IF cls_refcount = 0 THEN add_checker_class ELSE cls_refcount) + 1

\* get_state() for a path without a checker: checker_get() and
\* libcheck_init(). When libcheck_init() fails, get_state() clears the
\* checker and the reference to the class stays taken.
libcheck_init(p) ==
  /\ dio_ct[p] = NoDioContext /\ cls_refcount < MaxRefs
  /\ checker_get
  /\ \E g \in AioGroups, lst \in {aio_grp_list} \cup {<<h>> \o aio_grp_list : h \in AioGroups} :
       /\ set_aio_group(g, lst) /\ aio_grp_list' = lst
       /\ \/ \E r \in AsyncReqs :
               /\ req_state[r] = "freed" /\ req_state' = [req_state EXCEPT ![r] = "idle"]
               /\ dio_ct' = [dio_ct EXCEPT ![p] = [grp |-> g, req |-> r, running |-> 0]]
               /\ holders' = [holders EXCEPT ![g] = @ + 1]
          \* no buffer or no O_DIRECT: the place is given back
          \/ UNCHANGED <<req_state, dio_ct, holders>>
  /\ UNCHANGED <<orphans, inflight, completed, dio_reported>>

\* No memory, or io_setup() fails, before the path has a place.
libcheck_init_fails(p) ==
  /\ dio_ct[p] = NoDioContext /\ cls_refcount < MaxRefs
  /\ checker_get
  /\ UNCHANGED <<aio_vars, dio_ct, dio_reported>>

\* remove_aio_group() for the groups gs, which leaves lst: io_destroy() waits
\* for the reads and drops their events, the orphans are freed.
remove_aio_groups(gs, lst, orph, state) ==
  /\ aio_grp_list' = lst
  /\ holders' = [g \in AioGroups |-> IF g \in gs THEN 0 ELSE holders[g]]
  /\ orphans' = [g \in AioGroups |-> IF g \in gs THEN {} ELSE orph[g]]
  /\ req_state' = [r \in AsyncReqs |->
       IF \E g \in gs : r \in orph[g] THEN "freed" ELSE state[r]]
  /\ inflight' = {i \in inflight : i[1] \notin gs}
  /\ completed' = {e \in completed : e[1] \notin gs}

\* get_events() that frees orphans and keeps their places.
get_events_KeepPlaces(g, state, sub, done) ==
  LET evs  == {e \in completed : e[1] = g} \cup done
      dead == {e[2] : e \in evs} \cap orphans[g]
  IN  /\ completed' = {e \in completed : e[1] # g}
      /\ inflight' = sub \ {<<e[1], e[2]>> : e \in done}
      /\ orphans' = [orphans EXCEPT ![g] = @ \ dead]
      /\ holders' = holders
      /\ req_state' = [r \in AsyncReqs |->
           IF r \in dead THEN "freed"
           ELSE IF \E e \in evs : e[2] = r
                THEN IF \E e \in evs : e[2] = r /\ e[3] THEN "up" ELSE "down"
                ELSE state[r]]

\* get_events(): every event of group g is read, the ones of reads that
\* complete meanwhile included. Orphans are freed and give up their place.
get_events(g, state, sub, done) ==
  LET evs  == {e \in completed : e[1] = g} \cup done
      dead == {e[2] : e \in evs} \cap orphans[g]
  IN  /\ completed' = {e \in completed : e[1] # g}
      /\ inflight' = sub \ {<<e[1], e[2]>> : e \in done}
      /\ orphans' = [orphans EXCEPT ![g] = @ \ dead]
      /\ holders' = [holders EXCEPT ![g] = @ - Cardinality(dead)]
      /\ req_state' = [r \in AsyncReqs |->
           IF r \in dead THEN "freed"
           ELSE IF \E e \in evs : e[2] = r
                THEN IF \E e \in evs : e[2] = r /\ e[3] THEN "up" ELSE "down"
                ELSE state[r]]

Answer(p, a) == dio_reported' = [dio_reported EXCEPT ![p] = a]

\* check_state(): the result of the read was read by the check of another
\* path of the group.
CheckKnown(p) ==
  LET ct == dio_ct[p]
  IN  /\ ct.running > 0 /\ req_state[ct.req] # "pending"
      /\ dio_ct' = [dio_ct EXCEPT ![p].running = 0]
      /\ Answer(p, req_state[ct.req])
      /\ UNCHANGED <<aio_vars, cls_refcount>>

\* check_state(): io_submit() fails.
CheckSubmitFails(p) ==
  /\ dio_ct[p] # NoDioContext /\ dio_ct[p].running = 0
  /\ req_state' = [req_state EXCEPT ![dio_ct[p].req] = "pending"]
  /\ Answer(p, "unchecked")
  /\ UNCHANGED <<aio_grp_list, holders, orphans, dio_ct, inflight, completed,
                 cls_refcount>>

\* check_state(): start a read unless one is running, wait for events (done:
\* the reads of the group that end meanwhile); on a time-out, or always in
\* synchronous mode, try to abort a read that has not ended.
CheckWaits(p, sync) ==
  LET ct  == dio_ct[p]
      me  == <<ct.grp, ct.req>>
      sub == IF ct.running = 0 THEN inflight \cup {me} ELSE inflight
      run == Least(ct.running + 1, DioTimeout + 1)
      state == [req_state EXCEPT ![ct.req] = "pending"]
  IN  /\ ct # NoDioContext /\ (ct.running > 0 => req_state[ct.req] = "pending")
      /\ \E ended \in SUBSET {i \in sub : i[1] = ct.grp} :
         \E ok \in SUBSET ended :
           LET done == {<<i[1], i[2], i \in ok>> : i \in ended}
               mine == {e \in completed \cup done : e[2] = ct.req}
           IN  IF mine # {}
               THEN /\ get_events(ct.grp, state, sub, done)
                    /\ dio_ct' = [dio_ct EXCEPT ![p].running = 0]
                    /\ Answer(p, IF \E e \in mine : e[3] THEN "up" ELSE "down")
               ELSE /\ \/ run <= DioTimeout /\ ~sync
                          /\ get_events(ct.grp, state, sub, done)
                          /\ dio_ct' = [dio_ct EXCEPT ![p].running = run]
                          /\ Answer(p, "pending")
                       \/ (run > DioTimeout \/ sync)
                          /\ \E aborted \in BOOLEAN :
                               /\ get_events(ct.grp, state, IF aborted THEN sub \ {me} ELSE sub, done)
                               /\ dio_ct' = [dio_ct EXCEPT ![p].running =
                                    IF aborted THEN 0 ELSE run]
                          /\ Answer(p, "down")
      /\ UNCHANGED <<aio_grp_list, cls_refcount>>

\* libcheck_free() by checker_put(). A read that is still pending and cannot
\* be aborted becomes an orphan; a group full of orphans is removed, as no
\* path would ever read its events.
DioFree(p) ==
  LET ct == dio_ct[p]
      me == <<ct.grp, ct.req>>
  IN  /\ ct # NoDioContext
      /\ \/ /\ \/ ct.running = 0 \/ req_state[ct.req] # "pending"
               \/ me \in inflight                     \* io_cancel() succeeds
            /\ inflight' = inflight \ {me}
            /\ req_state' = [req_state EXCEPT ![ct.req] = "freed"]
            /\ holders' = [holders EXCEPT ![ct.grp] = @ - 1]
            /\ UNCHANGED <<aio_grp_list, orphans, completed>>
         \/ /\ ct.running > 0 /\ req_state[ct.req] = "pending"
            /\ LET orph == [orphans EXCEPT ![ct.grp] = @ \cup {ct.req}]
                   state == [req_state EXCEPT ![ct.req] = "removed"]
               IN  IF Cardinality(orph[ct.grp]) < AIO_GROUP_SIZE
                   THEN remove_aio_groups({}, aio_grp_list, orph, state)
                   ELSE \E i \in DOMAIN aio_grp_list :
                          /\ aio_grp_list[i] = ct.grp
                          /\ remove_aio_groups({ct.grp}, RemoveAt(aio_grp_list, i), orph, state)
      /\ dio_ct' = [dio_ct EXCEPT ![p] = NoDioContext]
      /\ dio_reported' = [dio_reported EXCEPT ![p] = "none"]
      /\ cls_refcount' = cls_refcount - 1

\* reset_checker_classes() in reconfigure(), after all paths were freed:
\* libcheck_reset() removes every group.
libcheck_reset ==
  /\ DioContexts = {} /\ cls_refcount > 0
  /\ remove_aio_groups(ListedGroups, <<>>, orphans, req_state)
  /\ UNCHANGED <<dio_ct, cls_refcount, dio_reported>>

\* cleanup_checkers() once all paths are freed: the class gives up its own
\* reference and is unloaded if it was the last one.
cleanup_checkers ==
  /\ DioContexts = {} /\ cls_refcount > 0
  /\ cls_refcount' = cls_refcount - 1
  /\ IF cls_refcount = 1 THEN remove_aio_groups(ListedGroups, <<>>, orphans, req_state)
     ELSE UNCHANGED aio_vars
  /\ UNCHANGED <<dio_ct, dio_reported>>

\* The kernel ends a read.
AioCompletes ==
  /\ \E i \in inflight, ok \in BOOLEAN :
       inflight' = inflight \ {i} /\ completed' = completed \cup {<<i[1], i[2], ok>>}
  /\ UNCHANGED <<aio_grp_list, holders, orphans, dio_ct, req_state, cls_refcount,
                 dio_reported>>

DioNext ==
  \/ \E p \in DioPaths :
       \/ libcheck_init(p) \/ libcheck_init_fails(p) \/ DioFree(p)
       \/ CheckKnown(p) \/ CheckSubmitFails(p)
       \/ \E sync \in BOOLEAN : CheckWaits(p, sync)
  \/ libcheck_reset \/ cleanup_checkers \/ AioCompletes

DioSpec == DioInit /\ [][DioNext]_dio_vars

(***************************************************************************)
(* Properties                                                              *)
(***************************************************************************)

\* A read that the kernel still has, or whose event nobody has read, writes
\* into memory that is still there: its group is in the list, and its request
\* is either that of the one path whose check is running or an orphan of the
\* group. Places are not lost: a group's holders are exactly the paths that
\* use it and its orphans, and never more than it has places. The code of the
\* checker stays loaded as long as a path uses it.
AioAccounted ==
  /\ \A k \in inflight \cup {<<e[1], e[2]>> : e \in completed} :
       /\ k[1] \in ListedGroups
       /\ \/ k[2] \in orphans[k[1]] /\ req_state[k[2]] = "removed"
          \/ \E p \in DioContexts : /\ dio_ct[p].req = k[2] /\ dio_ct[p].grp = k[1]
                                 /\ dio_ct[p].running > 0
                                 /\ req_state[k[2]] = "pending"
  /\ \A g \in ListedGroups :
       /\ holders[g] = Cardinality({p \in DioContexts : dio_ct[p].grp = g})
                       + Cardinality(orphans[g])
       /\ holders[g] <= AIO_GROUP_SIZE
  /\ \A p \in DioContexts : dio_ct[p].grp \in ListedGroups
  /\ DioContexts # {} => cls_refcount >= 2
=============================================================================
