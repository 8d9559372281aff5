---------------------------- MODULE UeventQueue ----------------------------
(***************************************************************************)
(* The uevents of libmultipath/uevent.c on their way from the kernel to    *)
(* uev_trigger(): the listener collects a burst of them, the dispatcher    *)
(* takes all that were queued, discards those of blacklisted devices,      *)
(* filters and merges the others and hands them on one after another, each *)
(* after those that were merged with it.                                   *)
(*                                                                         *)
(* A uevent is its number, device, action and WWID. Sections under         *)
(* uevq_lock, and what the dispatcher does to its own list, are one step.  *)
(***************************************************************************)
EXTENDS Naturals, Sequences, SequencesExt

CONSTANTS
  PathDevs,      \* block devices that are not maps
  DmDevs,        \* block devices that are maps: kernel names "dm-..."
  Blacklisted,   \* the path devices that blist_devnode names
  Anonymous,     \* the path devices whose uevents do not carry a WWID: those
                 \* that uid_attrs does not name, all of them if it is not set
  Wwids,         \* the WWIDs
  NoWwid,        \* the WWID of a uevent that carries none
  MaxUevents     \* bound on the uevents that arrive

ASSUME UeventAssumption ==
  /\ PathDevs \cap DmDevs = {} 
  /\ Blacklisted \subseteq PathDevs /\ Anonymous \subseteq PathDevs
  /\ NoWwid \notin Wwids
  /\ MaxUevents \in Nat

VARIABLES
  lun,             \* the LUN each path device leads to, where it matters
  uevlisten_tmp,   \* the list of the listener
  uevq,            \* the queue
  merging,         \* the list of the dispatcher, as far as merge_uevq() has
                   \* not passed it
  uevq_tmp,        \* the rest of that list, filtered and merged
  disp,            \* where uevent_dispatch() is, and whether it is signaled
  received,        \* history: the uevents that have arrived
  triggered        \* history: the uevents that uev_trigger() has handled

uev_vars == <<lun, uevlisten_tmp, uevq, merging, uevq_tmp, disp, received, triggered>>

Devs    == PathDevs \cup DmDevs
Named   == PathDevs \ (Anonymous \cup Blacklisted)    \* their WWID matters
Actions == {"add", "remove", "change"}

-----------------------------------------------------------------------------
(* Filtering and merging                                                   *)

\* The elements of q at the places that are in I, in their order
Kept(q, I) ==
  LET kept[i \in 0..Len(q)] == IF i = 0 THEN <<>>
                               ELSE IF i \in I THEN Append(kept[i - 1], q[i])
                               ELSE kept[i - 1]
  IN  kept[Len(q)]

uevent_can_discard(u) == u.dev \in Blacklisted

uevent_prepare(q) == Kept(q, {i \in 1..Len(q) : ~uevent_can_discard(q[i])})

uevent_can_filter(earlier, later) ==
  /\ earlier.dev = later.dev /\ later.dev \notin DmDevs
  /\ \/ later.action = "remove"
     \/ earlier.action = "change" /\ later.action = "add"

\* Mutant: a uevent without a WWID does not stop merging.
merge_need_stop_dm(earlier, later) ==
  \/ later.dev \in DmDevs
  \/ /\ earlier.wwid = later.wwid
     /\ earlier.action # later.action
     /\ earlier.action # "change" /\ later.action # "change"

\* Mutant: uevents of the same LUN with opposite actions do not stop merging.
merge_need_stop_same(earlier, later) ==
  later.dev \in DmDevs \/ earlier.wwid = NoWwid \/ later.wwid = NoWwid

merge_need_stop(earlier, later) ==
  \/ later.dev \in DmDevs
  \/ earlier.wwid = NoWwid \/ later.wwid = NoWwid
  \/ /\ earlier.wwid = later.wwid
     /\ earlier.action # later.action
     /\ earlier.action # "change" /\ later.action # "change"

uevent_can_merge(earlier, later) ==
  /\ earlier.wwid # NoWwid /\ earlier.wwid = later.wwid
  /\ earlier.action = later.action /\ earlier.action # "change"
  /\ earlier.dev \notin DmDevs

\* Mutant: also the uevents of other devices are dropped.
uevent_filter_any(later, q) == Kept(q, {i \in 1..Len(q) : later.action # "remove"})

uevent_filter(later, q) == Kept(q, {i \in 1..Len(q) : ~uevent_can_filter(q[i], later)})

\* The places of the uevents that uevent_merge() moves to later->merge_node,
\* all behind the last uevent that stops it
Merged(later, q) ==
  {i \in 1..Len(q) : /\ uevent_can_merge(q[i], later)
                     /\ \A j \in i..Len(q) : ~merge_need_stop(q[j], later)}

-----------------------------------------------------------------------------
(* The listener, the dispatcher and the devices                            *)

\* A uevent arrives and the listener reads it. uevent_get_wwid() is not
\* called for maps.
uevent_receive(d, a) ==
  /\ Len(received) < MaxUevents
  /\ d \in DmDevs => a # "add"
  /\ LET u == [n |-> Len(received) + 1, dev |-> d, action |-> a,
               wwid |-> IF d \in Named THEN lun[d] ELSE NoWwid]
     IN  /\ received' = Append(received, u)
         /\ uevlisten_tmp' = Append(uevlisten_tmp, u)
  /\ UNCHANGED <<lun, uevq, merging, uevq_tmp, disp, triggered>>

\* A device name is given to another LUN, after the device was removed.
Reassign(d, w) ==
  /\ w # lun[d]
  /\ received # <<>> /\ Last(received).dev = d /\ Last(received).action = "remove"
  /\ lun' = [lun EXCEPT ![d] = w]
  /\ UNCHANGED <<uevlisten_tmp, uevq, merging, uevq_tmp, disp, received, triggered>>

\* No uevent is pending, and none came within the time that uevent_burst() allows.
uevent_listen ==
  /\ uevlisten_tmp # <<>>
  /\ uevq' = uevq \o uevlisten_tmp
  /\ uevlisten_tmp' = <<>>
  /\ disp' = [disp EXCEPT !.woken = disp.pc = "wait"]
  /\ UNCHANGED <<lun, merging, uevq_tmp, received, triggered>>

\* uevent_dispatch() up to the loop of merge_uevq(), with uevent_prepare(). A
\* wait may end without a signal.
uevent_dispatch ==
  /\ disp.pc = "loop" \/ (disp.pc = "wait" /\ disp.woken)
  /\ IF disp.pc = "loop" /\ uevq = <<>>
     THEN disp' = [disp EXCEPT !.pc = "wait"] /\ UNCHANGED <<uevq, merging>>
     ELSE /\ disp' = [pc |-> "merge", woken |-> FALSE]
          /\ merging' = uevent_prepare(uevq)
          /\ uevq' = <<>>
  /\ UNCHANGED <<lun, uevlisten_tmp, uevq_tmp, received, triggered>>

\* A round of merge_uevq(), which goes from the last uevent to the first: it
\* filters and merges what is before "later".
merge_uevq ==
  /\ disp.pc = "merge"
  /\ IF merging = <<>>
     THEN disp' = [disp EXCEPT !.pc = "service"] /\ UNCHANGED <<merging, uevq_tmp>>
     ELSE LET later   == Last(merging)
              earlier == uevent_filter(later, Front(merging))
              moved   == Merged(later, earlier)
          IN  /\ uevq_tmp' = <<[u |-> later, merge_node |-> Kept(earlier, moved)]>> \o uevq_tmp
              /\ merging' = Kept(earlier, (1..Len(earlier)) \ moved)
              /\ UNCHANGED disp
  /\ UNCHANGED <<lun, uevlisten_tmp, uevq, received, triggered>>

SpuriousWakeupUev ==
  /\ disp.pc = "wait" /\ ~disp.woken
  /\ disp' = [disp EXCEPT !.woken = TRUE]
  /\ UNCHANGED <<lun, uevlisten_tmp, uevq, merging, uevq_tmp, received, triggered>>

\* service_uevq() and uev_trigger(): first the uevents of the merge_node
service_uevq ==
  /\ disp.pc = "service"
  /\ IF uevq_tmp = <<>> THEN disp' = [disp EXCEPT !.pc = "loop"] /\ UNCHANGED <<uevq_tmp, triggered>>
     ELSE /\ triggered' = triggered \o Head(uevq_tmp).merge_node \o <<Head(uevq_tmp).u>>
          /\ uevq_tmp' = Tail(uevq_tmp)
          /\ UNCHANGED disp
  /\ UNCHANGED <<lun, uevlisten_tmp, uevq, merging, received>>

UevInit ==
  /\ lun \in [Named -> Wwids]
  /\ uevlisten_tmp = <<>> /\ uevq = <<>> /\ merging = <<>> /\ uevq_tmp = <<>>
  /\ disp = [pc |-> "wait", woken |-> FALSE]
  /\ received = <<>> /\ triggered = <<>>

UevNext ==
  \/ \E d \in Devs, a \in Actions : uevent_receive(d, a)
  \/ \E d \in Named, w \in Wwids : Reassign(d, w)
  \/ uevent_listen
  \/ uevent_dispatch \/ SpuriousWakeupUev \/ merge_uevq \/ service_uevq

\* The two threads run: poll() times out, and the dispatcher goes on.
UevFairness ==
  /\ WF_uev_vars(uevent_listen)
  /\ WF_uev_vars(uevent_dispatch)
  /\ WF_uev_vars(merge_uevq)
  /\ WF_uev_vars(service_uevq)

UevSpec == UevInit /\ [][UevNext]_uev_vars /\ UevFairness

-----------------------------------------------------------------------------
(* Properties                                                              *)

\* The add and remove uevents of a path that leads to one LUN are handled in the
\* order they arrived in, each at most once, however they were merged with those
\* of other paths: the last one decides whether the path is there.
AddRemoveOrder ==
  \A i, j \in 1..Len(triggered) :
    LET u == triggered[i]
        v == triggered[j]
    IN  i < j /\ u.dev = v.dev /\ u.wwid = v.wwid /\ "change" \notin {u.action, v.action}
          => u.n < v.n

\* A uevent of a map, or one without a WWID, is handled after all that came
\* before it and before all that came after it: nothing is moved across.
BarrierKept ==
  \A i, j \in 1..Len(triggered) :
    i < j /\ NoWwid \in {triggered[i].wwid, triggered[j].wwid} => triggered[i].n < triggered[j].n

\* Merging and filtering keep the order of the uevents where it matters.
OrderKept == AddRemoveOrder /\ BarrierKept

Handled(u) ==
  \/ u.dev \in Blacklisted
  \/ \E i \in 1..Len(triggered) :
       \/ triggered[i].n = u.n
       \/ triggered[i].n > u.n /\ uevent_can_filter(u, triggered[i])

\* Every uevent of a device that is not blacklisted is handled, unless a later
\* "remove", or a later "add" for a "change", of the same device is.
UeventsHandled ==
  \A k \in 1..MaxUevents :
    Len(received) >= k ~> Len(received) >= k /\ Handled(received[k])
=============================================================================
