---------------------------- MODULE InputProofs ----------------------------
(***************************************************************************)
(* Proofs about what comes in from outside.                                *)
(*                                                                         *)
(* Claim, for any devices, LUNs and find_multipaths setting: however       *)
(* "multipath -u", multipathd, multipath(8) and the rest of the system     *)
(* interleave, a device that somebody uses is only taken away if its WWID  *)
(* was written to the WWIDs file.                                          *)
(*                                                                         *)
(* UxSocket, for any clients, commands and buffer sizes: the reply that a  *)
(* client gets is the one to its command.                                  *)
(*                                                                         *)
(* Aliases, for any processes, bindings files and number of letters: no    *)
(* name and no WWID is bound twice, and a name that was given stays bound. *)
(*                                                                         *)
(* PropSelect, for any configurations and hardware: what is selected for a *)
(* map does not depend on what the map went through.                       *)
(*                                                                         *)
(* Dict, for any lines of configuration files: an option that is printed   *)
(* and read back counts for what it did.                                   *)
(***************************************************************************)
EXTENDS Claim, UxSocket, Aliases, PropSelect, Dict, SequenceTheorems, FiniteSetTheorems,
        WellFoundedInduction, TLAPS

(***************************************************************************)
(* Claim: the inductive invariant                                          *)
(***************************************************************************)
Kinds == {"add", "change", "remove"}

Props == [path : {"none", "0", "1"}, until : {"none", "same", "0", "wait"},
           cancelled : BOOLEAN]

Answers ==
  [says  : {"none", "valid_no_check", "valid", "maybe", "not_valid", "0", "1", "2"},
   until : {"none", "same", "0", "wait"}]

ClaimTypeOK ==
  /\ db \in [BlockDevs -> Props] /\ verdict \in [BlockDevs -> Answers]
  /\ uevs \in [BlockDevs -> Seq(Kinds)]
  /\ maps \in [ClaimWwids -> SUBSET BlockDevs]

\* No "remove" uevent is pending for device d.
NoRemove(q, d) == \A i \in 1..Len(q[d]) : q[d][i] # "remove"

\* A device that is there will not be forgotten, so that the one who mounted
\* it knows that it was released: its properties are there as long as it is used.
UsedKnown ==
  /\ \A d \in BlockDevs : d \in present => NoRemove(uevs, d)
  /\ \A d \in used : d \in present /\ d \in BlockDevs /\ db[d].path # "none"
  /\ present \subseteq BlockDevs

\* Whoever creates a map writes its WWID to the file first.
Remembers ==
  /\ wwids_file \subseteq remembered
  /\ \A w \in ClaimWwids : maps[w] # {} => w \in remembered

\* multipath -u claims a device that was released only if it need not be
\* checked.
VerdictSound ==
  \A d \in BlockDevs :
    /\ verdict[d].says = "valid_no_check" => Lun[d] \in remembered
    /\ verdict[d].says \in {"1", "2"} => db[d].path # "0" \/ Lun[d] \in remembered

\* Whoever answers does so for the first uevent of the queue.
Answering == \A d \in BlockDevs : verdict[d].says # "none" => uevs[d] # <<>>

ClaimInv ==
  ClaimTypeOK /\ UsedKnown /\ Remembers /\ VerdictSound /\ Answering /\ InUseNotHidden
-----------------------------------------------------------------------------
\* Nothing is there yet.
LEMMA ClaimInitInv == ClaimInit => ClaimInv
<1> SUFFICES ASSUME ClaimInit PROVE ClaimInv
  OBVIOUS
<1> USE DEF ClaimInit, NoProps, NoAnswer
<1>1. ClaimTypeOK
  <2>1. NoProps \in Props /\ NoAnswer \in Answers BY DEF Props, Answers
  <2>2. db \in [BlockDevs -> Props] /\ verdict \in [BlockDevs -> Answers]
    <3> HIDE DEF NoProps, NoAnswer
    <3> QED BY <2>1
  <2>3. uevs \in [BlockDevs -> Seq(Kinds)] /\ maps \in [ClaimWwids -> SUBSET BlockDevs]
    <3>1. <<>> \in Seq(Kinds) OBVIOUS
    <3> QED BY <3>1
  <2> QED BY <2>2, <2>3 DEF ClaimTypeOK
<1>2. UsedKnown /\ Remembers BY DEF UsedKnown, Remembers, NoRemove
<1>3. VerdictSound /\ Answering /\ InUseNotHidden
  BY DEF VerdictSound, Answering, InUseNotHidden
<1> QED BY <1>1, <1>2, <1>3 DEF ClaimInv

\* A uevent is queued for some devices.
LEMMA QueueIs ==
  ASSUME NEW q \in [BlockDevs -> Seq(Kinds)], NEW ds, NEW act \in Kinds
  PROVE  /\ Queue(q, ds, act) \in [BlockDevs -> Seq(Kinds)]
         /\ \A d \in BlockDevs :
              /\ NoRemove(q, d) /\ (act # "remove" \/ d \notin ds) => NoRemove(Queue(q, ds, act), d)
              /\ q[d] # <<>> => Queue(q, ds, act)[d] # <<>>
<1>1. ASSUME NEW d \in BlockDevs
      PROVE  /\ Queue(q, ds, act)[d] \in Seq(Kinds)
             /\ NoRemove(q, d) /\ (act # "remove" \/ d \notin ds) => NoRemove(Queue(q, ds, act), d)
             /\ q[d] # <<>> => Queue(q, ds, act)[d] # <<>>
  <2>1. CASE d \in ds /\ Len(q[d]) < MaxUevs
    <3>1. Queue(q, ds, act)[d] = Append(q[d], act) BY <2>1 DEF Queue
    <3>2. /\ Append(q[d], act) \in Seq(Kinds) /\ Len(Append(q[d], act)) = Len(q[d]) + 1
          /\ \A i \in 1..Len(q[d]) : Append(q[d], act)[i] = q[d][i]
          /\ Append(q[d], act)[Len(q[d]) + 1] = act
          /\ Len(q[d]) \in Nat /\ Append(q[d], act) # <<>>
      OBVIOUS
    <3> QED BY <2>1, <3>1, <3>2 DEF NoRemove
  <2>2. CASE ~(d \in ds /\ Len(q[d]) < MaxUevs)
    <3>1. Queue(q, ds, act)[d] = q[d] BY <2>2 DEF Queue
    <3> QED BY <3>1 DEF NoRemove
  <2> QED BY <2>1, <2>2
<1>2. Queue(q, ds, act) \in [BlockDevs -> Seq(Kinds)]
  <2>1. Queue(q, ds, act) = [d \in BlockDevs |-> Queue(q, ds, act)[d]] BY DEF Queue
  <2> QED BY <1>1, <2>1
<1> QED BY <1>1, <1>2

\* Taking the first uevent off a queue.
LEMMA TailIs ==
  ASSUME NEW q \in [BlockDevs -> Seq(Kinds)], NEW d \in BlockDevs, q[d] # <<>>
  PROVE  /\ [q EXCEPT ![d] = Tail(@)] \in [BlockDevs -> Seq(Kinds)]
         /\ \A e \in BlockDevs : NoRemove(q, e) => NoRemove([q EXCEPT ![d] = Tail(@)], e)
<1> DEFINE r == [q EXCEPT ![d] = Tail(@)]
<1>1. /\ Tail(q[d]) \in Seq(Kinds) /\ Len(q[d]) \in Nat /\ Len(Tail(q[d])) = Len(q[d]) - 1
      /\ \A i \in 1..Len(Tail(q[d])) : Tail(q[d])[i] = q[d][i + 1]
  OBVIOUS
<1>2. r[d] = Tail(q[d]) /\ \A e \in BlockDevs : e # d => r[e] = q[e]
  OBVIOUS
<1>3. r \in [BlockDevs -> Seq(Kinds)] BY <1>1
<1> HIDE DEF r
<1>4. ASSUME NoRemove(q, d) PROVE NoRemove(r, d)
  <2> SUFFICES ASSUME NEW i \in 1..Len(r[d]) PROVE r[d][i] # "remove"
    BY DEF NoRemove
  <2>1. i + 1 \in 1..Len(q[d]) /\ r[d][i] = q[d][i + 1] BY <1>1, <1>2
  <2> QED BY <1>4, <2>1 DEF NoRemove
<1>5. \A e \in BlockDevs : NoRemove(q, e) => NoRemove(r, e)
  BY <1>2, <1>4 DEF NoRemove
<1> QED BY <1>3, <1>5 DEF r

(***************************************************************************)
(* multipathd, multipath(8) and time                                       *)
(***************************************************************************)
\* Maps and uevents change, and whoever creates a map remembers its WWID.
MapsChanged ==
  /\ UNCHANGED <<present, used, db, verdict>>
  /\ uevs' \in [BlockDevs -> Seq(Kinds)] /\ maps' \in [ClaimWwids -> SUBSET BlockDevs]
  /\ \A d \in BlockDevs : d \in present /\ NoRemove(uevs, d) => NoRemove(uevs', d)
  /\ \A d \in BlockDevs : uevs[d] # <<>> => uevs'[d] # <<>>
  /\ remembered \subseteq remembered' /\ wwids_file' \subseteq remembered'
  /\ \A w \in ClaimWwids : maps'[w] # {} => w \in remembered'

LEMMA MapsChangedKeeps == ASSUME ClaimInv, MapsChanged PROVE ClaimInv'
<1> USE DEF ClaimInv, MapsChanged
<1>1. ClaimTypeOK' BY DEF ClaimTypeOK
<1>2. UsedKnown'
  <2>1. \A d \in BlockDevs : d \in present => NoRemove(uevs', d) BY DEF UsedKnown
  <2> QED BY <2>1 DEF UsedKnown, NoRemove
<1>3. Remembers' BY DEF Remembers
<1>4. VerdictSound' /\ Answering' BY DEF VerdictSound, Answering
<1>5. InUseNotHidden' BY DEF InUseNotHidden
<1> QED BY <1>1, <1>2, <1>3, <1>4, <1>5

\* A map is created, or the kernel refuses it.
LEMMA CreateStep ==
  ASSUME ClaimInv, NEW w \in ClaimWwids, NEW ds \in SUBSET BlockDevs, NEW props,
         domap_create(w, ds, props), UNCHANGED <<present, used, db, verdict>>
  PROVE  ClaimInv'
<1>1. uevs \in [BlockDevs -> Seq(Kinds)] /\ maps \in [ClaimWwids -> SUBSET BlockDevs]
  BY DEF ClaimInv, ClaimTypeOK
<1>2. /\ uevs' \in [BlockDevs -> Seq(Kinds)]
      /\ \A d \in BlockDevs : d \in present /\ NoRemove(uevs, d) => NoRemove(uevs', d)
      /\ \A d \in BlockDevs : uevs[d] # <<>> => uevs'[d] # <<>>
  <2> DEFINE yes == trigger_paths_udev_change(ds, props, TRUE)
             no == trigger_paths_udev_change(ds, props, FALSE)
  <2> HIDE DEF yes, no
  <2>1. \/ uevs' = uevs \/ uevs' = Queue(uevs, yes, "change") \/ uevs' = Queue(uevs, no, "add")
    <3>1. CASE ds \cap used = {} BY <3>1 DEF domap_create, yes
    <3>2. CASE ds \cap used # {} BY <3>2 DEF domap_create, no
    <3> QED BY <3>1, <3>2
  <2>2. "change" \in Kinds /\ "add" \in Kinds /\ "change" # "remove" /\ "add" # "remove"
    BY DEF Kinds
  <2>3. CASE uevs' = uevs BY <1>1, <2>3 DEF NoRemove
  <2>4. CASE uevs' = Queue(uevs, yes, "change") BY <1>1, <2>2, <2>4, QueueIs
  <2>5. CASE uevs' = Queue(uevs, no, "add") BY <1>1, <2>2, <2>5, QueueIs
  <2> QED BY <2>1, <2>3, <2>4, <2>5
<1>3. /\ maps' \in [ClaimWwids -> SUBSET BlockDevs]
      /\ remembered \subseteq remembered' /\ wwids_file' \subseteq remembered'
      /\ \A v \in ClaimWwids : maps'[v] # {} => v \in remembered'
  BY <1>1 DEF domap_create, ClaimInv, Remembers
<1>4. MapsChanged BY <1>2, <1>3 DEF MapsChanged
<1> QED BY <1>4, MapsChangedKeeps

\* multipathd handles a uevent.
LEMMA TriggerStep == ASSUME ClaimInv, NEW d \in BlockDevs, uev_trigger(d) PROVE ClaimInv'
<1> DEFINE w == Lun[d]
<1>1. w \in ClaimWwids /\ UNCHANGED <<present, used, db, verdict>>
  BY DEF uev_trigger, ClaimWwids
<1>2. /\ uevs \in [BlockDevs -> Seq(Kinds)] /\ maps \in [ClaimWwids -> SUBSET BlockDevs]
      /\ wwids_file \subseteq remembered /\ \A v \in ClaimWwids : maps[v] # {} => v \in remembered
  BY DEF ClaimInv, ClaimTypeOK, Remembers
<1>3. ASSUME UNCHANGED <<wwids_file, remembered, uevs>>, NEW ds \in SUBSET BlockDevs,
             \/ maps' = maps
             \/ maps' = [maps EXCEPT ![w] = ds] /\ (ds # {} => maps[w] # {})
      PROVE  ClaimInv'
  <2>1. MapsChanged BY <1>1, <1>2, <1>3 DEF MapsChanged
  <2> QED BY <2>1, MapsChangedKeeps
<1>4. CASE /\ maps' = [maps EXCEPT ![w] = @ \ {d}]
           /\ UNCHANGED <<wwids_file, failed, remembered, uevs>>
  <2>1. /\ maps' = [maps EXCEPT ![w] = maps[w] \ {d}] /\ maps[w] \ {d} \in SUBSET BlockDevs
        /\ (maps[w] \ {d} # {} => maps[w] # {})
    BY <1>1, <1>2, <1>4
  <2> QED BY <1>3, <1>4, <2>1
<1>5. CASE AddToMap(w, d) /\ maps[w] # {}
  <2>1. /\ maps' = maps \/ maps' = [maps EXCEPT ![w] = maps[w] \cup {d}]
        /\ maps[w] \cup {d} \in SUBSET BlockDevs /\ UNCHANGED <<wwids_file, remembered, uevs>>
    BY <1>1, <1>2, <1>5 DEF AddToMap
  <2> QED BY <1>3, <1>5, <2>1
<1>6. CASE \E k : domap_create(w, KnownPaths(k, w), k)
  BY <1>1, <1>6, CreateStep DEF KnownPaths
<1>7. CASE NoMapChange
  BY <1>3, <1>7 DEF NoMapChange
<1> QED BY <1>4, <1>5, <1>6, <1>7 DEF uev_trigger

\* multipathd starts: it creates and reloads the maps that it wants.
LEMMA StartsStep == ASSUME ClaimInv, MultipathdStarts PROVE ClaimInv'
<1>1. /\ uevs \in [BlockDevs -> Seq(Kinds)] /\ maps \in [ClaimWwids -> SUBSET BlockDevs]
      /\ wwids_file \subseteq remembered
  BY DEF ClaimInv, ClaimTypeOK, Remembers
<1> DEFINE k == [d \in BlockDevs |->
                   IF d \in present /\ (db[d] # NoProps \/ sysfs_is_multipathed(d))
                   THEN db[d] ELSE NotKnown]
           ds == [w \in ClaimWwids |-> KnownPaths(k, w)]
           wanted == {w \in ClaimWwids : ds[w] # {} /\ should_multipath(w, ds[w])}
           refused == {w \in wanted : ds[w] \cap used # {}}
           fine == wanted \ refused
           newly == {w \in refused : maps[w] = {}}
           tell == {w \in fine : w \notin wwids_file \/ (maps[w] = {} /\ w \in failed)}
           Told(W, is_mpath) == trigger_paths_udev_change(UNION {ds[w] : w \in W}, k, is_mpath)
           told == Told(tell, TRUE)
           deny == Told(newly \ failed, FALSE)
<1>2. ds \in [ClaimWwids -> SUBSET BlockDevs]
  <2> HIDE DEF k
  <2> QED BY DEF KnownPaths
<1>3. /\ UNCHANGED <<present, used, db, verdict>>
      /\ maps' = [w \in ClaimWwids |-> IF w \in fine THEN ds[w] ELSE {}]
      /\ wwids_file' = wwids_file \cup fine /\ remembered' = remembered \cup fine
      /\ uevs' = Queue(Queue(uevs, told, "change"), deny, "add")
  BY DEF MultipathdStarts
<1> HIDE DEF ds, fine, told, deny
<1>4. "change" \in Kinds /\ "add" \in Kinds /\ "change" # "remove" /\ "add" # "remove"
  BY DEF Kinds
<1>5. /\ uevs' \in [BlockDevs -> Seq(Kinds)]
      /\ \A d \in BlockDevs : NoRemove(uevs, d) => NoRemove(uevs', d)
      /\ \A d \in BlockDevs : uevs[d] # <<>> => uevs'[d] # <<>>
  <2> DEFINE q == Queue(uevs, told, "change")
  <2>1. /\ q \in [BlockDevs -> Seq(Kinds)]
        /\ \A d \in BlockDevs : NoRemove(uevs, d) => NoRemove(q, d)
        /\ \A d \in BlockDevs : uevs[d] # <<>> => q[d] # <<>>
    BY <1>1, <1>4, QueueIs
  <2>2. uevs' = Queue(q, deny, "add") BY <1>3
  <2> HIDE DEF q
  <2> QED BY <1>4, <2>1, <2>2, QueueIs
<1>6. MapsChanged BY <1>1, <1>2, <1>3, <1>5 DEF MapsChanged
<1> QED BY <1>6, MapsChangedKeeps

\* The other commands, multipathd's end, the timer and time.
LEMMA OtherStep ==
  ASSUME ClaimInv,
         \/ MultipathdStops \/ TimePasses \/ replace_wwids
         \/ \E w \in ClaimWwids : FlushMap(w) \/ remember_wwid(w) \/ remove_wwid(w)
         \/ \E d \in BlockDevs : TimerFires(d) \/ Change(d)
  PROVE  ClaimInv'
<1>1. /\ uevs \in [BlockDevs -> Seq(Kinds)] /\ maps \in [ClaimWwids -> SUBSET BlockDevs]
      /\ wwids_file \subseteq remembered /\ \A v \in ClaimWwids : maps[v] # {} => v \in remembered
  BY DEF ClaimInv, ClaimTypeOK, Remembers
<1>2. ASSUME UNCHANGED <<present, used, db, verdict, uevs>>,
             maps' \in [ClaimWwids -> SUBSET BlockDevs], remembered \subseteq remembered',
             wwids_file' \subseteq remembered', \A w \in ClaimWwids : maps'[w] # {} => maps[w] # {}
      PROVE  ClaimInv'
  <2>1. MapsChanged BY <1>1, <1>2 DEF MapsChanged
  <2> QED BY <2>1, MapsChangedKeeps
<1>3. CASE MultipathdStops \/ TimePasses
  BY <1>1, <1>2, <1>3 DEF MultipathdStops, TimePasses
<1>4. CASE replace_wwids
  BY <1>1, <1>2, <1>4 DEF replace_wwids, CommandKeeps
<1>5. ASSUME NEW w \in ClaimWwids, FlushMap(w) PROVE ClaimInv'
  <2>1. maps' = [maps EXCEPT ![w] = {}] /\ UNCHANGED <<wwids_file, remembered>>
    BY <1>5 DEF FlushMap
  <2>2. UNCHANGED <<present, used, db, verdict, uevs>> BY <1>5 DEF FlushMap, CommandKeeps
  <2> QED BY <1>1, <1>2, <2>1, <2>2
<1>6. ASSUME NEW w \in ClaimWwids, remember_wwid(w) PROVE ClaimInv'
  BY <1>1, <1>2, <1>6 DEF remember_wwid, CommandKeeps
<1>7. ASSUME NEW w \in ClaimWwids, remove_wwid(w) PROVE ClaimInv'
  BY <1>1, <1>2, <1>7 DEF remove_wwid, CommandKeeps
<1>8. ASSUME NEW d \in BlockDevs, TimerFires(d) \/ Change(d) PROVE ClaimInv'
  <2>1. /\ UNCHANGED <<present, used, db, verdict, maps, wwids_file, remembered>>
        /\ uevs' = uevs \/ uevs' = Queue(uevs, {d}, "add") \/ uevs' = Queue(uevs, {d}, "change")
    BY <1>8 DEF TimerFires, Change
  <2>2. "change" \in Kinds /\ "add" \in Kinds /\ "change" # "remove" /\ "add" # "remove"
    BY DEF Kinds
  <2>3. /\ uevs' \in [BlockDevs -> Seq(Kinds)]
        /\ \A e \in BlockDevs : NoRemove(uevs, e) => NoRemove(uevs', e)
        /\ \A e \in BlockDevs : uevs[e] # <<>> => uevs'[e] # <<>>
    <3>1. CASE uevs' = uevs BY <1>1, <3>1 DEF NoRemove
    <3>2. CASE uevs' = Queue(uevs, {d}, "add") BY <1>1, <2>2, <3>2, QueueIs
    <3>3. CASE uevs' = Queue(uevs, {d}, "change") BY <1>1, <2>2, <3>3, QueueIs
    <3> QED BY <2>1, <3>1, <3>2, <3>3
  <2>4. MapsChanged BY <1>1, <2>1, <2>3 DEF MapsChanged
  <2> QED BY <2>4, MapsChangedKeeps
<1> QED BY <1>3, <1>4, <1>5, <1>6, <1>7, <1>8

(***************************************************************************)
(* udev and multipath -u                                                   *)
(***************************************************************************)
\* A device's properties are deleted with it.
LEMMA RemoveStep == ASSUME ClaimInv, NEW d \in BlockDevs, UeventRemove(d) PROVE ClaimInv'
<1>1. /\ uevs[d] # <<>> /\ Head(uevs[d]) = "remove"
      /\ uevs' = [uevs EXCEPT ![d] = Tail(@)] /\ db' = [db EXCEPT ![d] = NoProps]
      /\ verdict[d] = NoAnswer
      /\ UNCHANGED <<present, used, maps, wwids_file, remembered, verdict>>
  BY DEF UeventRemove
<1>2. /\ uevs \in [BlockDevs -> Seq(Kinds)] /\ db \in [BlockDevs -> Props]
  BY DEF ClaimInv, ClaimTypeOK
<1>3. d \notin present /\ d \notin used
  <2>1. Len(uevs[d]) \in Nat \ {0} /\ Head(uevs[d]) = uevs[d][1] BY <1>1, <1>2
  <2>2. ~NoRemove(uevs, d) BY <1>1, <2>1 DEF NoRemove
  <2> QED BY <2>2 DEF ClaimInv, UsedKnown
<1>4. /\ NoProps \in Props /\ NoProps.path = "none" BY DEF NoProps, Props
<1>5. ClaimTypeOK'
  <2>1. uevs' \in [BlockDevs -> Seq(Kinds)] BY <1>1, <1>2, TailIs
  <2>2. db' \in [BlockDevs -> Props] BY <1>1, <1>2, <1>4
  <2> QED BY <1>1, <2>1, <2>2 DEF ClaimInv, ClaimTypeOK
<1>6. UsedKnown'
  <2>1. \A e \in BlockDevs : NoRemove(uevs, e) => NoRemove(uevs', e) BY <1>1, <1>2, TailIs
  <2>2. \A e \in BlockDevs : e # d => db'[e] = db[e] BY <1>1, <1>2
  <2>3. \A e \in BlockDevs : e \in present => NoRemove(uevs', e)
    BY <2>1 DEF ClaimInv, UsedKnown
  <2>4. \A e \in used : e \in present /\ e \in BlockDevs /\ db'[e].path # "none"
    BY <1>3, <2>2 DEF ClaimInv, UsedKnown
  <2>5. present \subseteq BlockDevs BY DEF ClaimInv, UsedKnown
  <2> QED BY <1>1, <2>3, <2>4, <2>5 DEF UsedKnown, NoRemove
<1>7. Remembers' BY <1>1 DEF ClaimInv, Remembers
<1>8. VerdictSound'
  <2>1. \A e \in BlockDevs : e # d => db'[e] = db[e] BY <1>1, <1>2
  <2>2. verdict[d].says = "none" BY <1>1 DEF NoAnswer
  <2> QED BY <1>1, <2>1, <2>2 DEF ClaimInv, VerdictSound
<1>9. Answering'
  <2>1. \A e \in BlockDevs : e # d => uevs'[e] = uevs[e] BY <1>1, <1>2
  <2>2. verdict[d].says = "none" BY <1>1 DEF NoAnswer
  <2> QED BY <1>1, <2>1, <2>2 DEF ClaimInv, Answering
<1>10. InUseNotHidden'
  <2>1. \A e \in BlockDevs : e # d => db'[e] = db[e] BY <1>1, <1>2
  <2> QED BY <1>1, <1>3, <2>1 DEF ClaimInv, UsedKnown, InUseNotHidden
<1> QED BY <1>5, <1>6, <1>7, <1>8, <1>9, <1>10 DEF ClaimInv

\* is_path_valid() is only certain about paths of maps and of the WWIDs file.
LEMMA ValidIs ==
  ASSUME ClaimInv, NEW d \in BlockDevs
  PROVE  /\ is_path_valid(d) \in {"valid_no_check", "valid", "maybe", "not_valid"}
         /\ is_path_valid(d) = "valid_no_check" => Lun[d] \in remembered
<1>1. Lun[d] \in ClaimWwids BY DEF ClaimWwids
<1>2. sysfs_is_multipathed(d) \/ Lun[d] \in wwids_file => Lun[d] \in remembered
  BY <1>1 DEF sysfs_is_multipathed, ClaimInv, Remembers
<1>3. is_path_valid(d) \in {"valid_no_check", "valid", "maybe", "not_valid"}
  BY DEF is_path_valid
<1>4. is_path_valid(d) = "valid_no_check" => sysfs_is_multipathed(d) \/ Lun[d] \in wwids_file
  BY DEF is_path_valid
<1> QED BY <1>2, <1>3, <1>4

\* A path that was released stays so unless it is certainly one.
LEMMA CheckIs ==
  ASSUME NEW d \in BlockDevs, NEW a \in {"valid_no_check", "valid", "maybe", "not_valid"}
  PROVE  /\ check_path_valid(d, a) \in {"valid", "maybe", "not_valid"}
         /\ check_path_valid(d, a) # "not_valid" => a = "valid_no_check" \/ db[d].path # "0"
<1>1. check_path_valid(d, a) \in {"valid", "maybe", "not_valid"}
  BY DEF check_path_valid
<1>2. ASSUME a # "valid_no_check", db[d].path = "0" PROVE check_path_valid(d, a) = "not_valid"
  BY <1>2 DEF check_path_valid, released_to_systemd
<1> QED BY <1>1, <1>2

\* An answer is prepared for a device.
LEMMA AnswerStep ==
  ASSUME ClaimInv, NEW d \in BlockDevs, NEW v \in Answers, verdict' = [verdict EXCEPT ![d] = v],
         v.says = "valid_no_check" => Lun[d] \in remembered,
         v.says \in {"1", "2"} => db[d].path # "0" \/ Lun[d] \in remembered,
         uevs[d] # <<>>, UNCHANGED <<present, used, maps, wwids_file, remembered, db, uevs>>
  PROVE  ClaimInv'
<1>1. verdict \in [BlockDevs -> Answers] BY DEF ClaimInv, ClaimTypeOK
<1>2. ClaimTypeOK' BY <1>1 DEF ClaimInv, ClaimTypeOK
<1>3. UsedKnown' /\ Remembers' /\ InUseNotHidden'
  BY DEF ClaimInv, UsedKnown, NoRemove, Remembers, InUseNotHidden
<1>4. VerdictSound'
  <2>1. verdict'[d] = v /\ \A e \in BlockDevs : e # d => verdict'[e] = verdict[e] BY <1>1
  <2> QED BY <2>1 DEF ClaimInv, VerdictSound
<1>5. Answering'
  <2>1. verdict'[d] = v /\ \A e \in BlockDevs : e # d => verdict'[e] = verdict[e] BY <1>1
  <2> QED BY <2>1 DEF ClaimInv, Answering
<1> QED BY <1>2, <1>3, <1>4, <1>5 DEF ClaimInv

\* Both halves of multipath -u.
LEMMA MultipathUStep ==
  ASSUME ClaimInv, NEW d \in BlockDevs, UeventStart(d) \/ UeventCheck(d)
  PROVE  ClaimInv'
<1>1. verdict[d] \in Answers BY DEF ClaimInv, ClaimTypeOK
<1>2. CASE UeventStart(d)
  <2> DEFINE v == [verdict[d] EXCEPT !.says = is_path_valid(d)]
  <2>1. /\ verdict' = [verdict EXCEPT ![d] = v]
        /\ UNCHANGED <<present, used, maps, wwids_file, remembered, db, uevs>>
        /\ uevs[d] # <<>>
    BY <1>2 DEF UeventStart
  <2>2. v \in Answers /\ v.says = is_path_valid(d) BY <1>1, ValidIs DEF Answers
  <2> HIDE DEF v
  <2> QED BY <2>1, <2>2, ValidIs, AnswerStep
<1>3. CASE UeventCheck(d)
  <2> DEFINE a == verdict[d].says
             r == check_path_valid(d, a)
             two == r = "valid" /\ a = "maybe" /\ d \notin used /\ ~sysfs_is_multipathed(d)
             wait == r = "maybe" /\ Waiting(d, FindTimeout)
             v == [says  |-> IF wait THEN "2" ELSE IF r = "valid" THEN "1" ELSE "0",
                   until |-> IF wait \/ (two /\ wait_file[d] > 0) THEN "wait"
                             ELSE IF r = "maybe" \/ (two /\ wait_file[d] = 0) THEN "0" ELSE "same"]
  <2>1. /\ a \in {"valid_no_check", "valid", "maybe", "not_valid"}
        /\ verdict' = [verdict EXCEPT ![d] = v]
        /\ UNCHANGED <<present, used, maps, wwids_file, remembered, db, uevs>>
    BY <1>3 DEF UeventCheck
  <2> HIDE DEF a
  <2>2. r # "not_valid" => a = "valid_no_check" \/ db[d].path # "0" BY <2>1, CheckIs
  <2> HIDE DEF r, two
  <2>3. /\ v \in Answers /\ v.says \in {"0", "1", "2"}
        /\ v.says \in {"1", "2"} => r # "not_valid"
    BY DEF Answers
  <2>4. a = "valid_no_check" => Lun[d] \in remembered BY DEF a, ClaimInv, VerdictSound
  <2> HIDE DEF v
  <2>5. uevs[d] # <<>>
    <3>1. verdict[d].says # "none" BY <2>1 DEF a
    <3> QED BY <3>1 DEF ClaimInv, Answering
  <2> QED BY <2>1, <2>2, <2>3, <2>4, <2>5, AnswerStep
<1> QED BY <1>2, <1>3

\* The rules store what multipath -u has said.
LEMMA EndStep == ASSUME ClaimInv, NEW d \in BlockDevs, UeventEnd(d) PROVE ClaimInv'
<1> DEFINE says == verdict[d].says
           maybe == says = "2"
           until == IF verdict[d].until = "same" THEN db[d].until ELSE verdict[d].until
           stop == ~maybe /\ until = "wait" /\ ~db[d].cancelled
           x == [path |-> IF maybe THEN "1" ELSE says, until |-> until,
                 cancelled |-> ~maybe /\ (stop \/ db[d].cancelled)]
<1>1. /\ db \in [BlockDevs -> Props] /\ verdict \in [BlockDevs -> Answers]
      /\ uevs \in [BlockDevs -> Seq(Kinds)]
  BY DEF ClaimInv, ClaimTypeOK
<1>2. /\ says \in {"0", "1", "2"} /\ db' = [db EXCEPT ![d] = x]
      /\ verdict' = [verdict EXCEPT ![d] = NoAnswer] /\ uevs' = [uevs EXCEPT ![d] = Tail(@)]
      /\ UNCHANGED <<present, used, maps, wwids_file, remembered>>
  BY DEF UeventEnd
<1>3. x \in Props /\ x.path # "none" /\ (x.path = "1" => says \in {"1", "2"})
  <2>1. until \in {"none", "same", "0", "wait"}
    <3>1. db[d] \in Props /\ verdict[d] \in Answers BY <1>1
    <3> QED BY <3>1 DEF Props, Answers
  <2> HIDE DEF says, until, stop
  <2> QED BY <1>2, <2>1 DEF Props
<1>4. /\ uevs' \in [BlockDevs -> Seq(Kinds)]
      /\ \A e \in BlockDevs : NoRemove(uevs, e) => NoRemove(uevs', e)
  <2>1. uevs[d] # <<>> BY <1>2 DEF ClaimInv, Answering
  <2> QED BY <1>1, <1>2, <2>1, TailIs
<1>5. says \in {"1", "2"} => db[d].path # "0" \/ Lun[d] \in remembered
  BY DEF ClaimInv, VerdictSound
<1> HIDE DEF x, says
<1>6. db'[d] = x /\ \A e \in BlockDevs : e # d => db'[e] = db[e]
  BY <1>1, <1>2
<1>7. NoAnswer \in Answers /\ NoAnswer.says = "none" BY DEF NoAnswer, Answers
<1>8. ClaimTypeOK' BY <1>1, <1>2, <1>3, <1>4, <1>7 DEF ClaimInv, ClaimTypeOK
<1>9. UsedKnown' BY <1>2, <1>3, <1>4, <1>6 DEF ClaimInv, UsedKnown, NoRemove
<1>10. Remembers' BY <1>2 DEF ClaimInv, Remembers
<1>11. VerdictSound'
  <2>1. verdict'[d].says = "none" /\ \A e \in BlockDevs : e # d => verdict'[e] = verdict[e]
    BY <1>1, <1>2, <1>7
  <2> QED BY <1>2, <1>6, <2>1 DEF ClaimInv, VerdictSound
<1>12. Answering'
  <2>1. \A e \in BlockDevs : e # d => verdict'[e] = verdict[e] /\ uevs'[e] = uevs[e]
    BY <1>1, <1>2
  <2>2. verdict'[d].says = "none" BY <1>1, <1>2, <1>7
  <2> QED BY <2>1, <2>2 DEF ClaimInv, Answering
<1>13. InUseNotHidden'
  <2>1. ASSUME d \in used, x.path = "1" PROVE Lun[d] \in remembered
    <3>1. db[d].path \in {"none", "0", "1"} BY <1>1 DEF Props
    <3>2. db[d].path # "none" BY <2>1 DEF ClaimInv, UsedKnown
    <3>3. db[d].path # "0" \/ Lun[d] \in remembered BY <1>3, <1>5, <2>1
    <3> QED BY <2>1, <3>1, <3>2, <3>3 DEF ClaimInv, InUseNotHidden
  <2> QED BY <1>2, <1>6, <2>1 DEF ClaimInv, UsedKnown, InUseNotHidden
<1> QED BY <1>8, <1>9, <1>10, <1>11, <1>12, <1>13 DEF ClaimInv

\* Devices come, go and are mounted.
LEMMA SystemStep ==
  ASSUME ClaimInv, NEW d \in BlockDevs, Appears(d) \/ Disappears(d) \/ Mount(d)
  PROVE  ClaimInv'
<1>1. /\ uevs \in [BlockDevs -> Seq(Kinds)]
      /\ UNCHANGED <<maps, wwids_file, remembered, db, verdict>>
  BY DEF ClaimInv, ClaimTypeOK, Appears, Disappears, Mount
<1>2. "remove" \in Kinds /\ "add" \in Kinds /\ "add" # "remove" BY DEF Kinds
<1>3. Remembers' /\ VerdictSound' BY <1>1 DEF ClaimInv, Remembers, VerdictSound
<1>4. ASSUME uevs' \in [BlockDevs -> Seq(Kinds)], UsedKnown',
             \A e \in BlockDevs : uevs[e] # <<>> => uevs'[e] # <<>>,
             \A e \in used' : e \in used \/ db[e].path # "1"
      PROVE  ClaimInv'
  <2>1. ClaimTypeOK' BY <1>1, <1>4 DEF ClaimInv, ClaimTypeOK
  <2>2. InUseNotHidden' BY <1>1, <1>4 DEF ClaimInv, InUseNotHidden
  <2>3. Answering' BY <1>1, <1>4 DEF ClaimInv, Answering
  <2> QED BY <1>3, <1>4, <2>1, <2>2, <2>3 DEF ClaimInv
<1>5. CASE Appears(d)
  <2>1. /\ uevs[d] = <<>> /\ present' = present \cup {d} /\ used' = used
        /\ uevs' = Queue(uevs, {d}, "add")
    BY <1>5 DEF Appears
  <2>2. NoRemove(uevs, d) BY <1>1, <2>1 DEF NoRemove
  <2>3. /\ uevs' \in [BlockDevs -> Seq(Kinds)]
        /\ \A e \in BlockDevs : NoRemove(uevs, e) => NoRemove(uevs', e)
        /\ \A e \in BlockDevs : uevs[e] # <<>> => uevs'[e] # <<>>
    BY <1>1, <1>2, <2>1, QueueIs
  <2>4. UsedKnown' BY <1>1, <2>1, <2>2, <2>3 DEF ClaimInv, UsedKnown, NoRemove
  <2> QED BY <1>4, <2>1, <2>3, <2>4
<1>6. CASE Disappears(d)
  <2>1. /\ present' = present \ {d} /\ used' = used \ {d}
        /\ uevs' = Queue(uevs, {d}, "remove")
    BY <1>6 DEF Disappears
  <2>2. /\ uevs' \in [BlockDevs -> Seq(Kinds)]
        /\ \A e \in BlockDevs : NoRemove(uevs, e) /\ e \notin {d} => NoRemove(uevs', e)
        /\ \A e \in BlockDevs : uevs[e] # <<>> => uevs'[e] # <<>>
    BY <1>1, <1>2, <2>1, QueueIs
  <2>3. UsedKnown' BY <1>1, <2>1, <2>2 DEF ClaimInv, UsedKnown, NoRemove
  <2> QED BY <1>4, <2>1, <2>2, <2>3
<1>7. CASE Mount(d)
  <2>1. /\ d \in present /\ db[d].path = "0" /\ used' = used \cup {d}
        /\ uevs' = uevs /\ present' = present
    BY <1>7 DEF Mount
  <2>2. UsedKnown' BY <1>1, <2>1 DEF ClaimInv, UsedKnown, NoRemove
  <2> QED BY <1>1, <1>4, <2>1, <2>2
<1> QED BY <1>5, <1>6, <1>7

\* Every step keeps the invariant.
LEMMA ClaimInvariant == ClaimSpec => []ClaimInv
<1>1. ASSUME ClaimInv, [ClaimNext]_claim_vars PROVE ClaimInv'
  <2>1. CASE UNCHANGED claim_vars
    <3>1. MapsChanged
      BY <1>1, <2>1 DEF claim_vars, MapsChanged, ClaimInv, ClaimTypeOK, Remembers, NoRemove
    <3> QED BY <1>1, <3>1, MapsChangedKeeps
  <2>2. ASSUME NEW d \in BlockDevs, Udev(d) PROVE ClaimInv'
    BY <1>1, <2>2, RemoveStep, MultipathUStep, EndStep DEF Udev
  <2>3. ASSUME NEW d \in BlockDevs, uev_trigger(d) PROVE ClaimInv'
    BY <1>1, <2>3, TriggerStep
  <2>4. CASE MultipathdStarts BY <1>1, <2>4, StartsStep
  <2>5. ASSUME NEW w \in ClaimWwids, CreateMaps(w) PROVE ClaimInv'
    <3> DEFINE ds == {d \in present : db[d] # NoProps /\ Lun[d] = w}
    <3>1. domap_create(w, ds, db) /\ UNCHANGED <<present, used, db, verdict>>
      BY <2>5 DEF CreateMaps, CommandKeeps
    <3>2. ds \in SUBSET BlockDevs BY <1>1 DEF ClaimInv, UsedKnown
    <3> HIDE DEF ds
    <3> QED BY <1>1, <3>1, <3>2, CreateStep
  <2>6. ASSUME NEW d \in BlockDevs, Appears(d) \/ Disappears(d) \/ Mount(d) PROVE ClaimInv'
    BY <1>1, <2>6, SystemStep
  <2>7. CASE \/ MultipathdStops \/ TimePasses \/ replace_wwids
             \/ \E w \in ClaimWwids : FlushMap(w) \/ remember_wwid(w) \/ remove_wwid(w)
             \/ \E d \in BlockDevs : TimerFires(d) \/ Change(d)
    BY <1>1, <2>7, OtherStep
  <2> QED BY <1>1, <2>1, <2>2, <2>3, <2>4, <2>5, <2>6, <2>7 DEF ClaimNext
<1> QED BY <1>1, ClaimInitInv, PTL DEF ClaimSpec

\* For any devices, setting and order of uevents, commands and mounts: a device
\* that was released to systemd and is in use is taken away again only if its
\* WWID has been in the WWIDs file.
THEOREM InUseNotHiddenTheorem == ClaimSpec => []InUseNotHidden
<1>1. ClaimInv => InUseNotHidden BY DEF ClaimInv
<1> QED BY <1>1, ClaimInvariant, PTL

(***************************************************************************)
(* UxSocket: least elements                                                *)
(***************************************************************************)
\* A set of natural numbers has a least element.
LEMMA LeastNat ==
  ASSUME NEW T, T \subseteq Nat, T # {}
  PROVE  \E x \in T : \A y \in T : x <= y
<1> DEFINE R == OpToRel(<, Nat)
<1>1. IsWellFoundedOn(R, Nat) BY NatLessThanWellFounded
<1>2. \A x, y \in Nat : x < y => <<x, y>> \in R BY DEF OpToRel
<1> HIDE DEF R
<1>3. PICK x \in T : \A y \in T : ~(<<y, x>> \in R) BY <1>1, WFMin
<1>4. ASSUME NEW y \in T PROVE x <= y
  <2>1. x \in Nat /\ y \in Nat OBVIOUS
  <2>2. ~(<<y, x>> \in R) BY <1>3
  <2>3. ~(y < x) BY <1>2, <2>1, <2>2
  <2> QED BY <2>1, <2>3
<1> QED BY <1>4

(***************************************************************************)
(* UxSocket: replies that grow                                             *)
(***************************************************************************)
\* What reply[m] of show_reply(n) computes.
ShowStep(f, n, m) ==
  IF n < m - 1 THEN n + 1 ELSE IF m >= MaxReplyLen THEN 0 ELSE f[2 * m]

\* The text fits into one of the buffers that doubling leads to.
Doubled(S, n) == \A x \in S : n >= x - 1 /\ x < MaxReplyLen => 2 * x \in S
Fits(n, m) == \A S \in SUBSET Nat : m \in S /\ Doubled(S, n) => \E x \in S : n < x - 1

LEMMA FitsStep ==
  ASSUME NEW n \in Nat, NEW m \in Nat
  PROVE  /\ n < m - 1 => Fits(n, m)
         /\ n >= m - 1 /\ m >= MaxReplyLen => ~Fits(n, m)
         /\ n >= m - 1 /\ m < MaxReplyLen => (Fits(n, m) <=> Fits(n, 2 * m))
<1>0. MaxReplyLen \in Nat BY UxConstants
<1>1. ASSUME n < m - 1 PROVE Fits(n, m) BY <1>1 DEF Fits
<1>2. ASSUME n >= m - 1, m >= MaxReplyLen PROVE ~Fits(n, m)
  <2>1. {m} \in SUBSET Nat /\ m \in {m} OBVIOUS
  <2>2. Doubled({m}, n) BY <1>0, <1>2 DEF Doubled
  <2>3. ~ \E x \in {m} : n < x - 1 BY <1>2
  <2> QED BY <2>1, <2>2, <2>3 DEF Fits
<1>3. ASSUME n >= m - 1, m < MaxReplyLen, Fits(n, 2 * m) PROVE Fits(n, m)
  <2> SUFFICES ASSUME NEW S \in SUBSET Nat, m \in S, Doubled(S, n)
               PROVE  \E x \in S : n < x - 1
    BY DEF Fits
  <2>1. 2 * m \in S BY <1>3 DEF Doubled
  <2> QED BY <1>3, <2>1 DEF Fits
<1>4. ASSUME n >= m - 1, m < MaxReplyLen, Fits(n, m) PROVE Fits(n, 2 * m)
  <2> SUFFICES ASSUME NEW S \in SUBSET Nat, 2 * m \in S, Doubled(S, n)
               PROVE  \E x \in S : n < x - 1
    BY DEF Fits
  <2>1. S \cup {m} \in SUBSET Nat /\ m \in S \cup {m} OBVIOUS
  <2>2. Doubled(S \cup {m}, n) BY DEF Doubled
  <2>3. PICK x \in S \cup {m} : n < x - 1 BY <1>4, <2>1, <2>2 DEF Fits
  <2>4. x # m BY <1>4, <2>3
  <2> QED BY <2>3, <2>4
<1> QED BY <1>1, <1>2, <1>3, <1>4

LEMMA ShowExists ==
  ASSUME NEW n \in Nat
  PROVE  \E f : f = [m \in Nat |-> ShowStep(f, n, m)]
<1> DEFINE f == [m \in Nat |-> IF Fits(n, m) THEN n + 1 ELSE 0]
<1>0. MaxReplyLen \in Nat BY UxConstants
<1>1. ASSUME NEW m \in Nat
      PROVE  (IF Fits(n, m) THEN n + 1 ELSE 0) = ShowStep(f, n, m)
  <2>1. PICK k \in Nat : k = 2 * m OBVIOUS
  <2>2. f[k] = IF Fits(n, k) THEN n + 1 ELSE 0 OBVIOUS
  <2> HIDE DEF f
  <2>3. ShowStep(f, n, m) =
          IF n < m - 1 THEN n + 1 ELSE IF m >= MaxReplyLen THEN 0 ELSE f[k]
    BY <2>1 DEF ShowStep
  <2>4. n >= m - 1 /\ m < MaxReplyLen => (Fits(n, m) <=> Fits(n, k)) BY <2>1, FitsStep
  <2>5. CASE n < m - 1 BY <2>3, <2>5, FitsStep
  <2>6. CASE n >= m - 1 /\ m >= MaxReplyLen
    <3>1. ~(n < m - 1) BY <2>6
    <3>2. ~Fits(n, m) BY <2>6, FitsStep
    <3> QED BY <2>3, <2>6, <3>1, <3>2
  <2>7. CASE n >= m - 1 /\ m < MaxReplyLen
    <3>1. ~(n < m - 1) /\ ~(m >= MaxReplyLen) BY <1>0, <2>7
    <3> QED BY <2>2, <2>3, <2>4, <2>7, <3>1
  <2> QED BY <1>0, <2>5, <2>6, <2>7
<1>2. f = [m \in Nat |-> ShowStep(f, n, m)] BY <1>1
<1> QED BY <1>2

\* A reply is the whole text, or none.
LEMMA ShowIs ==
  ASSUME NEW n \in Nat
  PROVE  show_reply(n) \in {0, n + 1}
<1>0. MaxReplyLen \in Nat /\ InitialReplyLen \in Nat \ {0} BY UxConstants
<1> DEFINE F(g) == g = [m \in Nat |-> ShowStep(g, n, m)]
           reply == CHOOSE g : F(g)
<1>1. show_reply(n) = reply[InitialReplyLen] BY DEF show_reply, ShowStep
<1>2. F(reply)
  <2>1. \E g : F(g) BY ShowExists
  <2> HIDE DEF F
  <2> QED BY <2>1
<1> HIDE DEF reply
<1>3. \A m \in Nat : reply[m] = ShowStep(reply, n, m) BY <1>2
<1> HIDE DEF F
<1> DEFINE Wrong(m) == reply[m] \notin {0, n + 1}
           T == {k \in Nat : \E m \in Nat \ {0} : m < MaxReplyLen /\ k = MaxReplyLen - m /\ Wrong(m)}
<1>4. ASSUME NEW m \in Nat \ {0}, m >= MaxReplyLen PROVE ~Wrong(m)
  BY <1>0, <1>3, <1>4 DEF ShowStep
<1>5. ASSUME NEW m \in Nat \ {0}, m < MaxReplyLen, Wrong(m), NEW k \in Nat, k = 2 * m
      PROVE  Wrong(k)
  <2>1. reply[m] = IF n < m - 1 THEN n + 1 ELSE IF m >= MaxReplyLen THEN 0 ELSE reply[k]
    BY <1>3, <1>5 DEF ShowStep
  <2>2. ~(m >= MaxReplyLen) BY <1>0, <1>5
  <2> QED BY <1>5, <2>1, <2>2
<1> HIDE DEF Wrong
<1>6. T = {}
  <2> SUFFICES ASSUME T # {} PROVE FALSE OBVIOUS
  <2>1. PICK k \in T : \A j \in T : k <= j
    <3>1. T \subseteq Nat OBVIOUS
    <3> HIDE DEF T
    <3> QED BY <3>1, LeastNat
  <2>2. PICK m \in Nat \ {0} : m < MaxReplyLen /\ k = MaxReplyLen - m /\ Wrong(m) OBVIOUS
  <2>3. PICK d \in Nat \ {0} : d = 2 * m BY <2>2
  <2>4. Wrong(d) BY <1>5, <2>2, <2>3
  <2>5. d < MaxReplyLen BY <1>0, <1>4, <2>3, <2>4
  <2>6. PICK j \in Nat : j = MaxReplyLen - d BY <1>0, <2>3, <2>5
  <2>7. j \in T BY <2>3, <2>4, <2>5, <2>6
  <2>8. j < k BY <1>0, <2>2, <2>3, <2>6
  <2>9. k <= j BY <2>1, <2>7
  <2> QED BY <1>0, <2>2, <2>6, <2>8, <2>9
<1>7. ASSUME NEW m \in Nat \ {0}, Wrong(m) PROVE FALSE
  <2>1. m < MaxReplyLen BY <1>0, <1>4, <1>7
  <2>2. PICK k \in Nat : k = MaxReplyLen - m BY <1>0, <2>1
  <2>3. k \in T BY <1>7, <2>1, <2>2
  <2> QED BY <1>6, <2>3
<1>8. ~Wrong(InitialReplyLen) BY <1>0, <1>7
<1> QED BY <1>1, <1>8 DEF Wrong

(***************************************************************************)
(* UxSocket: the inductive invariant                                       *)
(***************************************************************************)
\* What a connection holds while its client is at a place: a request is on its
\* way or answered, never both, and the answer is to the client's command.
Conversation(cl, in, out) ==
  \/ cl.pc = "open" /\ in = <<>> /\ out = <<>>
  \/ cl.pc = "half" /\ in = <<cl.cmd.len>> /\ out = <<>>
  \/ cl.pc = "wait" /\ in = <<cl.cmd.len, cl.cmd>> /\ out = <<>>
  \/ cl.pc = "wait" /\ in = <<>> /\ \E root, got \in BOOLEAN : out = <<Replies[cl.cmd][root][got]>>

UxTypeOK ==
  /\ ux_cl = [c \in UxClients |-> [pc |-> ux_cl[c].pc, cmd |-> ux_cl[c].cmd]]
  /\ \A c \in UxClients : ux_cl[c].pc \in {"half", "wait"} => ux_cl[c].cmd \in Commands
  /\ ux_fd \in [UxClients -> Fds \cup {0}]
  /\ ux_list \in Seq(Fds)
  /\ DOMAIN ux_in = Fds /\ DOMAIN ux_out = Fds

\* The listener has the file descriptor on its list.
Known(f) == \E i \in 1..Len(ux_list) : ux_list[i] = f
Connections ==
  \A c \in UxClients : ux_fd[c] # 0 =>
    /\ Known(ux_fd[c])
    /\ \A d \in UxClients : ux_fd[d] = ux_fd[c] => d = c
    /\ Conversation(ux_cl[c], ux_in[ux_fd[c]], ux_out[ux_fd[c]])

\* The listener receives from a client on its list.
Served == ux_pc = "recv" => Known(Head(ux_polls))

UxInv == UxTypeOK /\ Connections /\ Served

LEMMA UxFacts ==
  /\ Cardinality(UxClients) \in Nat
  /\ Fds \subseteq Nat \ {0}
<1>1. Cardinality(UxClients) \in Nat BY UxConstants, FS_CardinalityType
<1> QED BY <1>1 DEF Fds

LEMMA ReplyIs ==
  ASSUME NEW cmd \in Commands, NEW root \in BOOLEAN, NEW got \in BOOLEAN
  PROVE  /\ Replies[cmd][root][got].cmd = cmd
         /\ Replies[cmd][root][got].text = "shown" => Replies[cmd][root][got].len = cmd.show + 1
<1> DEFINE r == uxsock_trigger(cmd, root, got)
<1>1. Replies[cmd][root][got] = r BY DEF Replies
<1>2. cmd.show \in Nat BY UxConstants
<1>3. show_reply(cmd.show) \in {0, cmd.show + 1} BY <1>2, ShowIs
<1>4. \/ r \in {Reply(cmd, "permission deny", 2), Reply(cmd, "help", 2), Reply(cmd, "timeout", 1),
                Reply(cmd, "ok", 1), Reply(cmd, "fail", 1)}
      \/ show_reply(cmd.show) # 0 /\ r = Reply(cmd, "shown", show_reply(cmd.show))
  BY DEF uxsock_trigger, genhelp_handler
<1>5. r.cmd = cmd /\ (r.text = "shown" => r.len = cmd.show + 1)
  <2> HIDE DEF r
  <2>1. ASSUME NEW text, NEW len PROVE /\ Reply(cmd, text, len).cmd = cmd
                                       /\ Reply(cmd, text, len).text = text
                                       /\ Reply(cmd, text, len).len = len
    BY DEF Reply
  <2>2. CASE r \in {Reply(cmd, "permission deny", 2), Reply(cmd, "help", 2),
                    Reply(cmd, "timeout", 1), Reply(cmd, "ok", 1), Reply(cmd, "fail", 1)}
    <3> DEFINE T == {"permission deny", "help", "timeout", "ok", "fail"}
    <3>1. \E text \in T, len \in {1, 2} : r = Reply(cmd, text, len) BY <2>2, Zenon
    <3>2. "shown" \notin T OBVIOUS
    <3> HIDE DEF T
    <3>3. PICK text \in T, len \in {1, 2} : r = Reply(cmd, text, len) BY <3>1
    <3>4. r.cmd = cmd /\ r.text = text BY <3>3 DEF Reply
    <3> QED BY <3>2, <3>4
  <2>3. CASE show_reply(cmd.show) # 0 /\ r = Reply(cmd, "shown", show_reply(cmd.show))
    BY <1>2, <1>3, <2>1, <2>3
  <2> QED BY <1>4, <2>2, <2>3
<1> QED BY <1>1, <1>5

LEMMA UxInvMatch == UxInv => RepliesMatch
<1> SUFFICES ASSUME UxInv, NEW c \in UxClients, ux_cl[c].pc = "wait", ux_fd[c] # 0,
                    ux_out[ux_fd[c]] # <<>>
             PROVE  LET r == Head(ux_out[ux_fd[c]])
                    IN  /\ r.cmd = ux_cl[c].cmd
                        /\ r.text = "shown" => r.len = r.cmd.show + 1
  BY DEF RepliesMatch
<1>1. ux_cl[c].cmd \in Commands BY DEF UxInv, UxTypeOK
<1>2. PICK root, got \in BOOLEAN : ux_out[ux_fd[c]] = <<Replies[ux_cl[c].cmd][root][got]>>
  BY DEF UxInv, Connections, Conversation
<1> DEFINE r == Replies[ux_cl[c].cmd][root][got]
<1>3. Head(ux_out[ux_fd[c]]) = r
  <2>1. ASSUME NEW x PROVE Head(<<x>>) = x OBVIOUS
  <2> QED BY <1>2, <2>1, Zenon
<1>4. r.cmd = ux_cl[c].cmd /\ (r.text = "shown" => r.len = ux_cl[c].cmd.show + 1)
  BY <1>1, ReplyIs
<1> HIDE DEF r
<1> QED BY <1>3, <1>4

LEMMA UxInitInv == SocketInit => UxInv
<1> SUFFICES ASSUME SocketInit PROVE UxInv OBVIOUS
<1>1. UxTypeOK BY DEF SocketInit, UxTypeOK, Off
<1>2. Connections BY DEF SocketInit, Connections
<1>3. Served BY DEF SocketInit, Served
<1> QED BY <1>1, <1>2, <1>3 DEF UxInv

(***************************************************************************)
(* UxSocket: the steps                                                     *)
(***************************************************************************)
\* A step that leaves a client's connection alone leaves what it holds.
SameConnection(c) ==
  /\ ux_fd'[c] = ux_fd[c] /\ ux_cl'[c] = ux_cl[c]
  /\ ux_in'[ux_fd[c]] = ux_in[ux_fd[c]] /\ ux_out'[ux_fd[c]] = ux_out[ux_fd[c]]

\* Deleting one element of a sequence keeps the others.
LEMMA RemoveIs ==
  ASSUME NEW S, NEW s \in Seq(S), NEW i \in 1..Len(s)
  PROVE  /\ RemoveAt(s, i) \in Seq(S)
         /\ \A j \in 1..Len(s) : j # i =>
              \E k \in 1..Len(RemoveAt(s, i)) : RemoveAt(s, i)[k] = s[j]
<1> DEFINE a == SubSeq(s, 1, i - 1)
           b == SubSeq(s, i + 1, Len(s))
<1>1. /\ a \in Seq(S) /\ Len(a) = i - 1
      /\ \A j \in 1..(i - 1) : a[j] = s[j]
  OBVIOUS
<1>2. /\ b \in Seq(S) /\ Len(b) = Len(s) - i
      /\ \A j \in 1..(Len(s) - i) : b[j] = s[i + j]
  OBVIOUS
<1>3. RemoveAt(s, i) = a \o b BY DEF RemoveAt
<1> HIDE DEF a, b
<1>4. /\ a \o b \in Seq(S) /\ Len(a \o b) = Len(s) - 1
      /\ \A j \in 1..(Len(s) - 1) : (a \o b)[j] = IF j <= i - 1 THEN a[j] ELSE b[j - (i - 1)]
  <2>1. Len(s) \in Nat /\ i \in Int OBVIOUS
  <2>2. /\ a \o b \in Seq(S) /\ Len(a \o b) = Len(a) + Len(b)
        /\ \A j \in 1..(Len(a) + Len(b)) : (a \o b)[j] = IF j <= Len(a) THEN a[j] ELSE b[j - Len(a)]
    BY <1>1, <1>2, ConcatProperties, Zenon
  <2>3. Len(a) + Len(b) = Len(s) - 1 BY <1>1, <1>2, <2>1
  <2> QED BY <1>1, <2>2, <2>3, Zenon
<1>5. ASSUME NEW j \in 1..Len(s), j # i
      PROVE  \E k \in 1..(Len(s) - 1) : (a \o b)[k] = s[j]
  <2>1. CASE j < i
    <3>1. j \in 1..(i - 1) /\ j \in 1..(Len(s) - 1) /\ j <= i - 1 BY <2>1
    <3>2. (a \o b)[j] = s[j] BY <1>1, <1>4, <3>1
    <3> QED BY <3>1, <3>2
  <2>2. CASE j > i
    <3>1. /\ j - 1 \in 1..(Len(s) - 1) /\ ~(j - 1 <= i - 1) /\ (j - 1) - (i - 1) = j - i
          /\ j - i \in 1..(Len(s) - i) /\ i + (j - i) = j
      BY <2>2
    <3>2. (a \o b)[j - 1] = b[j - i] BY <1>4, <3>1
    <3>3. b[j - i] = s[j] BY <1>2, <3>1
    <3> QED BY <3>1, <3>2, <3>3
  <2>3. j \in Int /\ i \in Int OBVIOUS
  <2>4. j < i \/ j > i BY <1>5, <2>3
  <2> QED BY <2>1, <2>2, <2>4, Zenon
<1> QED BY <1>3, <1>4, <1>5

LEMMA DeadClientStep ==
  ASSUME UxInv, NEW f, Known(f), dead_client(f), UNCHANGED <<ux_cl, ux_out>>
  PROVE  UxTypeOK' /\ Connections'
<1>1. ux_list \in Seq(Fds) BY DEF UxInv, UxTypeOK
<1> DEFINE i == CHOOSE i \in DOMAIN ux_list : ux_list[i] = f
<1>2. i \in 1..Len(ux_list) /\ ux_list[i] = f
  <2>1. DOMAIN ux_list = 1..Len(ux_list) BY <1>1
  <2>2. \E k \in DOMAIN ux_list : ux_list[k] = f BY <2>1 DEF Known
  <2> QED BY <2>1, <2>2
<1>3. ux_list' = RemoveAt(ux_list, i) BY DEF dead_client
<1> HIDE DEF i
<1>4. f \in Fds BY <1>1, <1>2
<1>5. ux_list' \in Seq(Fds) BY <1>1, <1>2, <1>3, RemoveIs
<1>6. ASSUME NEW g, Known(g), g # f PROVE Known(g)'
  <2>1. PICK j \in 1..Len(ux_list) : ux_list[j] = g BY <1>6 DEF Known
  <2>2. j # i BY <1>2, <1>6, <2>1
  <2>3. \E k \in 1..Len(RemoveAt(ux_list, i)) : RemoveAt(ux_list, i)[k] = ux_list[j]
    BY <1>1, <1>2, <2>1, <2>2, RemoveIs
  <2> QED BY <1>3, <2>1, <2>3 DEF Known
<1>7. UxTypeOK' BY <1>5 DEF UxInv, UxTypeOK, dead_client, Fds
<1>8. ASSUME NEW c \in UxClients, ux_fd'[c] # 0
      PROVE  ux_fd[c] # f /\ ux_fd[c] # 0 /\ SameConnection(c)
  BY <1>8 DEF UxInv, UxTypeOK, dead_client, SameConnection
<1>9. Connections'
  <2> SUFFICES ASSUME NEW c \in UxClients, ux_fd'[c] # 0
               PROVE  /\ Known(ux_fd[c])'
                      /\ \A d \in UxClients : ux_fd'[d] = ux_fd'[c] => d = c
                      /\ Conversation(ux_cl[c], ux_in[ux_fd[c]], ux_out[ux_fd[c]])'
    BY DEF Connections
  <2>1. ux_fd[c] # f /\ ux_fd[c] # 0 /\ SameConnection(c) BY <1>8
  <2>2. /\ Known(ux_fd[c])
        /\ \A d \in UxClients : ux_fd[d] = ux_fd[c] => d = c
        /\ Conversation(ux_cl[c], ux_in[ux_fd[c]], ux_out[ux_fd[c]])
    BY <2>1 DEF UxInv, Connections
  <2>3. \A d \in UxClients : ux_fd'[d] = ux_fd'[c] => d = c
    BY <1>8, <2>1, <2>2 DEF SameConnection
  <2>4. Known(ux_fd[c])' BY <1>6, <2>1, <2>2 DEF SameConnection, Known
  <2>5. Conversation(ux_cl[c], ux_in[ux_fd[c]], ux_out[ux_fd[c]])'
    BY <2>1, <2>2 DEF SameConnection, Conversation
  <2> QED BY <2>3, <2>4, <2>5
<1> QED BY <1>7, <1>9

LEMMA ListRange ==
  ASSUME UxTypeOK
  PROVE  /\ \A f : f \in Range(ux_list) <=> Known(f)
         /\ Range(ux_list) \subseteq Fds
<1>1. ux_list \in Seq(Fds) BY DEF UxTypeOK
<1>2. DOMAIN ux_list = 1..Len(ux_list) BY <1>1
<1>3. \A f : f \in Range(ux_list) <=> Known(f) BY <1>2 DEF Range, Known
<1>4. ASSUME NEW f, Known(f) PROVE f \in Fds BY <1>1, <1>4 DEF Known
<1> QED BY <1>3, <1>4

\* A step of client c, or one that serves it, leaves the others' connections.
LEMMA OneConnection ==
  ASSUME UxInv, NEW c \in UxClients, ux_list' = ux_list,
         \A d \in UxClients : d # c => ux_fd'[d] = ux_fd[d] /\ ux_cl'[d] = ux_cl[d],
         \A f \in Fds : f # ux_fd[c] => ux_in'[f] = ux_in[f] /\ ux_out'[f] = ux_out[f],
         ux_fd'[c] # 0 => /\ ux_fd'[c] = ux_fd[c]
                          /\ Conversation(ux_cl'[c], ux_in'[ux_fd[c]], ux_out'[ux_fd[c]])
  PROVE  Connections'
<1> SUFFICES ASSUME NEW e \in UxClients, ux_fd'[e] # 0
             PROVE  /\ Known(ux_fd[e])'
                    /\ \A d \in UxClients : ux_fd'[d] = ux_fd'[e] => d = e
                    /\ Conversation(ux_cl[e], ux_in[ux_fd[e]], ux_out[ux_fd[e]])'
  BY DEF Connections
<1>1. \A d \in UxClients : ux_fd'[d] # 0 => ux_fd'[d] = ux_fd[d] OBVIOUS
<1>2. /\ Known(ux_fd[e])
      /\ \A d \in UxClients : ux_fd[d] = ux_fd[e] => d = e
      /\ Conversation(ux_cl[e], ux_in[ux_fd[e]], ux_out[ux_fd[e]])
  BY <1>1 DEF UxInv, Connections
<1>3. Known(ux_fd[e])' BY <1>1, <1>2 DEF Known
<1>4. \A d \in UxClients : ux_fd'[d] = ux_fd'[e] => d = e BY <1>1, <1>2
<1>5. Conversation(ux_cl[e], ux_in[ux_fd[e]], ux_out[ux_fd[e]])'
  <2>1. CASE e = c BY <1>1, <2>1
  <2>2. CASE e # c
    <3>1. ux_fd[e] \in Fds /\ ux_fd[e] # ux_fd[c] BY <1>1, <1>2, <2>2 DEF UxInv, UxTypeOK
    <3> QED BY <1>1, <1>2, <2>2, <3>1
  <2> QED BY <2>1, <2>2
<1> QED BY <1>3, <1>4, <1>5

\* Who has no connection has no conversation, and conversely.
LEMMA Connected ==
  ASSUME UxInv, NEW c \in UxClients
  PROVE  /\ ux_fd[c] # 0 => Conversation(ux_cl[c], ux_in[ux_fd[c]], ux_out[ux_fd[c]])
         /\ ux_cl[c].pc \notin {"open", "half", "wait"} => ux_fd[c] = 0
BY DEF UxInv, Connections, Conversation

LEMMA ClientTypes ==
  ASSUME UxInv, NEW c \in UxClients, NEW pc, NEW cmd,
         pc \in {"half", "wait"} => cmd \in Commands, Client(c, pc, cmd),
         ux_fd' \in [UxClients -> Fds \cup {0}], ux_list' = ux_list,
         DOMAIN ux_in' = Fds, DOMAIN ux_out' = Fds
  PROVE  /\ UxTypeOK'
         /\ ux_cl'[c] = [pc |-> pc, cmd |-> cmd]
         /\ \A d \in UxClients : d # c => ux_cl'[d] = ux_cl[d]
<1>1. ux_cl' = [d \in UxClients |-> IF d = c THEN [pc |-> pc, cmd |-> cmd] ELSE ux_cl[d]]
  BY DEF Client, UxInv, UxTypeOK
<1>2. \A d \in UxClients : ux_cl[d] = [pc |-> ux_cl[d].pc, cmd |-> ux_cl[d].cmd]
  BY DEF UxInv, UxTypeOK
<1>3. ASSUME NEW d \in UxClients
      PROVE  /\ ux_cl'[d] = [pc |-> ux_cl'[d].pc, cmd |-> ux_cl'[d].cmd]
             /\ ux_cl'[d].pc \in {"half", "wait"} => ux_cl'[d].cmd \in Commands
  BY <1>1, <1>2 DEF UxInv, UxTypeOK
<1>4. ux_cl' = [d \in UxClients |-> [pc |-> ux_cl'[d].pc, cmd |-> ux_cl'[d].cmd]]
  BY <1>1, <1>3
<1>5. UxTypeOK' BY <1>3, <1>4 DEF UxInv, UxTypeOK, Fds
<1> QED BY <1>1, <1>5

LEMMA MpathConnectStep ==
  ASSUME UxInv, NEW c \in UxClients, mpath_connect(c)
  PROVE  UxInv'
<1>1. Client(c, "connecting", 0) BY DEF mpath_connect
<1>2. UxTypeOK' /\ \A d \in UxClients : d # c => ux_cl'[d] = ux_cl[d]
  BY <1>1, ClientTypes DEF mpath_connect, UxInv, UxTypeOK
<1>3. ux_fd[c] = 0 BY Connected DEF mpath_connect
<1>4. Connections' BY <1>2, <1>3, OneConnection DEF mpath_connect
<1>5. Served' BY DEF UxInv, Served, Known, mpath_connect
<1> QED BY <1>2, <1>4, <1>5 DEF UxInv

LEMMA SendLengthStep ==
  ASSUME UxInv, NEW c \in UxClients, NEW cmd \in Commands, SendLength(c, cmd)
  PROVE  UxInv'
<1>1. Client(c, "half", cmd) BY DEF SendLength
<1>2. /\ UxTypeOK'
      /\ ux_cl'[c] = [pc |-> "half", cmd |-> cmd]
      /\ \A d \in UxClients : d # c => ux_cl'[d] = ux_cl[d]
  BY <1>1, ClientTypes DEF SendLength, UxInv, UxTypeOK
<1>3. ux_fd[c] \in Fds BY DEF SendLength, UxInv, UxTypeOK
<1>4. ux_in[ux_fd[c]] = <<>> /\ ux_out[ux_fd[c]] = <<>>
  BY Connected DEF SendLength, Conversation
<1>5. /\ ux_in'[ux_fd[c]] = <<cmd.len>>
      /\ \A f \in Fds : f # ux_fd[c] => ux_in'[f] = ux_in[f]
  BY <1>3, <1>4 DEF SendLength, UxInv, UxTypeOK
<1>6. Conversation(ux_cl'[c], ux_in'[ux_fd[c]], ux_out'[ux_fd[c]])
  BY <1>2, <1>4, <1>5 DEF SendLength, Conversation
<1>7. Connections' BY <1>2, <1>5, <1>6, OneConnection DEF SendLength
<1>8. Served' BY DEF UxInv, Served, Known, SendLength
<1> QED BY <1>2, <1>7, <1>8 DEF UxInv

LEMMA SendTextStep ==
  ASSUME UxInv, NEW c \in UxClients, SendText(c)
  PROVE  UxInv'
<1> DEFINE cmd == ux_cl[c].cmd
<1>1. Client(c, "wait", cmd) /\ cmd \in Commands BY DEF SendText, UxInv, UxTypeOK
<1> HIDE DEF cmd
<1>2. /\ UxTypeOK'
      /\ ux_cl'[c] = [pc |-> "wait", cmd |-> cmd]
      /\ \A d \in UxClients : d # c => ux_cl'[d] = ux_cl[d]
  BY <1>1, ClientTypes DEF SendText, UxInv, UxTypeOK
<1>3. ux_fd[c] \in Fds BY DEF SendText, UxInv, UxTypeOK
<1>4. ux_in[ux_fd[c]] = <<cmd.len>> /\ ux_out[ux_fd[c]] = <<>>
  BY Connected DEF SendText, Conversation, cmd
<1>5. /\ ux_in'[ux_fd[c]] = <<cmd.len, cmd>>
      /\ \A f \in Fds : f # ux_fd[c] => ux_in'[f] = ux_in[f]
  <2>1. ux_in' = [ux_in EXCEPT ![ux_fd[c]] = Append(@, cmd)] BY DEF SendText, cmd
  <2>2. ASSUME NEW a, NEW b PROVE Append(<<a>>, b) = <<a, b>>
    <3> DEFINE t == Append(<<a>>, b)
    <3>1. <<a>> \in Seq({a, b}) /\ Len(<<a>>) = 1 /\ <<a>>[1] = a OBVIOUS
    <3>2. t \in Seq({a, b}) /\ Len(t) = 2 /\ t[1] = a /\ t[2] = b
      BY <3>1, AppendProperties
    <3>3. /\ <<a, b>> \in Seq({a, b}) /\ Len(<<a, b>>) = 2
          /\ <<a, b>>[1] = a /\ <<a, b>>[2] = b
      OBVIOUS
    <3> DEFINE u == <<a, b>>
    <3>4. t = u
      <4> HIDE DEF t, u
      <4>1. u \in Seq({a, b}) /\ Len(u) = 2 /\ u[1] = a /\ u[2] = b BY <3>3 DEF u
      <4>2. \A i \in 1..2 : t[i] = u[i] BY <3>2, <4>1
      <4> QED BY <3>2, <4>1, <4>2, SeqEqual
    <3> QED BY <3>4
  <2>3. ux_in'[ux_fd[c]] = Append(<<cmd.len>>, cmd)
    BY <1>3, <1>4, <2>1 DEF UxInv, UxTypeOK
  <2>4. \A f \in Fds : f # ux_fd[c] => ux_in'[f] = ux_in[f]
    BY <2>1 DEF UxInv, UxTypeOK
  <2> QED BY <2>2, <2>3, <2>4, Zenon
<1>6. Conversation(ux_cl'[c], ux_in'[ux_fd[c]], ux_out'[ux_fd[c]])
  BY <1>2, <1>4, <1>5 DEF SendText, Conversation
<1>7. Connections' BY <1>2, <1>5, <1>6, OneConnection DEF SendText
<1>8. Served' BY DEF UxInv, Served, Known, SendText
<1> QED BY <1>2, <1>7, <1>8 DEF UxInv

LEMMA RecvReplyStep ==
  ASSUME UxInv, NEW c \in UxClients, RecvReply(c)
  PROVE  UxInv'
<1> DEFINE f == ux_fd[c]
<1>1. f \in Fds BY DEF RecvReply, UxInv, UxTypeOK
<1>2. ux_in[f] = <<>> /\ \E r : ux_out[f] = <<r>> BY Connected DEF RecvReply, Conversation
<1>3. /\ ux_out'[f] = <<>> /\ DOMAIN ux_out' = Fds
      /\ \A g \in Fds : g # f => ux_out'[g] = ux_out[g]
  BY <1>1, <1>2 DEF RecvReply, UxInv, UxTypeOK
<1>4. CASE Client(c, "open", 0) /\ UNCHANGED ux_fd
  <2>1. /\ UxTypeOK'
        /\ ux_cl'[c] = [pc |-> "open", cmd |-> 0]
        /\ \A d \in UxClients : d # c => ux_cl'[d] = ux_cl[d]
    BY <1>3, <1>4, ClientTypes DEF RecvReply, UxInv, UxTypeOK
  <2>2. Conversation(ux_cl'[c], ux_in'[f], ux_out'[f])
    BY <1>2, <1>3, <2>1 DEF RecvReply, Conversation
  <2>3. Connections' BY <1>3, <1>4, <2>1, <2>2, OneConnection DEF RecvReply
  <2> QED BY <2>1, <2>3 DEF UxInv, Served, Known, RecvReply
<1>5. CASE Client(c, "off", 0) /\ ux_fd' = [ux_fd EXCEPT ![c] = 0]
  <2>1. /\ ux_fd' \in [UxClients -> Fds \cup {0}] /\ ux_fd'[c] = 0
        /\ \A d \in UxClients : d # c => ux_fd'[d] = ux_fd[d]
    BY <1>5 DEF UxInv, UxTypeOK
  <2>2. UxTypeOK' /\ \A d \in UxClients : d # c => ux_cl'[d] = ux_cl[d]
    BY <1>3, <1>5, <2>1, ClientTypes DEF RecvReply, UxInv, UxTypeOK
  <2>3. Connections' BY <1>3, <2>1, <2>2, OneConnection DEF RecvReply
  <2> QED BY <2>2, <2>3 DEF UxInv, Served, Known, RecvReply
<1> QED BY <1>4, <1>5 DEF RecvReply

LEMMA DisconnectStep ==
  ASSUME UxInv, NEW c \in UxClients, Disconnect(c)
  PROVE  UxInv'
<1>1. /\ ux_fd' \in [UxClients -> Fds \cup {0}] /\ ux_fd'[c] = 0
      /\ \A d \in UxClients : d # c => ux_fd'[d] = ux_fd[d]
  BY DEF Disconnect, UxInv, UxTypeOK
<1>2. Client(c, "off", 0) BY DEF Disconnect
<1>3. UxTypeOK' /\ \A d \in UxClients : d # c => ux_cl'[d] = ux_cl[d]
  BY <1>1, <1>2, ClientTypes DEF Disconnect, UxInv, UxTypeOK
<1>4. Connections' BY <1>1, <1>3, OneConnection DEF Disconnect
<1> QED BY <1>3, <1>4 DEF UxInv, Served, Known, Disconnect

LEMMA PollStep ==
  ASSUME UxInv, UxPoll \/ UxNextClient \/ UxConfigure
  PROVE  UxInv'
<1>1. UNCHANGED <<ux_cl, ux_fd, ux_in, ux_out, ux_list>>
  BY DEF UxPoll, UxNextClient, UxConfigure
<1>2. UxTypeOK' /\ Connections' BY <1>1 DEF UxInv, UxTypeOK, Connections, Known
<1>3. Served'
  <2>1. CASE UxPoll BY <2>1 DEF UxPoll, Served
  <2>2. CASE UxNextClient
    BY <1>1, <2>2, ListRange DEF UxNextClient, UxInv, Served, Known
  <2>3. CASE UxConfigure BY <1>1, <2>3 DEF UxConfigure, UxInv, Served, Known
  <2> QED BY <2>1, <2>2, <2>3
<1> QED BY <1>2, <1>3 DEF UxInv

LEMMA RecvFailsStep ==
  ASSUME UxInv, UxRecvFails
  PROVE  UxInv'
<1>1. Known(Head(ux_polls)) BY DEF UxRecvFails, UxInv, Served
<1>2. UxTypeOK' /\ Connections' BY <1>1, DeadClientStep DEF UxRecvFails
<1>3. Served' BY DEF UxRecvFails, Served
<1> QED BY <1>2, <1>3 DEF UxInv

LEMMA RecvStep ==
  ASSUME UxInv, NEW got \in BOOLEAN, UxRecv(got)
  PROVE  UxInv'
<1> DEFINE f == Head(ux_polls)
<1>1. Known(f) /\ f \in Range(ux_list) /\ f \in Fds
  BY ListRange DEF UxRecv, UxInv, Served
<1>2. Served' BY DEF UxRecv, Served
<1>3. CASE Closed(f)
  <2>1. dead_client(f) /\ UNCHANGED <<ux_cl, ux_out>> BY <1>3 DEF UxRecv
  <2>2. UxTypeOK' /\ Connections' BY <1>1, <2>1, DeadClientStep
  <2> QED BY <1>2, <2>2 DEF UxInv
<1>4. CASE ~Closed(f)
  <2> DEFINE c == CHOOSE c \in Owner(f) : TRUE
  <2>1. c \in UxClients /\ ux_fd[c] = f BY <1>1, <1>4 DEF Closed, Owner
  <2> DEFINE cmd == ux_in[f][2]
  <2>2. /\ ux_in' = [ux_in EXCEPT ![f] = SubSeq(@, 3, Len(@))]
        /\ ux_out' = [ux_out EXCEPT ![f] = Append(@, Replies[cmd][(c \in Root)][got])]
        /\ UNCHANGED <<ux_list, ux_fd, ux_cl>>
    BY <1>4 DEF UxRecv
  <2> HIDE DEF c
  <2>3. f # 0 BY <1>1, UxFacts
  <2>4. Conversation(ux_cl[c], ux_in[f], ux_out[f]) BY <2>1, <2>3, Connected
  <2>5. Len(ux_in[f]) >= 2 BY DEF UxRecv, Received
  <2>6. ux_cl[c].pc = "wait" /\ ux_in[f] = <<ux_cl[c].cmd.len,
  ux_cl[c].cmd>> /\ ux_out[f] = <<>>
    BY <2>4, <2>5 DEF Conversation
  <2>7. cmd = ux_cl[c].cmd BY <2>6
  <2> HIDE DEF f, cmd
  <2>8. /\ ux_in'[f] = <<>> /\ DOMAIN ux_in' = Fds
        /\ \A g \in Fds : g # f => ux_in'[g] = ux_in[g]
    BY <1>1, <2>2, <2>6 DEF UxInv, UxTypeOK
  <2>9. /\ ux_out'[f] = <<Replies[cmd][(c \in Root)][got]>> /\ DOMAIN ux_out' = Fds
        /\ \A g \in Fds : g # f => ux_out'[g] = ux_out[g]
    BY <1>1, <2>2, <2>6 DEF UxInv, UxTypeOK
  <2>10. Conversation(ux_cl[c], ux_in'[f], ux_out'[f])
    <3>1. PICK root \in BOOLEAN : root = (c \in Root)
      <4>1. CASE c \in Root
        <5>1. TRUE = (c \in Root) BY <4>1
        <5> QED BY <5>1, Zenon
      <4>2. CASE c \notin Root
        <5>1. FALSE = (c \in Root) BY <4>2
        <5> QED BY <5>1, Zenon
      <4> QED BY <4>1, <4>2
    <3>2. ux_out'[f] = <<Replies[ux_cl[c].cmd][root][got]>> BY <2>7, <2>9, <3>1
    <3> QED BY <2>2, <2>6, <2>8, <3>2, Zenon DEF Conversation
  <2>11. Connections' BY <2>1, <2>2, <2>8, <2>9, <2>10, OneConnection
  <2>12. UxTypeOK' BY <2>2, <2>8, <2>9 DEF UxInv, UxTypeOK, Fds
  <2> QED BY <1>2, <2>11, <2>12 DEF UxInv
<1> QED BY <1>3, <1>4

LEMMA AcceptStep ==
  ASSUME UxInv, UxAccept
  PROVE  UxInv'
<1> DEFINE taken == Range(ux_list)
           f == CHOOSE f \in Fds : f \notin taken /\ \A g \in Fds \ taken : f <= g
<1>1. Served' BY DEF UxAccept, Served
<1>2. CASE UNCHANGED <<ux_cl, ux_fd, ux_in, ux_out, ux_list>>
  <2>1. UxTypeOK' /\ Connections' BY <1>2 DEF UxInv, UxTypeOK, Connections, Known
  <2> QED BY <1>1, <2>1 DEF UxInv
<1>3. ASSUME Fds # taken, NEW c \in Connecting,
             ux_cl' = [ux_cl EXCEPT ![c].pc = "open"], ux_fd' = [ux_fd EXCEPT ![c] = f],
             ux_list' = Append(ux_list, f), ux_in' = [ux_in EXCEPT ![f] = <<>>],
             ux_out' = [ux_out EXCEPT ![f] = <<>>]
      PROVE  UxInv'
  <2>1. taken \subseteq Fds /\ \A g : g \in taken <=> Known(g) BY ListRange DEF UxInv
  <2>2. f \in Fds /\ f \notin taken
    <3>1. Fds \ taken # {} /\ Fds \ taken \subseteq Nat BY <1>3, <2>1, UxFacts
    <3>2. \E x \in Fds \ taken : \A g \in Fds \ taken : x <= g BY <3>1, LeastNat
    <3> HIDE DEF taken
    <3> QED BY <3>2
  <2>3. ux_list \in Seq(Fds) BY DEF UxInv, UxTypeOK
  <2> HIDE DEF f
  <2>4. c \in UxClients /\ ux_fd[c] = 0 BY <1>3, Connected DEF Connecting
  <2>5. ~Known(f) BY <2>1, <2>2
  <2> HIDE DEF taken
  <2>6. /\ ux_list' \in Seq(Fds) /\ \E i \in 1..Len(ux_list') : ux_list'[i] = f
        /\ \A g : Known(g) => Known(g)'
    <3>1. /\ ux_list' \in Seq(Fds) /\ Len(ux_list') = Len(ux_list) + 1
          /\ \A i \in 1..Len(ux_list) : ux_list'[i] = ux_list[i]
          /\ ux_list'[Len(ux_list) + 1] = f
      BY <1>3, <2>2, <2>3, AppendProperties
    <3>2. \E i \in 1..Len(ux_list') : ux_list'[i] = f BY <2>3, <3>1
    <3>3. ASSUME NEW g, Known(g) PROVE Known(g)'
      <4>1. PICK i \in 1..Len(ux_list) : ux_list[i] = g BY <3>3 DEF Known
      <4>2. i \in 1..Len(ux_list') /\ ux_list'[i] = g BY <2>3, <3>1, <4>1
      <4> QED BY <4>2 DEF Known
    <3> QED BY <3>1, <3>2, <3>3
  <2>7. /\ ux_fd' \in [UxClients -> Fds \cup {0}] /\ ux_fd'[c] = f
        /\ \A d \in UxClients : d # c => ux_fd'[d] = ux_fd[d]
    BY <1>3, <2>2, <2>4 DEF UxInv, UxTypeOK
  <2>8. /\ DOMAIN ux_in' = Fds /\ DOMAIN ux_out' = Fds
        /\ ux_in'[f] = <<>> /\ ux_out'[f] = <<>>
        /\ \A g \in Fds : g # f => ux_in'[g] = ux_in[g] /\ ux_out'[g] = ux_out[g]
    BY <1>3, <2>2 DEF UxInv, UxTypeOK
  <2>9. Client(c, "open", ux_cl[c].cmd)
    <3>1. ux_cl[c] = [pc |-> ux_cl[c].pc, cmd |-> ux_cl[c].cmd] BY <2>4 DEF UxInv, UxTypeOK
    <3>2. [ux_cl[c] EXCEPT !.pc = "open"] = [pc |-> "open", cmd |-> ux_cl[c].cmd] BY <3>1
    <3> QED BY <1>3, <3>2 DEF Client
  <2>10. /\ ux_cl'[c] = [pc |-> "open", cmd |-> ux_cl[c].cmd]
         /\ \A d \in UxClients : d # c => ux_cl'[d] = ux_cl[d]
    BY <2>4, <2>9 DEF Client, UxInv, UxTypeOK
  <2>11. UxTypeOK'
    <3>1. ASSUME NEW d \in UxClients
          PROVE  /\ ux_cl'[d] = [pc |-> ux_cl'[d].pc, cmd |-> ux_cl'[d].cmd]
                 /\ ux_cl'[d].pc \in {"half", "wait"} => ux_cl'[d].cmd \in Commands
      <4>1. CASE d = c BY <2>10, <4>1
      <4>2. CASE d # c
        <5>1. ux_cl[d] = [pc |-> ux_cl[d].pc, cmd |-> ux_cl[d].cmd] BY DEF UxInv, UxTypeOK
        <5> QED BY <2>10, <4>2, <5>1 DEF UxInv, UxTypeOK
      <4> QED BY <4>1, <4>2
    <3>2. ux_cl' = [d \in UxClients |-> [pc |-> ux_cl'[d].pc, cmd |-> ux_cl'[d].cmd]]
      BY <1>3, <3>1 DEF UxInv, UxTypeOK
    <3> QED BY <2>6, <2>7, <2>8, <3>1, <3>2 DEF UxTypeOK, Fds
  <2>12. Connections'
    <3> SUFFICES ASSUME NEW e \in UxClients, ux_fd'[e] # 0
                 PROVE  /\ Known(ux_fd[e])'
                        /\ \A d \in UxClients : ux_fd'[d] = ux_fd'[e] => d = e
                        /\ Conversation(ux_cl[e], ux_in[ux_fd[e]], ux_out[ux_fd[e]])'
      BY DEF Connections
    <3>1. ASSUME NEW d \in UxClients, ux_fd[d] # 0
          PROVE  /\ Known(ux_fd[d]) /\ ux_fd[d] # f /\ ux_fd[d] \in Fds
                 /\ \A b \in UxClients : ux_fd[b] = ux_fd[d] => b = d
                 /\ Conversation(ux_cl[d], ux_in[ux_fd[d]], ux_out[ux_fd[d]])
      BY <2>5, <3>1 DEF UxInv, UxTypeOK, Connections
    <3>2. CASE e = c
      <4>1. \A d \in UxClients : ux_fd'[d] = f => d = c
        <5>1. f # 0 BY <2>2, UxFacts
        <5> QED BY <2>7, <3>1, <5>1
      <4>2. Known(ux_fd[e])'
        BY <2>6, <2>7, <3>2 DEF Known
      <4>3. Conversation(ux_cl'[c], ux_in'[f], ux_out'[f]) BY <2>8, <2>10 DEF Conversation
      <4> QED BY <2>7, <3>2, <4>1, <4>2, <4>3
    <3>3. CASE e # c
      <4>1. ux_fd'[e] = ux_fd[e] /\ ux_fd[e] # 0 /\ ux_cl'[e] = ux_cl[e] BY <2>7, <2>10, <3>3
      <4>2. Known(ux_fd[e])' BY <2>6, <3>1, <4>1 DEF Known
      <4>3. \A d \in UxClients : ux_fd'[d] = ux_fd'[e] => d = e BY <2>7, <3>1, <4>1
      <4>4. Conversation(ux_cl'[e], ux_in'[ux_fd[e]], ux_out'[ux_fd[e]])
        BY <2>8, <3>1, <4>1
      <4> QED BY <4>1, <4>2, <4>3, <4>4
    <3> QED BY <3>2, <3>3
  <2> QED BY <1>1, <2>11, <2>12 DEF UxInv
<1> QED BY <1>2, <1>3 DEF UxAccept

LEMMA UxInvariant == UxSpec => []UxInv
<1>1. ASSUME UxInv, [UxNext]_ux_vars PROVE UxInv'
  <2>1. CASE UxPoll \/ UxNextClient \/ UxConfigure BY <1>1, <2>1, PollStep
  <2>2. CASE UxRecv(TRUE) \/ UxRecv(FALSE) BY <1>1, <2>2, RecvStep
  <2>3. CASE UxRecvFails BY <1>1, <2>3, RecvFailsStep
  <2>4. CASE UxAccept BY <1>1, <2>4, AcceptStep
  <2>5. ASSUME NEW c \in UxClients,
               \/ mpath_connect(c) \/ SendText(c) \/ RecvReply(c) \/ Disconnect(c)
               \/ \E cmd \in Commands : SendLength(c, cmd)
        PROVE  UxInv'
    BY <1>1, <2>5, MpathConnectStep, SendTextStep, RecvReplyStep, DisconnectStep, SendLengthStep
  <2>6. CASE UNCHANGED ux_vars
    BY <1>1, <2>6 DEF ux_vars, UxInv, UxTypeOK, Connections, Served, Known
  <2> QED BY <1>1, <2>1, <2>2, <2>3, <2>4, <2>5, <2>6 DEF UxNext, Listener
<1> QED BY <1>1, UxInitInv, PTL DEF UxSpec

\* For any clients, commands and sizes of buffers: a client that reads a reply gets
\* the whole reply to the command it waits for, or an error, although clients
\* leave with requests unread and their file descriptors are used again.
THEOREM RepliesMatchTheorem == UxSpec => []RepliesMatch
BY UxInvariant, UxInvMatch, PTL

(***************************************************************************)
(* Aliases: lemmas on numbers and recursion                                *)
(***************************************************************************)
\* Division with remainder, and multiples
LEMMA Division ==
  ASSUME NEW a \in Nat, NEW b \in Nat \ {0}
  PROVE  /\ a \div b \in Nat /\ a % b \in 0..(b - 1)
         /\ a = (a \div b) * b + (a % b)
OBVIOUS

\* A number with a remainder is divided in one way only.
LEMMA DivisionUnique ==
  ASSUME NEW q \in Nat, NEW b \in Nat \ {0}, NEW r \in 0..(b - 1)
  PROVE  (q * b + r) \div b = q /\ (q * b + r) % b = r
OBVIOUS

\* The multiples of a number are at least that far apart.
LEMMA Mult ==
  ASSUME NEW x \in Nat, NEW y \in Nat, NEW b \in Nat, x < y
  PROVE  x * b + b <= y * b
OBVIOUS

\* Induction up to a bound
LEMMA UpTo ==
  ASSUME NEW n \in Nat, NEW T, 0 \in T, \A i \in 0..n : i < n /\ i \in T => i + 1 \in T
  PROVE  \A i \in 0..n : i \in T
<1> DEFINE bad == {i \in 0..n : i \notin T}
<1>1. SUFFICES ASSUME bad # {} PROVE FALSE OBVIOUS
<1>2. PICK i \in bad : \A k \in bad : i <= k
  <2>1. bad \subseteq Nat OBVIOUS
  <2> HIDE DEF bad
  <2> QED BY <1>1, <2>1, LeastNat
<1>3. i \in 0..n /\ i \notin T /\ i # 0 BY <1>2
<1>4. PICK k \in 0..n : i = k + 1 /\ k < n BY <1>3
<1>5. k \in T
  <2>1. k \notin bad BY <1>2, <1>3, <1>4
  <2> QED BY <2>1
<1> QED BY <1>3, <1>4, <1>5

\* A function may be defined by recursion up to a bound.
Recursive(f, n, V, base, step) ==
  f \in [0..n -> V] /\ f[0] = base /\ \A i \in 1..n : f[i] = step[i][f[i - 1]]

\* Such a function exists.
LEMMA Recursion ==
  ASSUME NEW n \in Nat, NEW V, NEW base \in V, NEW step \in [1..n -> [V -> V]]
  PROVE  \E f : Recursive(f, n, V, base, step)
<1> DEFINE Builds(m) == \E f \in [0..m -> V] :
                          f[0] = base /\ \A i \in 1..m : f[i] = step[i][f[i - 1]]
           T == {m \in 0..n : Builds(m)}
<1>1. Builds(0)
  <2> DEFINE f == [i \in 0..0 |-> base]
  <2>1. f \in [0..0 -> V] /\ f[0] = base OBVIOUS
  <2>2. 1..0 = {} OBVIOUS
  <2> HIDE DEF f
  <2> QED BY <2>1, <2>2
<1>2. ASSUME NEW m \in 0..n, m < n, Builds(m) PROVE Builds(m + 1)
  <2>1. PICK g \in [0..m -> V] : g[0] = base /\ \A i \in 1..m : g[i] = step[i][g[i - 1]] BY <1>2
  <2> DEFINE f == [i \in 0..(m + 1) |-> IF i <= m THEN g[i] ELSE step[m + 1][g[m]]]
  <2>2. m + 1 \in 1..n /\ m \in 0..m /\ g[m] \in V BY <1>2
  <2>3. step[m + 1][g[m]] \in V BY <2>2
  <2>4. f \in [0..(m + 1) -> V] BY <2>3
  <2>5. \A i \in 0..m : f[i] = g[i] OBVIOUS
  <2>6. f[m + 1] = step[m + 1][g[m]] BY <1>2
  <2> HIDE DEF f
  <2>7. f[0] = base BY <2>1, <2>5
  <2>8. ASSUME NEW i \in 1..(m + 1) PROVE f[i] = step[i][f[i - 1]]
    <3>1. i - 1 \in 0..m /\ f[i - 1] = g[i - 1] BY <2>5
    <3>2. CASE i = m + 1 BY <2>6, <3>1, <3>2
    <3>3. CASE i # m + 1
      <4>1. i \in 1..m /\ i \in 0..m BY <3>3
      <4> QED BY <2>1, <2>5, <3>1, <4>1
    <3> QED BY <3>2, <3>3
  <2> QED BY <2>4, <2>7, <2>8
<1> HIDE DEF Builds
<1>3. 0 \in T BY <1>1
<1>4. \A i \in 0..n : i < n /\ i \in T => i + 1 \in T BY <1>2
<1>5. T \subseteq {m \in 0..n : Builds(m)} OBVIOUS
<1> HIDE DEF T
<1>6. \A i \in 0..n : i \in T BY <1>3, <1>4, UpTo
<1>7. n \in 0..n OBVIOUS
<1> QED BY <1>5, <1>6, <1>7 DEF Builds, Recursive

(***************************************************************************)
(* Names and ids                                                           *)
(***************************************************************************)
\* What format_devname[id] is made of
FormatStep(f, id) ==
  IF id - 1 < LetterCount THEN <<id - 1>>
  ELSE Append(f[(id - 1) \div LetterCount], (id - 1) % LetterCount)

\* The id of a name without its last letter
LEMMA Shorter ==
  ASSUME NEW id \in Nat, ~(id - 1 < LetterCount), id > 0,
         NEW k, k = (id - 1) \div LetterCount, NEW i, i = (id - 1) % LetterCount
  PROVE  /\ k \in 1..(id - 1) /\ i \in 0..(LetterCount - 1) /\ id = k * LetterCount + i + 1
<1>0. LetterCount \in Nat \ {0} BY AliasConstants
<1>1. PICK a \in Nat : a = id - 1 OBVIOUS
<1>2. a = k * LetterCount + i /\ k \in Nat /\ i \in 0..(LetterCount - 1)
  BY <1>0, <1>1, Division
<1>3. k # 0
  <2>1. k = 0 => k * LetterCount = 0 BY <1>0
  <2> QED BY <1>0, <1>1, <1>2, <2>1
<1>4. k <= k * LetterCount
  <2>1. \A x \in Nat, y \in Nat \ {0} : x <= x * y OBVIOUS
  <2> QED BY <1>0, <1>2, <2>1
<1>5. k * LetterCount \in Nat BY <1>0, <1>2
<1> QED BY <1>0, <1>1, <1>2, <1>3, <1>4, <1>5

\* The recursive function for names is defined for every id.
LEMMA FormatIs ==
  \A id \in 1..IntMax : format_devname[id] = FormatStep(format_devname, id)
<1> DEFINE Builds(m) == \E f : f = [id \in 1..m |-> FormatStep(f, id)]
           T == {m \in 0..IntMax : Builds(m)}
<1>0. LetterCount \in Nat \ {0} /\ IntMax \in Nat BY AliasConstants
<1>1. Builds(0)
  <2>1. \A f : [id \in 1..0 |-> FormatStep(f, id)] = [id \in {} |-> {}]
    <3>1. 1..0 = {} OBVIOUS
    <3> QED BY <3>1
  <2> QED BY <2>1
<1>2. ASSUME NEW m \in 0..IntMax, m < IntMax, Builds(m) PROVE Builds(m + 1)
  <2>1. PICK g : g = [id \in 1..m |-> FormatStep(g, id)] BY <1>2
  <2> DEFINE f == [id \in 1..(m + 1) |-> IF id = m + 1 THEN FormatStep(g, m + 1) ELSE g[id]]
  <2>2. \A id \in 1..m : f[id] = g[id] OBVIOUS
  <2>3. f[m + 1] = FormatStep(g, m + 1) OBVIOUS
  <2>4. f = [id \in 1..(m + 1) |-> f[id]] OBVIOUS
  <2> HIDE DEF f
  <2>5. ASSUME NEW id \in 1..(m + 1) PROVE f[id] = FormatStep(f, id)
    <3>1. FormatStep(f, id) = FormatStep(g, id)
      <4>1. CASE id - 1 < LetterCount BY <4>1 DEF FormatStep
      <4>2. CASE ~(id - 1 < LetterCount)
        <5>1. PICK k : k = (id - 1) \div LetterCount OBVIOUS
        <5>0. id \in Nat /\ id > 0 OBVIOUS
        <5>2. k \in 1..(id - 1) BY <4>2, <5>0, <5>1, Shorter
        <5>3. k \in 1..m BY <5>2
        <5> QED BY <2>2, <5>1, <5>3 DEF FormatStep
      <4> QED BY <4>1, <4>2
    <3>2. CASE id = m + 1 BY <2>3, <3>1, <3>2
    <3>3. CASE id # m + 1
      <4>1. id \in 1..m BY <3>3
      <4>2. g[id] = FormatStep(g, id) BY <2>1, <4>1
      <4> QED BY <2>2, <3>1, <4>1, <4>2
    <3> QED BY <3>2, <3>3
  <2>6. f = [id \in 1..(m + 1) |-> FormatStep(f, id)] BY <2>4, <2>5
  <2> QED BY <2>6
<1> HIDE DEF Builds
<1>3. 0 \in T BY <1>0, <1>1
<1>4. \A m \in 0..IntMax : m < IntMax /\ m \in T => m + 1 \in T BY <1>0, <1>2
<1>5. T \subseteq {m \in 0..IntMax : Builds(m)} OBVIOUS
<1> HIDE DEF T
<1>6. IntMax \in T
  <2>1. \A m \in 0..IntMax : m \in T BY <1>0, <1>3, <1>4, UpTo
  <2> QED BY <1>0, <2>1
<1> DEFINE F(g) == g = [id \in 1..IntMax |-> FormatStep(g, id)]
           c == CHOOSE g : F(g)
<1>7. format_devname = c BY DEF format_devname, FormatStep
<1>8. F(c)
  <2>1. \E g : F(g) BY <1>5, <1>6 DEF Builds
  <2> HIDE DEF F
  <2> QED BY <2>1
<1> HIDE DEF c
<1> QED BY <1>7, <1>8

\* How the id changes with one more letter
LEMMA LetterIs ==
  ASSUME NEW n \in -1..IntMax, NEW i \in Int, NEW r, r = ScanLetter(n, i)
  PROVE  /\ r \in -1..IntMax
         /\ r # -1 => n >= 0 /\ i \in 0..(LetterCount - 1) /\ r = n * LetterCount + i + 1
         /\ n >= 0 /\ i \in 0..(LetterCount - 1) /\ n * LetterCount + i + 1 <= IntMax
              => r = n * LetterCount + i + 1
<1> DEFINE q == IntMax \div LetterCount
           d == IntMax % LetterCount
<1>0. LetterCount \in Nat \ {0} /\ IntMax \in Nat BY AliasConstants
<1>1. q \in Nat /\ d \in 0..(LetterCount - 1) /\ IntMax = q * LetterCount + d
  BY <1>0, Division
<1>2. r = IF n < 0 \/ i \notin 0..(LetterCount - 1) \/ n > q \/ (n = q /\ i >= d)
          THEN -1 ELSE n * LetterCount + i + 1
  BY DEF ScanLetter
<1> HIDE DEF q, d
<1>3. CASE n < 0 \/ i \notin 0..(LetterCount - 1) BY <1>0, <1>2, <1>3
<1>4. CASE n >= 0 /\ i \in 0..(LetterCount - 1)
  <2>1. n * LetterCount \in Nat /\ q * LetterCount \in Nat BY <1>0, <1>1, <1>4
  <2>2. CASE n > q
    <3>1. q * LetterCount + LetterCount <= n * LetterCount BY <1>0, <1>1, <1>4, <2>2, Mult
    <3>2. n * LetterCount + i + 1 > IntMax BY <1>0, <1>1, <1>4, <2>1, <3>1
    <3>3. r = -1 BY <1>2, <2>2
    <3> QED BY <1>0, <1>4, <2>1, <3>2, <3>3
  <2>3. CASE n = q
    <3>1. n * LetterCount = q * LetterCount BY <2>3
    <3> QED BY <1>0, <1>1, <1>2, <1>4, <2>1, <2>3, <3>1
  <2>4. CASE n < q
    <3>1. n * LetterCount + LetterCount <= q * LetterCount BY <1>0, <1>1, <1>4, <2>4, Mult
    <3> QED BY <1>0, <1>1, <1>2, <1>4, <2>1, <2>4, <3>1
  <2> QED BY <1>0, <1>1, <1>4, <2>2, <2>3, <2>4
<1> QED BY <1>0, <1>3, <1>4

\* What read[i] of scan_devname() is made of, and the whole of it
ReadStep(a, f, i) == IF i = 0 THEN 0 ELSE ScanLetter(f[i - 1], a[i])
Read(a) == CHOOSE f : f = [i \in 0..Len(a) |-> ReadStep(a, f, i)]

\* The recursive function in scan_devname() is defined for every name, letter by
\* letter.
LEMMA ReadIs ==
  ASSUME NEW a \in Seq(Int)
  PROVE  /\ Read(a)[0] = 0
         /\ \A i \in 1..Len(a) : Read(a)[i] = ScanLetter(Read(a)[i - 1], a[i])
         /\ \A i \in 0..Len(a) : Read(a)[i] \in -1..IntMax
<1> DEFINE V == -1..IntMax
           step == [i \in 1..Len(a) |-> [n \in V |-> ScanLetter(n, a[i])]]
           F(f) == f = [i \in 0..Len(a) |-> ReadStep(a, f, i)]
<1>0. Len(a) \in Nat /\ 0 \in V BY AliasConstants
<1>1. ASSUME NEW n \in V, NEW i \in 1..Len(a) PROVE ScanLetter(n, a[i]) \in V
  <2>1. a[i] \in Int OBVIOUS
  <2> QED BY <2>1, LetterIs
<1>2. \E f : F(f)
  <2>1. step \in [1..Len(a) -> [V -> V]] BY <1>1
  <2>2. \A i \in 1..Len(a), n \in V : step[i][n] = ScanLetter(n, a[i]) OBVIOUS
  <2> HIDE DEF step, V, F
  <2>3. PICK f : Recursive(f, Len(a), V, 0, step) BY <1>0, <2>1, Recursion
  <2>4. ASSUME NEW i \in 0..Len(a) PROVE f[i] = ReadStep(a, f, i)
    <3>1. CASE i = 0 BY <2>3, <3>1 DEF ReadStep, Recursive
    <3>2. CASE i # 0
      <4>1. i \in 1..Len(a) /\ i - 1 \in 0..Len(a) BY <1>0, <3>2
      <4>2. f[i - 1] \in V BY <2>3, <4>1 DEF Recursive
      <4> QED BY <2>2, <2>3, <3>2, <4>1, <4>2 DEF ReadStep, Recursive
    <3> QED BY <3>1, <3>2
  <2>5. f = [i \in 0..Len(a) |-> ReadStep(a, f, i)] BY <2>3, <2>4 DEF Recursive
  <2> QED BY <2>5 DEF F
<1>3. F(Read(a))
  <2>1. Read(a) = CHOOSE f : F(f) BY DEF Read
  <2> HIDE DEF F
  <2> QED BY <1>2, <2>1
<1>4. PICK f : f = Read(a) OBVIOUS
<1>5. \A i \in 0..Len(a) : f[i] = ReadStep(a, f, i) BY <1>3, <1>4
<1>6. f[0] = 0 BY <1>0, <1>5 DEF ReadStep
<1>7. ASSUME NEW i \in 1..Len(a) PROVE f[i] = ScanLetter(f[i - 1], a[i])
  <2>1. i \in 0..Len(a) /\ i # 0 BY <1>0
  <2> QED BY <1>5, <2>1 DEF ReadStep
<1>8. \A i \in 0..Len(a) : f[i] \in V
  <2> DEFINE T == {i \in 0..Len(a) : f[i] \in V}
  <2>1. 0 \in T BY <1>0, <1>6
  <2>2. ASSUME NEW i \in 0..Len(a), i < Len(a), i \in T PROVE i + 1 \in T
    <3>1. i + 1 \in 1..Len(a) /\ i + 1 \in 0..Len(a) /\ (i + 1) - 1 = i BY <1>0, <2>2
    <3>2. f[i + 1] = ScanLetter(f[i], a[i + 1]) BY <1>7, <3>1
    <3> QED BY <1>1, <2>2, <3>1, <3>2
  <2>3. T \subseteq {i \in 0..Len(a) : f[i] \in V} OBVIOUS
  <2> HIDE DEF T
  <2>4. \A i \in 0..Len(a) : i \in T BY <1>0, <2>1, <2>2, UpTo
  <2> QED BY <2>3, <2>4
<1> QED BY <1>4, <1>6, <1>7, <1>8

\* scan_devname() returns what has been read after the last letter.
LEMMA ScanIs ==
  ASSUME NEW a \in Seq(Int)
  PROVE  scan_devname(a) = IF a = <<>> \/ Len(a) > MaxDigits THEN -1 ELSE Read(a)[Len(a)]
BY DEF scan_devname, NoAlias, Read, ReadStep

\* A name is read up to its last letter as without it.
LEMMA ReadAppend ==
  ASSUME NEW s \in Seq(Int), NEW x \in Int
  PROVE  Read(Append(s, x))[Len(s) + 1] = ScanLetter(Read(s)[Len(s)], x)
<1>1. PICK a : a = Append(s, x) OBVIOUS
<1>2. /\ a \in Seq(Int) /\ Len(a) = Len(s) + 1 /\ a[Len(s) + 1] = x
      /\ \A i \in 1..Len(s) : a[i] = s[i]
  BY <1>1
<1>3. Len(s) \in Nat OBVIOUS
<1> DEFINE T == {i \in 0..Len(s) : Read(a)[i] = Read(s)[i]}
<1>4. 0 \in T BY <1>2, <1>3, ReadIs
<1>5. ASSUME NEW i \in 0..Len(s), i < Len(s), i \in T PROVE i + 1 \in T
  <2>1. i + 1 \in 1..Len(s) /\ i + 1 \in 1..Len(a) /\ (i + 1) - 1 = i BY <1>2, <1>3, <1>5
  <2>2. Read(a)[i + 1] = ScanLetter(Read(a)[i], a[i + 1]) BY <1>2, <2>1, ReadIs
  <2>3. Read(s)[i + 1] = ScanLetter(Read(s)[i], s[i + 1]) BY <2>1, ReadIs
  <2> QED BY <1>2, <1>5, <2>1, <2>2, <2>3
<1>6. T \subseteq {i \in 0..Len(s) : Read(a)[i] = Read(s)[i]} OBVIOUS
<1> HIDE DEF T
<1>7. Read(a)[Len(s)] = Read(s)[Len(s)]
  <2>1. \A i \in 0..Len(s) : i \in T BY <1>3, <1>4, <1>5, UpTo
  <2> QED BY <1>3, <1>6, <2>1
<1>8. Len(s) + 1 \in 1..Len(a) /\ (Len(s) + 1) - 1 = Len(s) BY <1>2, <1>3
<1>9. Read(a)[Len(s) + 1] = ScanLetter(Read(a)[Len(s)], a[Len(s) + 1]) BY <1>2, <1>8, ReadIs
<1> QED BY <1>1, <1>2, <1>7, <1>9

\* The id of the name that format_devname() makes is the one it was made of.
LEMMA ScanFormat ==
  ASSUME NEW id \in 1..IntMax
  PROVE  /\ format_devname[id] \in Seq(Int) /\ scan_devname(format_devname[id]) = id
         /\ format_devname[id] # <<>>
<1> DEFINE Good(n) == /\ format_devname[n] \in Seq(Int) /\ format_devname[n] # <<>>
                      /\ Read(format_devname[n])[Len(format_devname[n])] = n
           bad == {n \in 1..IntMax : ~Good(n)}
<1>0. LetterCount \in Nat \ {0} /\ IntMax \in Nat BY AliasConstants
<1>1. ASSUME NEW n \in 1..IntMax, \A k \in 1..(n - 1) : Good(k) PROVE Good(n)
  <2>1. PICK a : a = format_devname[n] OBVIOUS
  <2>2. a = FormatStep(format_devname, n) BY <2>1, FormatIs
  <2>3. 0 \in -1..IntMax /\ n \in Nat /\ n > 0 BY <1>0
  <2>4. CASE n - 1 < LetterCount
    <3>1. a = <<n - 1>> BY <2>2, <2>4 DEF FormatStep
    <3>2. a \in Seq(Int) /\ Len(a) = 1 /\ a[1] = n - 1 /\ a # <<>> BY <3>1
    <3>3. Read(a)[0] = 0 /\ Read(a)[1] = ScanLetter(Read(a)[1 - 1], a[1]) BY <3>2, ReadIs
    <3>4. Read(a)[1] = ScanLetter(0, n - 1) BY <3>2, <3>3
    <3>5. n - 1 \in 0..(LetterCount - 1) /\ 0 * LetterCount = 0 BY <1>0, <2>4
    <3>6. ScanLetter(0, n - 1) = 0 * LetterCount + (n - 1) + 1
      BY <1>0, <2>3, <3>5, LetterIs
    <3>7. Read(a)[1] = n BY <3>4, <3>5, <3>6
    <3> QED BY <2>1, <3>2, <3>7
  <2>5. CASE ~(n - 1 < LetterCount)
    <3>1. PICK k, i : k = (n - 1) \div LetterCount /\ i = (n - 1) % LetterCount OBVIOUS
    <3>2. k \in 1..(n - 1) /\ i \in 0..(LetterCount - 1) /\ n = k * LetterCount + i + 1
      BY <2>3, <2>5, <3>1, Shorter
    <3>3. PICK s : s = format_devname[k] OBVIOUS
    <3>4. s \in Seq(Int) /\ Read(s)[Len(s)] = k BY <1>1, <3>2, <3>3
    <3>5. a = Append(s, i) BY <2>2, <2>5, <3>1, <3>3 DEF FormatStep
    <3>6. i \in Int /\ k \in -1..IntMax /\ k >= 0 BY <1>0, <3>2
    <3>7. a \in Seq(Int) /\ Len(a) = Len(s) + 1 /\ a # <<>> BY <3>4, <3>5, <3>6
    <3>8. Read(a)[Len(a)] = ScanLetter(k, i) BY <3>4, <3>5, <3>6, <3>7, ReadAppend
    <3>9. ScanLetter(k, i) = n BY <3>2, <3>6, LetterIs
    <3> QED BY <2>1, <3>7, <3>8, <3>9
  <2> QED BY <2>4, <2>5
<1> HIDE DEF Good
<1>2. bad = {}
  <2> SUFFICES ASSUME bad # {} PROVE FALSE OBVIOUS
  <2>1. PICK n \in bad : \A k \in bad : n <= k
    <3>1. bad \subseteq Nat OBVIOUS
    <3> HIDE DEF bad
    <3> QED BY <3>1, LeastNat
  <2>2. ASSUME NEW k \in 1..(n - 1) PROVE Good(k)
    <3>1. k \in 1..IntMax /\ ~(n <= k) BY <1>0
    <3> QED BY <2>1, <3>1
  <2> QED BY <1>1, <2>2
<1>3. Good(id) BY <1>2
<1>4. Len(format_devname[id]) <= MaxDigits /\ MaxDigits \in Nat BY NamesFit, AliasConstants
<1>5. Len(format_devname[id]) \in Nat BY <1>3 DEF Good
<1>6. ~(Len(format_devname[id]) > MaxDigits) BY <1>4, <1>5
<1> QED BY <1>3, <1>6, ScanIs DEF Good

\* A name that has an id is the one format_devname() makes of it.
LEMMA FormatScan ==
  ASSUME NEW a \in Seq(Int), scan_devname(a) > 0
  PROVE  scan_devname(a) \in 1..IntMax /\ format_devname[scan_devname(a)] = a
<1> DEFINE Good(k) == /\ Read(a)[k] = 0 => k = 0
                      /\ Read(a)[k] > 0 => format_devname[Read(a)[k]] = SubSeq(a, 1, k)
           T == {k \in 0..Len(a) : Good(k)}
<1>0. LetterCount \in Nat \ {0} /\ IntMax \in Nat /\ Len(a) \in Nat BY AliasConstants
<1>1. Good(0) BY ReadIs
<1>2. ASSUME NEW k \in 0..Len(a), k < Len(a), Good(k) PROVE Good(k + 1)
  <2>1. k + 1 \in 1..Len(a) /\ k + 1 \in 0..Len(a) /\ (k + 1) - 1 = k BY <1>0, <1>2
  <2>2. PICK v, i, r : v = Read(a)[k] /\ i = a[k + 1] /\ r = Read(a)[k + 1] OBVIOUS
  <2>3. v \in -1..IntMax /\ r \in -1..IntMax /\ i \in Int BY <2>1, <2>2, ReadIs
  <2>4. r = ScanLetter(v, i) BY <2>1, <2>2, ReadIs
  <2>5. r # -1 => v >= 0 /\ i \in 0..(LetterCount - 1) /\ r = v * LetterCount + i + 1
    BY <2>3, <2>4, LetterIs
  <2>6. r # 0
    <3> SUFFICES ASSUME r = 0 PROVE FALSE OBVIOUS
    <3>1. v \in Nat /\ i \in Nat /\ r = v * LetterCount + i + 1 BY <1>0, <2>3, <2>5
    <3>2. v * LetterCount \in Nat BY <1>0, <3>1
    <3> QED BY <3>1, <3>2
  <2>7. ASSUME r > 0 PROVE format_devname[r] = SubSeq(a, 1, k + 1)
    <3>1. /\ v \in Nat /\ i \in 0..(LetterCount - 1) /\ i \in Nat
          /\ r = v * LetterCount + i + 1 /\ r \in 1..IntMax
      BY <1>0, <2>3, <2>5, <2>7
    <3>2. v * LetterCount \in Nat BY <1>0, <3>1
    <3>3. r - 1 = v * LetterCount + i BY <3>1, <3>2
    <3>4. format_devname[r] = FormatStep(format_devname, r) BY <3>1, FormatIs
    <3>5. CASE v = 0
      <4>1. k = 0 BY <1>2, <2>2, <3>5
      <4>2. v * LetterCount = 0 BY <1>0, <3>5
      <4>3. r - 1 = i /\ r - 1 < LetterCount BY <1>0, <3>1, <3>3, <4>2
      <4>4. format_devname[r] = <<i>> BY <3>4, <4>3 DEF FormatStep
      <4>5. SubSeq(a, 1, k + 1) = Append(SubSeq(a, 1, k), a[k + 1]) BY <1>0, <2>1
      <4>6. SubSeq(a, 1, k) = <<>> BY <4>1
      <4>7. Append(<<>>, i) = <<i>> OBVIOUS
      <4> QED BY <2>2, <4>4, <4>5, <4>6, <4>7
    <3>6. CASE v # 0
      <4>1. format_devname[v] = SubSeq(a, 1, k) BY <1>2, <2>2, <3>1, <3>6
      <4>2. (r - 1) \div LetterCount = v /\ (r - 1) % LetterCount = i
        <5>1. PICK n : n = v * LetterCount + i OBVIOUS
        <5>2. n \div LetterCount = v /\ n % LetterCount = i
          BY <1>0, <3>1, <5>1, DivisionUnique
        <5> QED BY <3>3, <5>1, <5>2
      <4>3. LetterCount <= v * LetterCount
        <5>1. \A x \in Nat \ {0}, y \in Nat : y <= x * y OBVIOUS
        <5> QED BY <1>0, <3>1, <3>6, <5>1
      <4>4. ~(r - 1 < LetterCount) BY <1>0, <3>1, <3>2, <3>3, <4>3
      <4>5. format_devname[r] = Append(format_devname[v], i) BY <3>4, <4>2, <4>4 DEF FormatStep
      <4>6. SubSeq(a, 1, k + 1) = Append(SubSeq(a, 1, k), a[k + 1]) BY <1>0, <2>1
      <4> QED BY <2>2, <4>1, <4>5, <4>6
    <3> QED BY <3>5, <3>6
  <2> QED BY <2>2, <2>6, <2>7
<1> HIDE DEF Good
<1>3. 0 \in T BY <1>0, <1>1
<1>4. \A k \in 0..Len(a) : k < Len(a) /\ k \in T => k + 1 \in T BY <1>0, <1>2
<1>5. T \subseteq {k \in 0..Len(a) : Good(k)} OBVIOUS
<1> HIDE DEF T
<1>6. Good(Len(a))
  <2>1. \A k \in 0..Len(a) : k \in T BY <1>0, <1>3, <1>4, UpTo
  <2> QED BY <1>0, <1>5, <2>1
<1>7. ~(a = <<>> \/ Len(a) > MaxDigits) /\ scan_devname(a) = Read(a)[Len(a)] BY ScanIs
<1>8. Read(a)[Len(a)] \in -1..IntMax BY <1>0, ReadIs
<1>9. SubSeq(a, 1, Len(a)) = a BY <1>0
<1> QED BY <1>0, <1>6, <1>7, <1>8, <1>9 DEF Good

(***************************************************************************)
(* Aliases: a free id                                                      *)
(***************************************************************************)
\* The lines of the file
Lines == [alias : Seq(Int), wwid : AWwids \cup {NoLun}]

\* The range of the ids that scan_devname() returns.
LEMMA IdRange ==
  ASSUME NEW a \in Seq(Int)
  PROVE  scan_devname(a) \in -1..IntMax
<1>1. -1 \in -1..IntMax BY AliasConstants
<1>2. Len(a) \in 0..Len(a) OBVIOUS
<1>3. Read(a)[Len(a)] \in -1..IntMax BY <1>2, ReadIs
<1> QED BY <1>1, <1>3, ScanIs

Scans == [id : {-1} \cup 1..IntMax, biggest : 1..IntMax, above : 1..IntMax]

\* All ids so far are known to the scan, and what it would return is free.
Knows(s, c) == s.id = -1 \/ ((c < s.id \/ s.above <= c) /\ c <= s.biggest)

\* One line more: the scan of lookup_binding() stays in range, and never misses an
\* id that it has passed.
LEMMA ScanIdIs ==
  ASSUME NEW s \in Scans, NEW c \in -1..IntMax, NEW r, r = ScanId(s, c)
  PROVE  /\ r \in Scans /\ Knows(r, c) /\ (s.id = -1 => r.id = -1)
         /\ \A k \in -1..IntMax : Knows(s, k) => Knows(r, k)
<1>0. IntMax \in Nat \ {0} BY AliasConstants
<1> DEFINE id == IF c = s.id THEN IF s.id < IntMax THEN s.id + 1 ELSE -1 ELSE s.id
           big == IF c > s.biggest THEN c ELSE s.biggest
           above == IF id > 0 /\ c > id /\ c < s.above THEN c ELSE s.above
<1>1. s.id \in {-1} \cup 1..IntMax /\ s.biggest \in 1..IntMax /\ s.above \in 1..IntMax
  BY DEF Scans
<1>2. CASE s.id = -1
  <2>1. r = s BY <1>2 DEF ScanId
  <2> QED BY <1>2, <2>1 DEF Knows
<1>3. CASE s.id # -1
  <2>1. s.id \in 1..IntMax /\ ~(s.id < 0) BY <1>0, <1>1, <1>3
  <2>2. r = [id |-> id, biggest |-> big, above |-> above] BY <2>1 DEF ScanId
  <2>3. /\ id \in {-1} \cup 1..IntMax /\ (id # -1 => id >= s.id /\ (id = s.id \/ c = s.id))
        /\ c # id
    BY <1>0, <2>1
  <2>4. big \in 1..IntMax /\ big >= c /\ big >= s.biggest BY <1>0, <1>1
  <2>5. above \in 1..IntMax /\ above <= s.above /\ (id > 0 /\ c > id => above <= c)
    BY <1>0, <1>1, <2>3
  <2> HIDE DEF id, big, above
  <2>6. r \in Scans BY <2>2, <2>3, <2>4, <2>5 DEF Scans
  <2>7. r.id = id /\ r.biggest = big /\ r.above = above BY <2>2
  <2>8. Knows(r, c) BY <1>0, <2>1, <2>3, <2>4, <2>5, <2>7 DEF Knows
  <2>9. ASSUME NEW k \in -1..IntMax, Knows(s, k) PROVE Knows(r, k)
    BY <1>0, <1>1, <1>3, <2>1, <2>3, <2>4, <2>5, <2>7, <2>9 DEF Knows
  <2> QED BY <1>3, <2>6, <2>8, <2>9
<1> QED BY <1>2, <1>3

\* What scan[i] of lookup_binding() is made of
ScanStep(f, g, i) ==
  IF i = 0 THEN [id |-> 1, biggest |-> 1, above |-> IntMax]
           ELSE ScanId(g[i - 1], scan_devname(f[i].alias))

\* The recursive function in ScanIds is defined for every file.
LEMMA ScanIdsIs ==
  ASSUME NEW f \in Seq(Lines)
  PROVE  /\ \A i \in 0..Len(f) : ScanIds(f)[i] \in Scans
         /\ \A i \in 1..Len(f) :
              ScanIds(f)[i] = ScanId(ScanIds(f)[i - 1], scan_devname(f[i].alias))
<1> DEFINE start == [id |-> 1, biggest |-> 1, above |-> IntMax]
           step == [i \in 1..Len(f) |-> [s \in Scans |-> ScanId(s, scan_devname(f[i].alias))]]
           F(g) == g = [i \in 0..Len(f) |-> ScanStep(f, g, i)]
<1>0. Len(f) \in Nat /\ IntMax \in Nat \ {0} BY AliasConstants
<1>1. start \in Scans BY <1>0 DEF Scans
<1>2. ASSUME NEW i \in 1..Len(f) PROVE scan_devname(f[i].alias) \in -1..IntMax
  <2>1. f[i] \in Lines OBVIOUS
  <2>2. f[i].alias \in Seq(Int) BY <2>1 DEF Lines
  <2> QED BY <2>2, IdRange
<1>3. ASSUME NEW s \in Scans, NEW i \in 1..Len(f)
      PROVE  ScanId(s, scan_devname(f[i].alias)) \in Scans
  BY <1>2, ScanIdIs
<1>4. \E g : F(g)
  <2>1. step \in [1..Len(f) -> [Scans -> Scans]] BY <1>3
  <2>2. \A i \in 1..Len(f), s \in Scans : step[i][s] = ScanId(s,
  scan_devname(f[i].alias)) OBVIOUS
  <2> HIDE DEF step, F
  <2>3. PICK g : Recursive(g, Len(f), Scans, start, step)
    <3> HIDE DEF start
    <3> QED BY <1>0, <1>1, <2>1, Recursion
  <2>4. ASSUME NEW i \in 0..Len(f) PROVE g[i] = ScanStep(f, g, i)
    <3>1. CASE i = 0 BY <2>3, <3>1 DEF ScanStep, Recursive
    <3>2. CASE i # 0
      <4>1. i \in 1..Len(f) /\ i - 1 \in 0..Len(f) BY <1>0, <3>2
      <4>2. g[i - 1] \in Scans BY <2>3, <4>1 DEF Recursive
      <4> QED BY <2>2, <2>3, <3>2, <4>1, <4>2 DEF ScanStep, Recursive
    <3> QED BY <3>1, <3>2
  <2>5. g = [i \in 0..Len(f) |-> ScanStep(f, g, i)] BY <2>3, <2>4 DEF Recursive
  <2> QED BY <2>5 DEF F
<1>5. F(ScanIds(f))
  <2> DEFINE c == CHOOSE g : F(g)
  <2>1. F(c)
    <3> HIDE DEF F
    <3> QED BY <1>4
  <2>2. ScanIds(f) = c BY DEF ScanIds, ScanStep
  <2> HIDE DEF c
  <2> QED BY <2>1, <2>2
<1>6. PICK g : g = ScanIds(f) OBVIOUS
<1>7. \A i \in 0..Len(f) : g[i] = ScanStep(f, g, i) BY <1>5, <1>6
<1>8. g[0] = start BY <1>0, <1>7 DEF ScanStep
<1>9. ASSUME NEW i \in 1..Len(f) PROVE g[i] = ScanId(g[i - 1], scan_devname(f[i].alias))
  <2>1. i \in 0..Len(f) /\ i # 0 BY <1>0
  <2> QED BY <1>7, <2>1 DEF ScanStep
<1>10. \A i \in 0..Len(f) : g[i] \in Scans
  <2> DEFINE T == {i \in 0..Len(f) : g[i] \in Scans}
  <2>1. 0 \in T BY <1>0, <1>1, <1>8
  <2>2. ASSUME NEW i \in 0..Len(f), i < Len(f), i \in T PROVE i + 1 \in T
    <3>1. i + 1 \in 1..Len(f) /\ i + 1 \in 0..Len(f) /\ (i + 1) - 1 = i BY <1>0, <2>2
    <3>2. g[i + 1] = ScanId(g[i], scan_devname(f[i + 1].alias)) BY <1>9, <3>1
    <3> QED BY <1>3, <2>2, <3>1, <3>2
  <2>3. T \subseteq {i \in 0..Len(f) : g[i] \in Scans} OBVIOUS
  <2> HIDE DEF T
  <2>4. \A i \in 0..Len(f) : i \in T BY <1>0, <2>1, <2>2, UpTo
  <2> QED BY <2>3, <2>4
<1> QED BY <1>6, <1>9, <1>10

\* What lookup_binding() returns is the id of no line, and once the scan has
\* ended at some line it returns none.
LEMMA FreeIdIs ==
  ASSUME NEW f \in Seq(Lines)
  PROVE  /\ free_id(f) \in -1..IntMax
         /\ free_id(f) > 0 => /\ \A i \in 1..Len(f) : scan_devname(f[i].alias) # free_id(f)
                              /\ \A i \in 0..Len(f) : ScanIds(f)[i].id > 0
<1> DEFINE c(i) == scan_devname(f[i].alias)
           g == ScanIds(f)
           Good(i) == /\ \A j \in 1..i : Knows(g[i], c(j))
                      /\ \A j \in 0..i : g[j].id = -1 => g[i].id = -1
           T == {i \in 0..Len(f) : Good(i)}
<1>0. Len(f) \in Nat /\ IntMax \in Nat \ {0} BY AliasConstants
<1>1. ASSUME NEW i \in 1..Len(f) PROVE c(i) \in -1..IntMax
  <2>1. f[i] \in Lines OBVIOUS
  <2>2. f[i].alias \in Seq(Int) BY <2>1 DEF Lines
  <2> QED BY <2>2, IdRange
<1>2. \A i \in 0..Len(f) : g[i] \in Scans BY ScanIdsIs
<1>3. \A i \in 1..Len(f) : g[i] = ScanId(g[i - 1], c(i)) BY ScanIdsIs
<1> HIDE DEF c, g
<1>4. Good(0)
  <2>1. \A j \in 0..0 : j = 0 OBVIOUS
  <2> QED BY <2>1
<1>5. ASSUME NEW i \in 0..Len(f), i < Len(f), Good(i) PROVE Good(i + 1)
  <2>1. i + 1 \in 1..Len(f) /\ (i + 1) - 1 = i BY <1>0, <1>5
  <2>2. PICK s, r, k : s = g[i] /\ r = g[i + 1] /\ k = c(i + 1) OBVIOUS
  <2>3. s \in Scans /\ k \in -1..IntMax /\ r = ScanId(s, k) BY <1>1, <1>2, <1>3, <2>1, <2>2
  <2>4. /\ Knows(r, k) /\ (s.id = -1 => r.id = -1)
        /\ \A l \in -1..IntMax : Knows(s, l) => Knows(r, l)
    BY <2>3, ScanIdIs
  <2>5. ASSUME NEW j \in 1..(i + 1) PROVE Knows(r, c(j))
    <3>1. CASE j = i + 1 BY <2>2, <2>4, <3>1
    <3>2. CASE j # i + 1
      <4>1. j \in 1..i /\ j \in 1..Len(f) BY <1>5, <3>2
      <4> QED BY <1>1, <1>5, <2>2, <2>4, <4>1
    <3> QED BY <3>1, <3>2
  <2>6. ASSUME NEW j \in 0..(i + 1), g[j].id = -1 PROVE r.id = -1
    <3>1. CASE j = i + 1 BY <2>2, <2>6, <3>1
    <3>2. CASE j # i + 1
      <4>1. j \in 0..i BY <3>2
      <4> QED BY <1>5, <2>2, <2>4, <2>6, <4>1
    <3> QED BY <3>1, <3>2
  <2> QED BY <2>2, <2>5, <2>6
<1> HIDE DEF Good
<1>6. 0 \in T BY <1>0, <1>4
<1>7. \A i \in 0..Len(f) : i < Len(f) /\ i \in T => i + 1 \in T BY <1>0, <1>5
<1>8. T \subseteq {i \in 0..Len(f) : Good(i)} OBVIOUS
<1> HIDE DEF T
<1>9. Good(Len(f))
  <2>1. \A i \in 0..Len(f) : i \in T BY <1>0, <1>6, <1>7, UpTo
  <2> QED BY <1>0, <1>8, <2>1
<1>10. PICK s : s = g[Len(f)] OBVIOUS
<1>11. s \in Scans BY <1>0, <1>2, <1>10
<1>12. s.id \in {-1} \cup 1..IntMax /\ s.biggest \in 1..IntMax /\ s.above \in 1..IntMax
  BY <1>11 DEF Scans
<1>13. PICK n : n = free_id(f) OBVIOUS
<1>14. n = IF s.id < 0 \/ s.id < s.above THEN s.id
           ELSE IF s.biggest < IntMax THEN s.biggest + 1 ELSE -1
  BY <1>10, <1>13 DEF free_id, g
<1>15. n \in -1..IntMax BY <1>0, <1>12, <1>14
<1>16. ASSUME n > 0 PROVE s.id # -1
  BY <1>0, <1>12, <1>14, <1>16
<1>17. ASSUME n > 0, NEW i \in 1..Len(f) PROVE c(i) # n
  <2>1. Knows(s, c(i)) BY <1>9, <1>10 DEF Good
  <2>2. (c(i) < s.id \/ s.above <= c(i)) /\ c(i) <= s.biggest BY <1>16, <1>17, <2>1 DEF Knows
  <2>3. c(i) \in -1..IntMax BY <1>1
  <2> QED BY <1>0, <1>12, <1>14, <1>16, <1>17, <2>2, <2>3
<1>18. ASSUME n > 0, NEW i \in 0..Len(f) PROVE g[i].id > 0
  <2>1. g[i].id # -1 BY <1>9, <1>10, <1>16, <1>18 DEF Good
  <2>2. g[i].id \in {-1} \cup 1..IntMax BY <1>2 DEF Scans
  <2> QED BY <1>0, <2>1, <2>2
<1> QED BY <1>13, <1>15, <1>17, <1>18 DEF c, g

(***************************************************************************)
(* Aliases: the inductive invariant                                        *)
(***************************************************************************)
Appending == {"append existing", "append friendly"}
Asking == {"lock existing", "lock friendly", "existing", "friendly"} \cup Appending
Places == {"start", "idle", "lock check", "check", "fix"} \cup Asking

AliasTypeOK ==
  /\ files \in Seq(Seq(Lines)) /\ cur \in 1..Len(files)
  /\ born \in Seq(Nat) /\ Len(born) = Len(files)
  /\ apc \in [Procs -> Places] /\ fd \in [Procs -> 1..Len(files)]
  /\ req \in [Procs -> AWwids \cup {NoLun}]
  /\ kept \in [Procs -> SUBSET Lines] /\ \A p \in Procs : IsFiniteSet(kept[p])
  /\ new_id \in [Procs -> -1..IntMax]
  /\ names_given \subseteq [alias : Seq(Int), wwid : AWwids, file : 1..Len(files)]

\* Who asks for a name asks for that of a LUN.
AsksForLun == \A p \in Procs : apc[p] \in Asking => req[p] \in AWwids

\* Each file is locked by one process at most.
Exclusive == \A p, q \in Procs : p # q /\ Locked(p) /\ Locked(q) => fd[p] # fd[q]

\* Neither the WWID nor the name of a line to be written is in the file.
NotBound(f, wwid, alias) ==
  \A i \in 1..Len(f) : f[i].wwid # wwid /\ (f[i].wwid # NoLun => f[i].alias # alias)
StillFree ==
  \A p \in Procs : apc[p] \in Appending /\ new_id[p] > 0 =>
    NotBound(files[fd[p]], req[p], format_devname[new_id[p]])

AliasInv == AliasTypeOK /\ AsksForLun /\ Exclusive /\ StillFree /\ BindingsUnique

\* What a lookup returns
LEMMA FirstIs ==
  ASSUME NEW I, I \subseteq Nat \ {0}, NEW n, n = IF I # {} THEN Min(I) ELSE 0
  PROVE  (n = 0 => I = {}) /\ (n # 0 => n \in I)
<1>1. CASE I = {} BY <1>1
<1>2. CASE I # {}
  <2> DEFINE M(x) == x \in I /\ \A y \in I : x <= y
             m == CHOOSE x : M(x)
  <2>1. \E x : M(x) BY <1>2, LeastNat
  <2> HIDE DEF M
  <2>2. M(m) BY <2>1
  <2>3. Min(I) = m BY DEF Min, M
  <2> HIDE DEF m
  <2> QED BY <1>2, <2>2, <2>3 DEF M
<1> QED BY <1>1, <1>2

\* lookup_binding() finds a line with the WWID, if there is one.
LEMMA LookupIs ==
  ASSUME NEW f, NEW wwid, NEW n, n = lookup_binding(f, wwid)
  PROVE  /\ n = 0 => \A i \in 1..Len(f) : f[i].wwid # wwid
         /\ n # 0 => n \in 1..Len(f) /\ f[n].wwid = wwid
<1> DEFINE I == {i \in 1..Len(f) : f[i].wwid = wwid}
<1>1. n = IF I # {} THEN Min(I) ELSE 0 BY DEF lookup_binding, SelectInSeq
<1>2. I \subseteq Nat \ {0} OBVIOUS
<1>3. (n = 0 => I = {}) /\ (n # 0 => n \in I)
  <2> HIDE DEF I
  <2> QED BY <1>1, <1>2, FirstIs
<1> QED BY <1>3

\* rlookup_binding() finds a line with the alias, if there is one.
LEMMA RLookupIs ==
  ASSUME NEW f, NEW alias, NEW n, n = rlookup_binding(f, alias)
  PROVE  /\ n = 0 => \A i \in 1..Len(f) : f[i].wwid # NoLun => f[i].alias # alias
         /\ n # 0 => n \in 1..Len(f) /\ f[n].alias = alias /\ f[n].wwid # NoLun
<1> DEFINE I == {i \in 1..Len(f) : f[i].alias = alias /\ f[i].wwid # NoLun}
<1>1. n = IF I # {} THEN Min(I) ELSE 0 BY DEF rlookup_binding, SelectInSeq
<1>2. I \subseteq Nat \ {0} OBVIOUS
<1>3. (n = 0 => I = {}) /\ (n # 0 => n \in I)
  <2> HIDE DEF I
  <2> QED BY <1>1, <1>2, FirstIs
<1> QED BY <1>3

\* A step of one process that leaves the files keeps the invariant, if it gets
\* only a lock that is free, a line only that is free, and a name that is bound.
LEMMA StepOfOne ==
  ASSUME AliasInv, AliasTypeOK', NEW p \in Procs, UNCHANGED <<files, born>>,
         \A q \in Procs \ {p} : /\ apc'[q] = apc[q] /\ fd'[q] = fd[q]
                                /\ req'[q] = req[q] /\ new_id'[q] = new_id[q],
         apc'[p] \in Asking => req'[p] \in AWwids,
         Locked(p)' => \A q \in Procs \ {p} : Locked(q) => fd[q] # fd'[p],
         apc'[p] \in Appending /\ new_id'[p] > 0 =>
           NotBound(files[fd'[p]], req'[p], format_devname[new_id'[p]]),
         \A g \in names_given' : g \in names_given \/
           \E i \in 1..Len(files[g.file]) : files[g.file][i] = [alias |-> g.alias, wwid |-> g.wwid]
  PROVE  AliasInv'
<1>1. AsksForLun' BY DEF AliasInv, AsksForLun
<1>2. Exclusive'
  <2> SUFFICES ASSUME NEW q \in Procs, NEW r \in Procs, q # r, Locked(q)', Locked(r)'
               PROVE  fd'[q] # fd'[r]
    BY DEF Exclusive
  <2>1. \A s \in Procs \ {p} : Locked(s)' <=> Locked(s) BY DEF Locked
  <2>2. CASE q # p /\ r # p BY <2>1, <2>2 DEF AliasInv, Exclusive
  <2>3. CASE q = p \/ r = p BY <2>1, <2>3
  <2> QED BY <2>2, <2>3
<1>3. StillFree'
  <2> SUFFICES ASSUME NEW q \in Procs, apc'[q] \in Appending, new_id'[q] > 0
               PROVE  NotBound(files[fd'[q]], req'[q], format_devname[new_id'[q]])
    BY DEF StillFree, NotBound
  <2>1. CASE q = p BY <2>1
  <2>2. CASE q # p BY <2>2 DEF AliasInv, StillFree
  <2> QED BY <2>1, <2>2
<1>4. BindingsUnique'
  <2> DEFINE Bound(g) == \E i \in 1..Len(files[g.file]) :
                           files[g.file][i] = [alias |-> g.alias, wwid |-> g.wwid]
  <2>1. BindingsUnique BY DEF AliasInv
  <2>2. \A g \in names_given : Bound(g) BY <2>1 DEF BindingsUnique
  <2>3. \A g \in names_given' : g \in names_given \/ Bound(g) OBVIOUS
  <2> HIDE DEF Bound
  <2>4. \A g \in names_given' : Bound(g) BY <2>2, <2>3
  <2> USE DEF Bound
  <2>5. files' = files /\ born' = born OBVIOUS
  <2> QED BY ONLY <2>1, <2>4, <2>5 DEF BindingsUnique
<1> QED BY <1>1, <1>2, <1>3, <1>4 DEF AliasInv

\* A process that gets the lock gets it alone.
LEMMA LockFileKeeps ==
  ASSUME AliasInv, NEW p \in Procs, lock_file(p)
  PROVE  AliasInv'
<1>1. /\ apc[p] \in {"lock check", "lock existing", "lock friendly"}
      /\ apc' = [apc EXCEPT ![p] = IF apc[p] = "lock check" THEN "check"
                                   ELSE IF apc[p] = "lock existing" THEN "existing" ELSE "friendly"]
  BY DEF lock_file
<1>2. UNCHANGED <<files, born, cur, fd, req, kept, new_id, names_given>> /\ LockFree(p)
  BY DEF lock_file
<1>3. apc \in [Procs -> Places] BY DEF AliasInv, AliasTypeOK
<1>4. AliasTypeOK' BY <1>1, <1>2, <1>3 DEF AliasInv, AliasTypeOK, Places, Asking
<1>5. \A q \in Procs \ {p} : apc'[q] = apc[q] BY <1>1, <1>3
<1>6. apc'[p] \in {"check", "existing", "friendly"} BY <1>1, <1>3
<1>7. apc'[p] \notin Appending BY <1>6 DEF Appending
<1>8. apc'[p] \in Asking => req'[p] \in AWwids
  BY <1>1, <1>2, <1>3 DEF AliasInv, AsksForLun, Asking, Appending
<1>9. \A q \in Procs \ {p} : Locked(q) => fd[q] # fd'[p] BY <1>2 DEF LockFree
<1> QED BY <1>2, <1>4, <1>5, <1>7, <1>8, <1>9, StepOfOne

\* A process that gives up waiting does without the file, or opens it for the next try.
LEMMA LockTimeoutKeeps ==
  ASSUME AliasInv, NEW p \in Procs, lock_timeout(p)
  PROVE  AliasInv'
<1>1. /\ apc[p] \in {"lock check", "lock existing", "lock friendly"}
      /\ apc' = [apc EXCEPT ![p] = IF apc[p] = "lock existing" THEN "lock friendly" ELSE "idle"]
      /\ fd' = fd \/ fd' = [fd EXCEPT ![p] = cur]
  BY DEF lock_timeout, open_file
<1>2. UNCHANGED <<files, born, cur, req, kept, new_id, names_given>>
  BY DEF lock_timeout
<1>3. apc \in [Procs -> Places] /\ fd \in [Procs -> 1..Len(files)] /\ cur \in 1..Len(files)
  BY DEF AliasInv, AliasTypeOK
<1>4. AliasTypeOK'
  BY <1>1, <1>2, <1>3 DEF AliasInv, AliasTypeOK, Places, Asking
<1>5. \A q \in Procs \ {p} : apc'[q] = apc[q] /\ fd'[q] = fd[q] BY <1>1, <1>3
<1>6. apc'[p] \in {"lock friendly", "idle"} BY <1>1, <1>3
<1>7. apc'[p] \notin Appending /\ ~Locked(p)' BY <1>6 DEF Appending, Locked
<1>8. apc'[p] \in Asking => req'[p] \in AWwids
  BY <1>1, <1>2, <1>3 DEF AliasInv, AsksForLun, Asking, Appending
<1> QED BY <1>2, <1>4, <1>5, <1>7, <1>8, StepOfOne

\* A process that dies loses the lock.
LEMMA KilledKeeps ==
  ASSUME AliasInv, NEW p \in Procs, Killed(p)
  PROVE  AliasInv'
<1>1. /\ apc' = [apc EXCEPT ![p] = "start"] /\ req' = [req EXCEPT ![p] = NoLun]
      /\ kept' = [kept EXCEPT ![p] = {}] /\ new_id' = [new_id EXCEPT ![p] = 0]
      /\ UNCHANGED <<files, born, cur, fd, names_given>>
  BY DEF Killed
<1>2. /\ apc \in [Procs -> Places] /\ req \in [Procs -> AWwids \cup {NoLun}]
      /\ kept \in [Procs -> SUBSET Lines] /\ \A q \in Procs : IsFiniteSet(kept[q])
      /\ new_id \in [Procs -> -1..IntMax]
  BY DEF AliasInv, AliasTypeOK
<1>3. "start" \in Places /\ 0 \in -1..IntMax BY AliasConstants DEF Places
<1>4. \A q \in Procs : IsFiniteSet(kept'[q]) BY <1>1, <1>2, FS_EmptySet
<1>5. AliasTypeOK' BY <1>1, <1>2, <1>3, <1>4 DEF AliasInv, AliasTypeOK
<1>6. apc'[p] = "start" BY <1>1, <1>2
<1>7. apc'[p] \notin Asking /\ apc'[p] \notin Appending /\ ~Locked(p)'
  BY <1>6 DEF Asking, Appending, Locked
<1>8. \A q \in Procs \ {p} : apc'[q] = apc[q] /\ req'[q] = req[q] /\ new_id'[q] = new_id[q]
  BY <1>1, <1>2
<1> QED BY <1>1, <1>5, <1>7, <1>8, StepOfOne

\* check_alias_settings() opens the file.
LEMMA CheckAliasSettingsKeeps ==
  ASSUME AliasInv, NEW p \in Procs, check_alias_settings(p)
  PROVE  AliasInv'
<1>1. /\ fd' = [fd EXCEPT ![p] = cur] /\ apc' = [apc EXCEPT ![p] = "lock check"]
      /\ UNCHANGED <<files, born, cur, req, kept, new_id, names_given>>
  BY DEF check_alias_settings, open_file
<1>2. apc \in [Procs -> Places] /\ fd \in [Procs -> 1..Len(files)] /\ cur \in 1..Len(files)
  BY DEF AliasInv, AliasTypeOK
<1>3. AliasTypeOK' BY <1>1, <1>2 DEF AliasInv, AliasTypeOK, Places
<1>4. apc'[p] = "lock check" BY <1>1, <1>2
<1>5. apc'[p] \notin Asking /\ apc'[p] \notin Appending /\ ~Locked(p)'
  BY <1>4 DEF Asking, Appending, Locked
<1>6. \A q \in Procs \ {p} : apc'[q] = apc[q] /\ fd'[q] = fd[q] BY <1>1, <1>2
<1> QED BY <1>1, <1>3, <1>5, <1>6, StepOfOne

\* The lines of a file are finitely many.
LEMMA LinesFinite ==
  ASSUME NEW f \in Seq(Lines), NEW I, I \subseteq DOMAIN f
  PROVE  add_bindings(f, I) \subseteq Lines /\ IsFiniteSet(add_bindings(f, I))
<1> DEFINE R == {f[i] : i \in DOMAIN f}
<1>1. f \in Seq(R) /\ \A x \in R : \E n \in 1..Len(f) : f[n] = x OBVIOUS
<1>2. IsFiniteSet(R)
  <2> HIDE DEF R
  <2> QED BY <1>1 DEF IsFiniteSet
<1>3. add_bindings(f, I) \subseteq R BY DEF add_bindings
<1>4. R \subseteq Lines OBVIOUS
<1> HIDE DEF R
<1> QED BY <1>2, <1>3, <1>4, FS_Subset

\* A corrected file takes the name of the one that was read.
LEMMA CheckBindingsKeeps ==
  ASSUME AliasInv, NEW p \in Procs, _check_bindings_file(p)
  PROVE  AliasInv'
<1> DEFINE K == IF Conflict(p) THEN Consistent(p) ELSE {}
           pc == IF Conflict(p) THEN "fix" ELSE "idle"
<1>1. /\ kept' = [kept EXCEPT ![p] = K] /\ apc' = [apc EXCEPT ![p] = pc]
      /\ UNCHANGED <<files, born, cur, fd, req, new_id, names_given>>
  BY DEF _check_bindings_file
<1>2. /\ apc \in [Procs -> Places] /\ kept \in [Procs -> SUBSET Lines]
      /\ \A q \in Procs : IsFiniteSet(kept[q])
      /\ files \in Seq(Seq(Lines)) /\ fd[p] \in 1..Len(files)
  BY DEF AliasInv, AliasTypeOK
<1>3. K \subseteq Lines /\ IsFiniteSet(K)
  <2>1. files[fd[p]] \in Seq(Lines) BY <1>2
  <2>2. Consistent(p) \subseteq Lines /\ IsFiniteSet(Consistent(p))
    BY <2>1, LinesFinite DEF Consistent
  <2> QED BY <2>2, FS_EmptySet
<1>4. pc \in {"fix", "idle"} OBVIOUS
<1> HIDE DEF K, pc
<1>5. \A q \in Procs : IsFiniteSet(kept'[q]) BY <1>1, <1>2, <1>3
<1>6. AliasTypeOK' BY <1>1, <1>2, <1>3, <1>4, <1>5 DEF AliasInv, AliasTypeOK, Places
<1>7. apc'[p] \in {"fix", "idle"} BY <1>1, <1>2, <1>4
<1>8. apc'[p] \notin Asking /\ apc'[p] \notin Appending /\ ~Locked(p)'
  BY <1>7 DEF Asking, Appending, Locked
<1>9. \A q \in Procs \ {p} : apc'[q] = apc[q] BY <1>1, <1>2
<1> QED BY <1>1, <1>6, <1>8, <1>9, StepOfOne

\* select_alias() opens the file that has the name then.
LEMMA SelectAliasKeeps ==
  ASSUME AliasInv, NEW p \in Procs, NEW w \in AWwids, select_alias(p, w)
  PROVE  AliasInv'
<1>1. /\ apc[p] = "idle" /\ req' = [req EXCEPT ![p] = w]
      /\ UNCHANGED <<files, born, cur, kept, new_id, names_given>>
      /\ \/ UNCHANGED <<apc, fd>>
         \/ /\ fd' = [fd EXCEPT ![p] = cur]
            /\ \E pc \in {"lock existing", "lock friendly"} : apc' = [apc EXCEPT ![p] = pc]
  BY DEF select_alias, open_file
<1>2. /\ apc \in [Procs -> Places] /\ fd \in [Procs -> 1..Len(files)] /\ cur \in 1..Len(files)
      /\ req \in [Procs -> AWwids \cup {NoLun}]
  BY DEF AliasInv, AliasTypeOK
<1>3. AliasTypeOK' BY <1>1, <1>2 DEF AliasInv, AliasTypeOK, Places, Asking
<1>4. apc'[p] \in {"idle", "lock existing", "lock friendly"} BY <1>1, <1>2
<1>5. apc'[p] \notin Appending /\ ~Locked(p)' BY <1>4 DEF Appending, Locked
<1>6. req'[p] \in AWwids BY <1>1, <1>2
<1>7. \A q \in Procs \ {p} : apc'[q] = apc[q] /\ fd'[q] = fd[q] /\ req'[q] = req[q]
  BY <1>1, <1>2
<1> QED BY <1>1, <1>3, <1>5, <1>6, <1>7, StepOfOne

\* A name that a line of the locked file has is given.
LEMMA GiveKeeps ==
  ASSUME AliasInv, NEW p \in Procs, apc[p] \in {"existing", "friendly"},
         NEW alias, GiveAlias(p, alias), NEW i \in 1..Len(files[fd[p]]),
         files[fd[p]][i].alias = alias, files[fd[p]][i].wwid = req[p],
         Done(p), UNCHANGED <<files, born, cur, req, kept, new_id>>
  PROVE  AliasInv'
<1>1. /\ apc' = [apc EXCEPT ![p] = "idle"] /\ fd' = fd
      /\ names_given' = names_given \cup {[alias |-> alias, wwid |-> req[p], file |-> fd[p]]}
  BY DEF Done, GiveAlias
<1>2. /\ apc \in [Procs -> Places] /\ files \in Seq(Seq(Lines)) /\ fd[p] \in 1..Len(files)
      /\ req[p] \in AWwids
  BY DEF AliasInv, AliasTypeOK, AsksForLun, Asking
<1>3. PICK l : l = files[fd[p]][i] OBVIOUS
<1>4. l \in Lines /\ l.alias = alias /\ l.wwid = req[p]
  <2>1. files[fd[p]] \in Seq(Lines) BY <1>2
  <2>2. files[fd[p]][i] \in Lines BY <2>1
  <2> QED BY <1>3, <2>2
<1>5. alias \in Seq(Int) /\ l = [alias |-> alias, wwid |-> req[p]] BY <1>4 DEF Lines
<1>6. [alias |-> alias, wwid |-> req[p], file |-> fd[p]]
        \in [alias : Seq(Int), wwid : AWwids, file : 1..Len(files)]
  BY <1>2, <1>5
<1>7. AliasTypeOK' BY <1>1, <1>2, <1>6 DEF AliasInv, AliasTypeOK, Places
<1>8. apc'[p] = "idle" BY <1>1, <1>2
<1>9. apc'[p] \notin Asking /\ apc'[p] \notin Appending /\ ~Locked(p)'
  BY <1>8 DEF Asking, Appending, Locked
<1>10. \A q \in Procs \ {p} : apc'[q] = apc[q] BY <1>1, <1>2
<1>11. ASSUME NEW g \in names_given'
       PROVE  g \in names_given \/
                \E j \in 1..Len(files[g.file]) :
                  files[g.file][j] = [alias |-> g.alias, wwid |-> g.wwid]
  <2>1. CASE g \in names_given BY <2>1
  <2>2. CASE g = [alias |-> alias, wwid |-> req[p], file |-> fd[p]]
    <3>1. g.alias = alias /\ g.wwid = req[p] /\ g.file = fd[p] BY <2>2
    <3> QED BY <1>3, <1>5, <3>1
  <2> QED BY <1>1, <2>1, <2>2
<1> QED BY <1>1, <1>7, <1>9, <1>10, <1>11, StepOfOne

\* A search has ended: the line that is wanted is still free.
LEMMA WantsKeeps ==
  ASSUME AliasInv, NEW p \in Procs, apc[p] \in {"existing", "friendly"},
         NEW id \in -1..IntMax, NEW pc \in Appending, Wants(p, id, pc),
         id > 0 => NotBound(files[fd[p]], req[p], format_devname[id]),
         UNCHANGED <<files, born, cur, req, kept>>
  PROVE  AliasInv'
<1>1. /\ apc' = [apc EXCEPT ![p] = pc] /\ new_id' = [new_id EXCEPT ![p] = id]
      /\ UNCHANGED <<fd, names_given>>
  BY DEF Wants
<1>2. apc \in [Procs -> Places] /\ new_id \in [Procs -> -1..IntMax]
  BY DEF AliasInv, AliasTypeOK
<1>3. AliasTypeOK' BY <1>1, <1>2 DEF AliasInv, AliasTypeOK, Places, Asking
<1>4. req'[p] \in AWwids BY DEF AliasInv, AsksForLun, Asking
<1>5. \A q \in Procs \ {p} : apc'[q] = apc[q] /\ new_id'[q] = new_id[q] BY <1>1, <1>2
<1>6. new_id'[p] = id BY <1>1, <1>2
<1>7. \A q \in Procs \ {p} : Locked(q) => fd[q] # fd'[p]
  <2>1. Locked(p) BY DEF Locked
  <2> QED BY <1>1, <2>1 DEF AliasInv, Exclusive
<1> QED BY <1>1, <1>3, <1>4, <1>5, <1>6, <1>7, StepOfOne

\* use_existing_alias() takes over the name of the initramfs, if nobody has it.
LEMMA UseExistingAliasKeeps ==
  ASSUME AliasInv, NEW p \in Procs, use_existing_alias(p)
  PROVE  AliasInv'
<1> DEFINE f == files[fd[p]]
           old == KernelNames[req[p]]
           owner == rlookup_binding(f, old)
           bound == lookup_binding(f, req[p])
<1>1. /\ apc[p] = "existing" /\ UNCHANGED <<files, born, cur, req, kept>>
      /\ \/ owner # 0 /\ f[owner].wwid = req[p] /\ GiveAlias(p, old) /\ Done(p) /\ UNCHANGED new_id
         \/ open_file(p, "lock friendly") /\ UNCHANGED <<names_given, new_id>>
         \/ bound # 0 /\ GiveAlias(p, f[bound].alias) /\ Done(p) /\ UNCHANGED new_id
         \/ owner = 0 /\ bound = 0 /\ Wants(p, scan_devname(old), "append existing")
  BY DEF use_existing_alias
<1>2. /\ apc \in [Procs -> Places] /\ fd \in [Procs -> 1..Len(files)] /\ cur \in 1..Len(files)
      /\ req[p] \in AWwids
  BY <1>1 DEF AliasInv, AliasTypeOK, AsksForLun, Asking
<1>3. old \in Seq(Int) BY <1>2, AliasConstants
<1>4. /\ owner = 0 => \A i \in 1..Len(f) : f[i].wwid # NoLun => f[i].alias # old
      /\ owner # 0 => owner \in 1..Len(f) /\ f[owner].alias = old
  BY RLookupIs
<1>5. /\ bound = 0 => \A i \in 1..Len(f) : f[i].wwid # req[p]
      /\ bound # 0 => bound \in 1..Len(f) /\ f[bound].wwid = req[p]
  BY LookupIs
<1> HIDE DEF old, owner, bound
<1>6. CASE owner # 0 /\ f[owner].wwid = req[p] /\ GiveAlias(p, old) /\ Done(p) /\ UNCHANGED new_id
  <2>1. owner \in 1..Len(files[fd[p]]) /\ files[fd[p]][owner].alias = old
        /\ files[fd[p]][owner].wwid = req[p]
    BY <1>4, <1>6
  <2> HIDE DEF f
  <2> QED BY <1>1, <1>6, <2>1, GiveKeeps
<1>7. CASE open_file(p, "lock friendly") /\ UNCHANGED <<names_given, new_id>>
  <2>1. fd' = [fd EXCEPT ![p] = cur] /\ apc' = [apc EXCEPT ![p] = "lock friendly"]
    BY <1>7 DEF open_file
  <2>2. AliasTypeOK' BY <1>1, <1>2, <1>7, <2>1 DEF AliasInv, AliasTypeOK, Places, Asking
  <2>3. apc'[p] = "lock friendly" BY <1>2, <2>1
  <2>4. apc'[p] \notin Appending /\ ~Locked(p)' BY <2>3 DEF Appending, Locked
  <2>5. \A q \in Procs \ {p} : apc'[q] = apc[q] /\ fd'[q] = fd[q] BY <1>2, <2>1
  <2> QED BY <1>1, <1>2, <1>7, <2>2, <2>4, <2>5, StepOfOne
<1>8. CASE bound # 0 /\ GiveAlias(p, f[bound].alias) /\ Done(p) /\ UNCHANGED new_id
  <2>1. PICK alias : alias = f[bound].alias OBVIOUS
  <2>2. /\ bound \in 1..Len(files[fd[p]]) /\ files[fd[p]][bound].alias = alias
        /\ files[fd[p]][bound].wwid = req[p] /\ GiveAlias(p, alias)
    BY <1>5, <1>8, <2>1
  <2> HIDE DEF f
  <2> QED BY <1>1, <1>8, <2>2, GiveKeeps
<1>9. CASE owner = 0 /\ bound = 0 /\ Wants(p, scan_devname(old), "append existing")
  <2>1. PICK id : id = scan_devname(old) OBVIOUS
  <2>2. id \in -1..IntMax BY <1>3, <2>1, IdRange
  <2>3. id > 0 => format_devname[id] = old BY <1>3, <2>1, FormatScan
  <2>4. id > 0 => NotBound(files[fd[p]], req[p], format_devname[id])
    BY <1>4, <1>5, <1>9, <2>3 DEF NotBound
  <2>5. Wants(p, id, "append existing") /\ "append existing" \in Appending
    BY <1>9, <2>1 DEF Appending
  <2> QED BY <1>1, <2>2, <2>4, <2>5, WantsKeeps
<1> QED BY <1>1, <1>6, <1>7, <1>8, <1>9

\* get_user_friendly_alias() gives a new name only if it is free.
LEMMA GetUserFriendlyAliasKeeps ==
  ASSUME AliasInv, NEW p \in Procs, get_user_friendly_alias(p)
  PROVE  AliasInv'
<1> DEFINE f == files[fd[p]]
           n == lookup_binding(f, req[p])
           bound == n # 0 /\ ScanIds(f)[n].id > 0
<1>1. /\ apc[p] = "friendly" /\ UNCHANGED <<files, born, cur, req, kept>>
      /\ \/ bound /\ GiveAlias(p, f[n].alias) /\ Done(p) /\ UNCHANGED new_id
         \/ ~bound /\ Wants(p, free_id(f), "append friendly")
  BY DEF get_user_friendly_alias
<1>2. f \in Seq(Lines)
  <2>1. files \in Seq(Seq(Lines)) /\ fd[p] \in 1..Len(files) BY DEF AliasInv, AliasTypeOK
  <2> QED BY <2>1
<1>3. /\ n = 0 => \A i \in 1..Len(f) : f[i].wwid # req[p]
      /\ n # 0 => n \in 1..Len(f) /\ f[n].wwid = req[p]
  BY LookupIs
<1> HIDE DEF n
<1>4. CASE bound /\ GiveAlias(p, f[n].alias) /\ Done(p) /\ UNCHANGED new_id
  <2>1. PICK alias : alias = f[n].alias OBVIOUS
  <2>2. /\ n \in 1..Len(files[fd[p]]) /\ files[fd[p]][n].alias = alias
        /\ files[fd[p]][n].wwid = req[p] /\ GiveAlias(p, alias)
    BY <1>3, <1>4, <2>1
  <2> HIDE DEF f, bound
  <2> QED BY <1>1, <1>4, <2>2, GiveKeeps
<1>5. CASE ~bound /\ Wants(p, free_id(f), "append friendly")
  <2>1. PICK id : id = free_id(f) OBVIOUS
  <2>2. /\ id \in -1..IntMax
        /\ id > 0 => /\ \A i \in 1..Len(f) : scan_devname(f[i].alias) # id
                     /\ \A i \in 0..Len(f) : ScanIds(f)[i].id > 0
    BY <1>2, <2>1, FreeIdIs
  <2>3. ASSUME id > 0 PROVE NotBound(f, req[p], format_devname[id])
    <3>1. Len(f) \in Nat BY <1>2
    <3>2. n = 0
      <4>1. n # 0 => n \in 0..Len(f) BY <1>3, <3>1
      <4> QED BY <1>5, <2>2, <2>3, <4>1
    <3>3. scan_devname(format_devname[id]) = id
      <4>1. id \in 1..IntMax BY <2>2, <2>3, AliasConstants
      <4> QED BY <4>1, ScanFormat
    <3>4. \A i \in 1..Len(f) : f[i].alias # format_devname[id] BY <2>2, <2>3, <3>3
    <3> QED BY <1>3, <3>2, <3>4 DEF NotBound
  <2>4. Wants(p, id, "append friendly") /\ "append friendly" \in Appending
    BY <1>5, <2>1 DEF Appending
  <2> HIDE DEF bound
  <2> QED BY <1>1, <2>2, <2>3, <2>4, WantsKeeps
<1> QED BY <1>1, <1>4, <1>5

\* The corrected file is a new one, which no process has open.
LEMMA FixBindingsKeeps ==
  ASSUME AliasInv, NEW p \in Procs, fix_bindings_file(p)
  PROVE  AliasInv'
<1>1. /\ apc' = [apc EXCEPT ![p] = "idle"] /\ kept' = [kept EXCEPT ![p] = {}]
      /\ UNCHANGED <<fd, req, new_id, names_given>>
  BY DEF fix_bindings_file
<1>2. /\ apc \in [Procs -> Places] /\ files \in Seq(Seq(Lines)) /\ born \in Seq(Nat)
      /\ Len(born) = Len(files) /\ Len(files) \in Nat
      /\ kept \in [Procs -> SUBSET Lines] /\ IsFiniteSet(kept[p])
      /\ \A q \in Procs : IsFiniteSet(kept[q])
  BY DEF AliasInv, AliasTypeOK
<1>3. apc'[p] = "idle" /\ \A q \in Procs \ {p} : apc'[q] = apc[q] BY <1>1, <1>2
<1>4. apc'[p] \notin Asking /\ apc'[p] \notin Appending /\ ~Locked(p)'
  BY <1>3 DEF Asking, Appending, Locked
<1>5. \A q \in Procs : IsFiniteSet(kept'[q]) BY <1>1, <1>2, FS_EmptySet
<1>6. CASE UNCHANGED <<files, born, cur>>
  <2>1. AliasTypeOK' BY <1>1, <1>2, <1>5, <1>6 DEF AliasInv, AliasTypeOK, Places
  <2> QED BY <1>1, <1>3, <1>4, <1>6, <2>1, StepOfOne
<1>7. ASSUME NEW f \in [1..Cardinality(kept[p]) -> kept[p]], files' = Append(files, f),
             born' = Append(born, Cardinality(kept[p])), cur' = Len(files')
      PROVE  AliasInv'
  <2>1. PICK n \in Nat : n = Cardinality(kept[p]) BY <1>2, FS_CardinalityType
  <2>2. f \in Seq(Lines) /\ Len(f) = n
    <3>1. f \in [1..n -> Lines] BY <1>2, <2>1
    <3> QED BY <3>1
  <2>3. PICK z \in Nat : z = Len(files) BY <1>2
  <2>4. /\ files' \in Seq(Seq(Lines)) /\ Len(files') = z + 1 /\ files'[z + 1] = f
        /\ \A i \in 1..z : files'[i] = files[i]
    BY <1>2, <1>7, <2>2, <2>3
  <2>5. /\ born' \in Seq(Nat) /\ Len(born') = z + 1 /\ born'[z + 1] = n
        /\ \A i \in 1..z : born'[i] = born[i]
    BY <1>2, <1>7, <2>1, <2>3
  <2>6. 1..z \subseteq 1..(z + 1) /\ cur' \in 1..(z + 1) BY <1>7, <2>4
  <2>7. fd \in [Procs -> 1..z]
        /\ names_given \subseteq [alias : Seq(Int), wwid : AWwids, file : 1..z]
    BY <2>3 DEF AliasInv, AliasTypeOK
  <2>8. AliasTypeOK'
    <3>1. fd' \in [Procs -> 1..Len(files')] BY <1>1, <2>4, <2>6, <2>7
    <3>2. names_given' \subseteq [alias : Seq(Int), wwid : AWwids, file : 1..Len(files')]
      <4>1. [alias : Seq(Int), wwid : AWwids, file : 1..z]
              \subseteq [alias : Seq(Int), wwid : AWwids, file : 1..(z + 1)]
        BY <2>6
      <4> QED BY <1>1, <2>4, <2>7, <4>1
    <3>3. apc' \in [Procs -> Places] BY <1>1, <1>2 DEF Places
    <3>4. kept' \in [Procs -> SUBSET Lines] BY <1>1, <1>2
    <3> QED BY <1>1, <1>5, <2>4, <2>5, <2>6, <3>1, <3>2, <3>3, <3>4 DEF AliasInv, AliasTypeOK
  <2>9. AsksForLun'
    BY <1>1, <1>3, <1>4 DEF AliasInv, AsksForLun
  <2>10. Exclusive'
    <3>1. \A q \in Procs : Locked(q)' => Locked(q) BY <1>3, <1>4 DEF Locked
    <3> QED BY <1>1, <3>1 DEF AliasInv, Exclusive
  <2>11. StillFree'
    <3> SUFFICES ASSUME NEW q \in Procs, apc'[q] \in Appending, new_id'[q] > 0
                 PROVE  NotBound(files'[fd'[q]], req'[q], format_devname[new_id'[q]])
      BY DEF StillFree, NotBound
    <3>1. apc[q] \in Appending /\ new_id[q] > 0 BY <1>1, <1>3, <1>4
    <3>2. NotBound(files[fd[q]], req[q], format_devname[new_id[q]])
      BY <3>1 DEF AliasInv, StillFree
    <3>3. files'[fd[q]] = files[fd[q]] BY <2>4, <2>7
    <3> QED BY <1>1, <3>2, <3>3
  <2>12. BindingsUnique'
    <3>1. ASSUME NEW g \in names_given'
          PROVE  \E i \in 1..Len(files'[g.file]) :
                   files'[g.file][i] = [alias |-> g.alias, wwid |-> g.wwid]
      <4>1. g \in names_given /\ g.file \in 1..z BY <1>1, <2>7
      <4>2. files'[g.file] = files[g.file] BY <2>4, <4>1
      <4> QED BY <4>1, <4>2 DEF AliasInv, BindingsUnique
    <3>2. ASSUME NEW k \in 1..Len(files'), NEW j \in (born'[k] + 1)..Len(files'[k]),
                 NEW i \in 1..(j - 1)
          PROVE  /\ files'[k][i].wwid # files'[k][j].wwid
                 /\ files'[k][i].wwid # NoLun => files'[k][i].alias # files'[k][j].alias
      <4>1. k # z + 1
        <5> SUFFICES ASSUME k = z + 1 PROVE FALSE OBVIOUS
        <5>1. j \in (n + 1)..n BY <2>2, <2>4, <2>5
        <5> QED BY <2>1, <5>1
      <4>2. k \in 1..z BY <2>3, <2>4, <4>1
      <4>3. files'[k] = files[k] /\ born'[k] = born[k] BY <2>4, <2>5, <4>2
      <4>4. k \in 1..Len(files) BY <2>3, <4>2
      <4> QED BY <4>3, <4>4 DEF AliasInv, BindingsUnique
    <3> QED BY <3>1, <3>2 DEF BindingsUnique
  <2> QED BY <2>8, <2>9, <2>10, <2>11, <2>12 DEF AliasInv
<1> QED BY <1>6, <1>7 DEF fix_bindings_file

\* The line is written with the lock still held.
LEMMA AllocateBindingKeeps ==
  ASSUME AliasInv, NEW p \in Procs, allocate_binding(p)
  PROVE  AliasInv'
<1> DEFINE n == fd[p]
           alias == format_devname[new_id[p]]
           l == [alias |-> alias, wwid |-> req[p]]
<1>1. /\ apc[p] \in Appending /\ new_id' = [new_id EXCEPT ![p] = 0]
      /\ UNCHANGED <<born, cur, amp, req, kept>>
  BY DEF allocate_binding, Appending
<1>2. /\ apc \in [Procs -> Places] /\ files \in Seq(Seq(Lines)) /\ n \in 1..Len(files)
      /\ fd \in [Procs -> 1..Len(files)] /\ cur \in 1..Len(files) /\ req[p] \in AWwids
      /\ Len(born) = Len(files) /\ new_id \in [Procs -> -1..IntMax] /\ 0 \in -1..IntMax
  <2>1. req[p] \in AWwids BY <1>1 DEF AliasInv, AsksForLun, Asking
  <2>2. 0 \in -1..IntMax BY AliasConstants
  <2> QED BY <2>1, <2>2 DEF AliasInv, AliasTypeOK
<1>3. new_id'[p] = 0 /\ \A q \in Procs \ {p} : new_id'[q] = new_id[q] BY <1>1, <1>2
<1>4. new_id' \in [Procs -> -1..IntMax] BY <1>1, <1>2
<1>5. ASSUME new_id[p] > 0, files' = [files EXCEPT ![n] = Append(@, l)],
             GiveAlias(p, alias), Done(p)
      PROVE  AliasInv'
  <2>1. /\ apc' = [apc EXCEPT ![p] = "idle"] /\ fd' = fd
        /\ names_given' = names_given \cup {[alias |-> alias, wwid |-> req[p], file |-> n]}
    BY <1>5 DEF Done, GiveAlias
  <2>2. apc'[p] = "idle" /\ \A q \in Procs \ {p} : apc'[q] = apc[q] BY <1>2, <2>1
  <2>3. apc'[p] \notin Asking /\ apc'[p] \notin Appending /\ ~Locked(p)'
    BY <2>2 DEF Asking, Appending, Locked
  <2>4. new_id[p] \in 1..IntMax BY <1>2, <1>5, AliasConstants
  <2>5. alias \in Seq(Int) BY <2>4, ScanFormat
  <2>6. NotBound(files[n], req[p], alias) BY <1>1, <1>5 DEF AliasInv, StillFree
  <2> HIDE DEF alias
  <2>7. l \in Lines BY <1>2, <2>5 DEF Lines
  <2>8. PICK old, new : old = files[n] /\ new = Append(old, l) OBVIOUS
  <2>9. old \in Seq(Lines) /\ Len(old) \in Nat BY <1>2, <2>8
  <2>10. /\ new \in Seq(Lines) /\ Len(new) = Len(old) + 1 /\ new[Len(old) + 1] = l
         /\ \A i \in 1..Len(old) : new[i] = old[i]
    <3> HIDE DEF l
    <3> QED BY <2>7, <2>8, <2>9
  <2>11. /\ files' \in Seq(Seq(Lines)) /\ Len(files') = Len(files) /\ files'[n] = new
         /\ \A k \in 1..Len(files) : k # n => files'[k] = files[k]
    <3> HIDE DEF l
    <3> QED BY <1>2, <1>5, <2>8, <2>10
  <2>12. AliasTypeOK'
    <3>1. [alias |-> alias, wwid |-> req[p], file |-> n]
            \in [alias : Seq(Int), wwid : AWwids, file : 1..Len(files)]
      BY <1>2, <2>5
    <3>2. apc' \in [Procs -> Places] BY <1>2, <2>1 DEF Places
    <3>3. names_given' \subseteq [alias : Seq(Int), wwid : AWwids, file : 1..Len(files)]
      BY <2>1, <3>1 DEF AliasInv, AliasTypeOK
    <3> QED BY <1>1, <1>4, <2>1, <2>11, <3>2, <3>3 DEF AliasInv, AliasTypeOK
  <2>13. AsksForLun' BY <1>1, <2>2, <2>3 DEF AliasInv, AsksForLun
  <2>14. Exclusive'
    <3>1. \A q \in Procs : Locked(q)' => Locked(q) BY <2>2, <2>3 DEF Locked
    <3> QED BY <2>1, <3>1 DEF AliasInv, Exclusive
  <2>15. StillFree'
    <3> SUFFICES ASSUME NEW q \in Procs, apc'[q] \in Appending, new_id'[q] > 0
                 PROVE  NotBound(files'[fd'[q]], req'[q], format_devname[new_id'[q]])
      BY DEF StillFree, NotBound
    <3>1. q # p /\ apc[q] \in Appending /\ new_id[q] > 0 BY <1>3, <2>2, <2>3
    <3>2. NotBound(files[fd[q]], req[q], format_devname[new_id[q]])
      BY <3>1 DEF AliasInv, StillFree
    <3>3. fd[q] # n
      <4>1. Locked(p) /\ Locked(q) BY <1>1, <3>1 DEF Locked, Appending
      <4> QED BY <3>1, <4>1 DEF AliasInv, Exclusive
    <3>4. files'[fd[q]] = files[fd[q]] BY <1>2, <2>11, <3>3
    <3> QED BY <1>1, <1>3, <2>1, <3>1, <3>2, <3>4
  <2>16. BindingsUnique'
    <3>1. ASSUME NEW g \in names_given'
          PROVE  \E i \in 1..Len(files'[g.file]) :
                   files'[g.file][i] = [alias |-> g.alias, wwid |-> g.wwid]
      <4>1. CASE g \in names_given
        <5>1. PICK i \in 1..Len(files[g.file]) :
                files[g.file][i] = [alias |-> g.alias, wwid |-> g.wwid]
          BY <4>1 DEF AliasInv, BindingsUnique
        <5>2. g.file \in 1..Len(files) BY <4>1 DEF AliasInv, AliasTypeOK
        <5>3. CASE g.file = n
          <6>1. i \in 1..Len(new) /\ new[i] = old[i] BY <2>8, <2>9, <2>10, <5>1, <5>3
          <6> QED BY <2>8, <2>11, <5>1, <5>3, <6>1
        <5>4. CASE g.file # n BY <2>11, <5>1, <5>2, <5>4
        <5> QED BY <5>3, <5>4
      <4>2. CASE g = [alias |-> alias, wwid |-> req[p], file |-> n]
        <5>1. g.alias = alias /\ g.wwid = req[p] /\ g.file = n BY <4>2
        <5>2. Len(old) + 1 \in 1..Len(new) BY <2>9, <2>10
        <5> QED BY <2>10, <2>11, <5>1, <5>2
      <4> QED BY <2>1, <4>1, <4>2
    <3>2. ASSUME NEW k \in 1..Len(files'), NEW j \in (born'[k] + 1)..Len(files'[k]),
                 NEW i \in 1..(j - 1)
          PROVE  /\ files'[k][i].wwid # files'[k][j].wwid
                 /\ files'[k][i].wwid # NoLun => files'[k][i].alias # files'[k][j].alias
      <4>1. k \in 1..Len(files) /\ born'[k] = born[k] BY <1>1, <2>11
      <4>2. born[k] \in Nat
        <5>1. born \in Seq(Nat) /\ k \in 1..Len(born) BY <1>2, <4>1 DEF AliasInv, AliasTypeOK
        <5> QED BY <5>1
      <4>3. CASE k # n
        <5>1. files'[k] = files[k] BY <2>11, <4>1, <4>3
        <5> QED BY <4>1, <5>1 DEF AliasInv, BindingsUnique
      <4>4. CASE k = n
        <5>1. j \in (born[k] + 1)..(Len(old) + 1) BY <2>10, <2>11, <4>1, <4>4
        <5>2. i \in 1..Len(old) /\ new[i] = old[i] BY <2>9, <2>10, <4>2, <5>1
        <5>3. CASE j = Len(old) + 1
          <6>1. /\ old[i].wwid # req[p]
                /\ old[i].wwid # NoLun => old[i].alias # alias
            BY <2>6, <2>8, <5>2 DEF NotBound
          <6>2. new[j].wwid = req[p] /\ new[j].alias = alias BY <2>10, <5>3
          <6> QED BY <2>11, <4>4, <5>2, <6>1, <6>2
        <5>4. CASE j # Len(old) + 1
          <6>1. j \in (born[k] + 1)..Len(old) /\ j \in 1..Len(old) BY <2>9, <4>2, <5>1, <5>4
          <6>2. new[j] = old[j] BY <2>10, <6>1
          <6>3. /\ old[i].wwid # old[j].wwid
                /\ old[i].wwid # NoLun => old[i].alias # old[j].alias
            <7>1. BindingsUnique BY DEF AliasInv
            <7>2. k \in 1..Len(files) /\ j \in (born[k] + 1)..Len(files[k]) /\ old = files[k]
              BY <2>8, <4>1, <4>4, <6>1
            <7> QED BY <7>1, <7>2 DEF BindingsUnique
          <6> QED BY <2>11, <4>4, <5>2, <6>2, <6>3
        <5> QED BY <5>3, <5>4
      <4> QED BY <4>3, <4>4
    <3> QED BY <3>1, <3>2 DEF BindingsUnique
  <2> QED BY <2>12, <2>13, <2>14, <2>15, <2>16 DEF AliasInv
<1>6. ASSUME UNCHANGED <<files, names_given>>,
             \/ open_file(p, "lock friendly")
             \/ Done(p)
      PROVE  AliasInv'
  <2>1. /\ apc' = [apc EXCEPT ![p] = "lock friendly"] \/ apc' = [apc EXCEPT ![p] = "idle"]
        /\ fd' = fd \/ fd' = [fd EXCEPT ![p] = cur]
    BY <1>6 DEF open_file, Done
  <2>2. apc' \in [Procs -> Places] /\ fd' \in [Procs -> 1..Len(files)]
    BY <1>2, <2>1 DEF Places, Asking
  <2>3. AliasTypeOK' BY <1>1, <1>4, <1>6, <2>2 DEF AliasInv, AliasTypeOK
  <2>4. apc'[p] \in {"lock friendly", "idle"} BY <1>2, <2>1
  <2>5. apc'[p] \notin Appending /\ ~Locked(p)' BY <2>4 DEF Appending, Locked
  <2>6. \A q \in Procs \ {p} : apc'[q] = apc[q] /\ fd'[q] = fd[q] BY <1>2, <2>1
  <2> QED BY <1>1, <1>2, <1>3, <1>6, <2>3, <2>5, <2>6, StepOfOne
<1> QED BY <1>5, <1>6 DEF allocate_binding

\* The invariant is inductive.
LEMMA AliasInitInv == AliasInit => AliasInv
<1> SUFFICES ASSUME AliasInit PROVE AliasInv OBVIOUS
<1>1. PICK f \in BindingLines : files = <<f>> BY DEF AliasInit
<1>2. f \in Seq(Lines) BY AliasConstants DEF Lines
<1>3. files \in Seq(Seq(Lines)) /\ Len(files) = 1 /\ files[1] = f BY <1>1, <1>2
<1>4. born = <<Len(f)>> /\ cur = 1 BY <1>3 DEF AliasInit
<1>5. born \in Seq(Nat) /\ Len(born) = 1 /\ born[1] = Len(f) BY <1>2, <1>4
<1>6. \A p \in Procs : IsFiniteSet(kept[p]) BY FS_EmptySet DEF AliasInit
<1>7. AliasTypeOK
  BY <1>3, <1>4, <1>5, <1>6, AliasConstants DEF AliasInit, AliasTypeOK, Places
<1>8. \A p \in Procs : apc[p] = "start" BY DEF AliasInit
<1>9. AsksForLun /\ Exclusive /\ StillFree
  BY <1>8 DEF AsksForLun, Exclusive, StillFree, Asking, Appending, Locked
<1>10. BindingsUnique
  <2>1. ASSUME NEW k \in 1..Len(files), NEW j \in (born[k] + 1)..Len(files[k]) PROVE FALSE
    <3>1. k = 1 /\ Len(f) \in Nat BY <1>2, <1>3
    <3>2. j \in (Len(f) + 1)..Len(f) BY <1>3, <1>5, <3>1
    <3> QED BY <3>1, <3>2
  <2>2. names_given = {} BY DEF AliasInit
  <2> QED BY <2>1, <2>2 DEF BindingsUnique
<1> QED BY <1>7, <1>9, <1>10 DEF AliasInv

\* Every step keeps the invariant.
LEMMA AliasNextInv == AliasInv /\ [AliasNext]_alias_vars => AliasInv'
<1>1. ASSUME AliasInv, UNCHANGED alias_vars PROVE AliasInv'
  <2>1. AliasTypeOK' BY <1>1 DEF alias_vars, AliasInv, AliasTypeOK
  <2>2. AsksForLun' BY <1>1 DEF alias_vars, AliasInv, AsksForLun
  <2>3. Exclusive' BY <1>1 DEF alias_vars, AliasInv, Exclusive, Locked
  <2>4. StillFree' BY <1>1 DEF alias_vars, AliasInv, StillFree, NotBound
  <2>5. BindingsUnique' BY <1>1 DEF alias_vars, AliasInv, BindingsUnique
  <2> QED BY <2>1, <2>2, <2>3, <2>4, <2>5 DEF AliasInv
<1>2. ASSUME AliasInv, AliasNext PROVE AliasInv'
  BY <1>2, CheckAliasSettingsKeeps, LockFileKeeps, LockTimeoutKeeps, KilledKeeps,
     CheckBindingsKeeps, FixBindingsKeeps, SelectAliasKeeps, UseExistingAliasKeeps,
     GetUserFriendlyAliasKeeps, AllocateBindingKeeps
  DEF AliasNext
<1> QED BY <1>1, <1>2

\* However many processes give names at the same time, are killed or replace
\* the file, no name and no WWID is bound twice in it by them, and every name
\* that was given stays bound to its map (get_user_friendly_alias(),
\* use_existing_alias(), lock_file()).
THEOREM BindingsUniqueTheorem == AliasSpec => []BindingsUnique
<1>1. AliasInv => BindingsUnique BY DEF AliasInv
<1> QED BY AliasInitInv, AliasNextInv, <1>1, PTL DEF AliasSpec

(***************************************************************************)
(* PropSelect: maps before and after a selection                           *)
(***************************************************************************)
\* The maps m and n agree on an option, and on all options that are not in E.
Same(m, n, o) == /\ o \in DOMAIN m <=> o \in DOMAIN n
                 /\ o \in DOMAIN m => m[o] = n[o]
Agree(m, n, E) == \A o : o \notin E => Same(m, n, o)

\* The same selection made r of m and q of n: it touches the options of T only, and
\* what it makes of those in C does not depend on the map.
Chosen(m, r, n, q, C, T) ==
  Agree(m, r, T) /\ Agree(n, q, T) /\ \A o \in C : Same(r, q, o)

LEMMA PutDone ==
  ASSUME NEW m, NEW n, NEW o, NEW v
  PROVE  Chosen(m, Put(m, o, v), n, Put(n, o, v), {o}, {o})
BY DEF Chosen, Agree, Same, Put

LEMMA DropDone ==
  ASSUME NEW m, NEW n, NEW o
  PROVE  Chosen(m, Drop(m, o), n, Drop(n, o), {o}, {o})
BY DEF Chosen, Agree, Same, Drop

LEMMA PutTouches ==
  ASSUME NEW m, NEW o, NEW v, NEW T, o \in T
  PROVE  Agree(m, Put(m, o, v), T)
BY DEF Agree, Same, Put

LEMMA DoneThen ==
  ASSUME NEW m, NEW r, NEW s, NEW n, NEW q, NEW t, NEW C, NEW T, NEW D, NEW U,
         Chosen(m, r, n, q, C, T), Chosen(r, s, q, t, D, U)
  PROVE  Chosen(m, s, n, t, (C \ U) \cup D, T \cup U)
BY DEF Chosen, Agree, Same

LEMMA DoneLess ==
  ASSUME NEW m, NEW r, NEW n, NEW q, NEW C, NEW T, NEW D, NEW U,
         Chosen(m, r, n, q, C, T), D \subseteq C, T \subseteq U
  PROVE  Chosen(m, r, n, q, D, U)
BY DEF Chosen, Agree

\* One more option.
LEMMA DoneMore ==
  ASSUME NEW m, NEW r, NEW s, NEW n, NEW q, NEW t, NEW C, NEW o,
         Chosen(m, r, n, q, C, C), Chosen(r, s, q, t, {o}, {o})
  PROVE  Chosen(m, s, n, t, C \cup {o}, C \cup {o})
BY DEF Chosen, Agree, Same

LEMMA DoneAgree ==
  ASSUME NEW m, NEW r, NEW n, NEW q, NEW C, NEW T, NEW E,
         Chosen(m, r, n, q, C, T), Agree(m, n, E)
  PROVE  Agree(r, q, (E \cup T) \ C)
BY DEF Chosen, Agree, Same

LEMMA AgreeTrans ==
  ASSUME NEW m, NEW n, NEW r, NEW E, NEW F, Agree(m, n, E), Agree(n, r, F)
  PROVE  Agree(m, r, E \cup F)
BY DEF Agree, Same

(***************************************************************************)
(* PropSelect: the selectors                                               *)
(***************************************************************************)
\* The selection of one option, which depends on nothing else of the map
Decides(m, r, n, q, o) == Chosen(m, r, n, q, {o}, {o})

\* Selectors that look at the configuration and the hardware only
LEMMA Simple ==
  ASSUME NEW c, NEW h, NEW m, NEW n
  PROVE
    /\ Decides(m, select_pgfailback(c, m), n, select_pgfailback(c, n), "failback")
    /\ Decides(m, select_pgpolicy(c, m), n, select_pgpolicy(c, n), "path_grouping_policy")
    /\ Decides(m, select_selector(c, m), n, select_selector(c, n), "path_selector")
    /\ Decides(m, select_rr_weight(c, m), n, select_rr_weight(c, n), "rr_weight")
    /\ Decides(m, select_mode(c, m), n, select_mode(c, n), "mode")
    /\ Decides(m, select_uid(c, m), n, select_uid(c, n), "uid")
    /\ Decides(m, select_gid(c, m), n, select_gid(c, n), "gid")
    /\ Decides(m, select_fast_io_fail(c, m), n, select_fast_io_fail(c, n), "fast_io_fail_tmo")
    /\ Decides(m, select_dev_loss(c, m), n, select_dev_loss(c, n), "dev_loss_tmo")
    /\ Decides(m, select_reservation_key(c, m),
               n, select_reservation_key(c, n), "reservation_key")
    /\ Decides(m, select_marginal_path_err_sample_time(c, m),
               n, select_marginal_path_err_sample_time(c, n), "marginal_path_err_sample_time")
    /\ Decides(m, select_marginal_path_err_rate_threshold(c, m),
               n, select_marginal_path_err_rate_threshold(c, n),
               "marginal_path_err_rate_threshold")
    /\ Decides(m, select_marginal_path_err_recheck_gap_time(c, m),
               n, select_marginal_path_err_recheck_gap_time(c, n),
               "marginal_path_err_recheck_gap_time")
    /\ Decides(m, select_marginal_path_double_failed_time(c, m),
               n, select_marginal_path_double_failed_time(c, n),
               "marginal_path_double_failed_time")
    /\ Decides(m, select_skip_kpartx(c, m), n, select_skip_kpartx(c, n), "skip_kpartx")
    /\ Decides(m, select_max_sectors_kb(c, m),
               n, select_max_sectors_kb(c, n), "max_sectors_kb")
    /\ Decides(m, select_ghost_delay(c, m), n, select_ghost_delay(c, n), "ghost_delay")
    /\ Decides(m, select_flush_on_last_del(c, m),
               n, select_flush_on_last_del(c, n), "flush_on_last_del")
    /\ Decides(m, select_retain_hwhandler(c, h, m),
               n, select_retain_hwhandler(c, h, n), "retain_attached_hw_handler")
    /\ Decides(m, select_minio(c, h, m), n, select_minio(c, h, n), "minio")
<1>1. Decides(m, select_pgfailback(c, m), n, select_pgfailback(c, n), "failback")
  BY PutDone DEF Decides, select_pgfailback, SetMp
<1>2. Decides(m, select_pgpolicy(c, m), n, select_pgpolicy(c, n), "path_grouping_policy")
  BY PutDone DEF Decides, select_pgpolicy, SetMp
<1>3. Decides(m, select_selector(c, m), n, select_selector(c, n), "path_selector")
  BY PutDone DEF Decides, select_selector, SetMp
<1>4. Decides(m, select_rr_weight(c, m), n, select_rr_weight(c, n), "rr_weight")
  BY PutDone DEF Decides, select_rr_weight, SetMp
<1>5. Decides(m, select_mode(c, m), n, select_mode(c, n), "mode")
  BY PutDone, DropDone DEF Decides, select_mode, select_attr
<1>6. Decides(m, select_uid(c, m), n, select_uid(c, n), "uid")
  BY PutDone, DropDone DEF Decides, select_uid, select_attr
<1>7. Decides(m, select_gid(c, m), n, select_gid(c, n), "gid")
  BY PutDone, DropDone DEF Decides, select_gid, select_attr
<1>8. Decides(m, select_fast_io_fail(c, m), n, select_fast_io_fail(c, n), "fast_io_fail_tmo")
  BY PutDone DEF Decides, select_fast_io_fail, SetOvr
<1>9. Decides(m, select_dev_loss(c, m), n, select_dev_loss(c, n), "dev_loss_tmo")
  BY PutDone, DropDone DEF Decides, select_dev_loss
<1>10. Decides(m, select_reservation_key(c, m),
               n, select_reservation_key(c, n), "reservation_key")
  BY PutDone, DropDone DEF Decides, select_reservation_key
<1>11. Decides(m, select_marginal_path_err_sample_time(c, m),
               n, select_marginal_path_err_sample_time(c, n), "marginal_path_err_sample_time")
  BY PutDone DEF Decides, select_marginal_path_err_sample_time
<1>12. Decides(m, select_marginal_path_err_rate_threshold(c, m),
               n, select_marginal_path_err_rate_threshold(c, n),
               "marginal_path_err_rate_threshold")
  BY PutDone DEF Decides, select_marginal_path_err_rate_threshold, SetMp
<1>13. Decides(m, select_marginal_path_err_recheck_gap_time(c, m),
               n, select_marginal_path_err_recheck_gap_time(c, n),
               "marginal_path_err_recheck_gap_time")
  BY PutDone DEF Decides, select_marginal_path_err_recheck_gap_time, SetMp
<1>14. Decides(m, select_marginal_path_double_failed_time(c, m),
               n, select_marginal_path_double_failed_time(c, n),
               "marginal_path_double_failed_time")
  BY PutDone DEF Decides, select_marginal_path_double_failed_time, SetMp
<1>15. Decides(m, select_skip_kpartx(c, m), n, select_skip_kpartx(c, n), "skip_kpartx")
  BY PutDone DEF Decides, select_skip_kpartx, SetMp
<1>16. Decides(m, select_max_sectors_kb(c, m),
               n, select_max_sectors_kb(c, n), "max_sectors_kb")
  BY PutDone DEF Decides, select_max_sectors_kb, SetMp
<1>17. Decides(m, select_ghost_delay(c, m), n, select_ghost_delay(c, n), "ghost_delay")
  BY PutDone DEF Decides, select_ghost_delay, SetMp
<1>18. Decides(m, select_flush_on_last_del(c, m),
               n, select_flush_on_last_del(c, n), "flush_on_last_del")
  BY PutDone DEF Decides, select_flush_on_last_del, SetMp
<1>19. Decides(m, select_retain_hwhandler(c, h, m),
               n, select_retain_hwhandler(c, h, n), "retain_attached_hw_handler")
  BY PutDone DEF Decides, select_retain_hwhandler, SetOvr
<1>20. Decides(m, select_minio(c, h, m), n, select_minio(c, h, n), "minio")
  BY PutDone DEF Decides, select_minio, select_minio_rq, select_minio_bio
<1> QED  BY <1>1, <1>2, <1>3, <1>4, <1>5, <1>6, <1>7, <1>8, <1>9, <1>10, <1>11, <1>12, <1>13,
            <1>14, <1>15, <1>16, <1>17, <1>18, <1>19, <1>20
\* select_no_path_retry() decides if the configuration does and queueing is not disabled.
LEMMA NoPathRetry ==
  ASSUME NEW c, NEW m, NEW n
  PROVE  LET r == select_no_path_retry(c, m)
             q == select_no_path_retry(c, n)
         IN  /\ Chosen(m, r, n, q, {}, {"no_path_retry"})
             /\ /\ FirstOf(MpLayers(c), "no_path_retry", "") # ""
                /\ m["disable_queueing"] = FALSE /\ n["disable_queueing"] = FALSE
                => /\ Chosen(m, r, n, q, {"no_path_retry"}, {"no_path_retry"})
                   /\ "no_path_retry" \in DOMAIN r \cap DOMAIN q
                   /\ r["no_path_retry"] = FirstOf(MpLayers(c), "no_path_retry", "")
<1> DEFINE r == select_no_path_retry(c, m)
           q == select_no_path_retry(c, n)
           v == FirstOf(MpLayers(c), "no_path_retry", "")
<1>1. Agree(m, r, {"no_path_retry"}) /\ Agree(n, q, {"no_path_retry"})
  <2>1. Agree(m, m, {"no_path_retry"}) /\ Agree(n, n, {"no_path_retry"})  BY DEF Agree, Same
  <2>2. /\ r = m \/ r = Put(m, "no_path_retry", "fail") \/ r = Put(m, "no_path_retry", v)
        /\ q = n \/ q = Put(n, "no_path_retry", "fail") \/ q = Put(n, "no_path_retry", v)
    BY DEF select_no_path_retry
  <2>3. QED  BY <2>1, <2>2, PutTouches
<1>2. ASSUME v # "", m["disable_queueing"] = FALSE, n["disable_queueing"] = FALSE
      PROVE  /\ Chosen(m, r, n, q, {"no_path_retry"}, {"no_path_retry"})
             /\ "no_path_retry" \in DOMAIN r \cap DOMAIN q /\ r["no_path_retry"] = v
  <2>1. r = Put(m, "no_path_retry", v) /\ q = Put(n, "no_path_retry", v)
    BY <1>2 DEF select_no_path_retry
  <2>2. "no_path_retry" \in DOMAIN r \cap DOMAIN q /\ r["no_path_retry"] = v
    BY <2>1 DEF Put
  <2>3. QED  BY <2>1, <2>2, PutDone
<1>3. QED  BY <1>1, <1>2 DEF Chosen

\* select_features() touches no_path_retry only if it is not set.
LEMMA Features ==
  ASSUME NEW c, NEW m, NEW n
  PROVE  LET r == select_features(c, m)
             q == select_features(c, n)
         IN  /\ Chosen(m, r, n, q, {"features"}, {"features", "no_path_retry"})
             /\ "no_path_retry" \in DOMAIN m \cap DOMAIN n
                => Chosen(m, r, n, q, {"features"}, {"features"})
<1> DEFINE r == select_features(c, m)
           q == select_features(c, n)
           f == FirstOf(MpLayers(c), "features", {})
           v == f \ {"queue_if_no_path", "retain_attached_hw_handler"}
           first(x) == IF "queue_if_no_path" \in f /\ "no_path_retry" \notin DOMAIN x
                       THEN Put(x, "no_path_retry", "queue") ELSE x
<1>1. r = Put(first(m), "features", v) /\ q = Put(first(n), "features", v)
  BY DEF select_features
<1>2. Chosen(first(m), r, first(n), q, {"features"}, {"features"})  BY <1>1, PutDone
<1>3. Chosen(m, first(m), n, first(n), {}, {"no_path_retry"})
  <2>1. Agree(m, m, {"no_path_retry"}) /\ Agree(n, n, {"no_path_retry"})  BY DEF Agree, Same
  <2>2. QED  BY <2>1, PutTouches DEF Chosen
<1>4. "no_path_retry" \in DOMAIN m \cap DOMAIN n => first(m) = m /\ first(n) = n  OBVIOUS
<1> HIDE DEF r, q, first
<1>5. Chosen(m, r, n, q, ({} \ {"features"}) \cup {"features"}, {"no_path_retry"} \cup {"features"})
  BY <1>2, <1>3, DoneThen
<1>6. Chosen(m, r, n, q, {"features"}, {"features", "no_path_retry"})  BY <1>5, DoneLess
<1>7. QED  BY <1>2, <1>4, <1>6 DEF r, q

\* select_hwhandler() depends on retain_attached_hw_handler, and never chooses "alua"
\* for paths without support.
LEMMA HwHandler ==
  ASSUME NEW c, NEW h, NEW m, NEW n
  PROVE  LET r == select_hwhandler(c, h, m)
             q == select_hwhandler(c, h, n)
         IN  /\ m["retain_attached_hw_handler"] = n["retain_attached_hw_handler"]
                => Chosen(m, r, n, q, {"hardware_handler"}, {"hardware_handler"})
             /\ "hardware_handler" \in DOMAIN r
             /\ r["hardware_handler"] = "alua" => all_tpgs(h)
<1> DEFINE attached == SelectSeq(h.dh_state, LAMBDA d : d \notin {"", "detached"})
           retained(x) == x["retain_attached_hw_handler"] # "no" /\ attached # <<>>
           set == FirstOf(HweLayers(c), "hardware_handler", "")
           v(x) == IF retained(x) THEN attached[1] ELSE IF set # "" THEN set ELSE "0"
           w(x) == IF all_tpgs(h) /\ ~retained(x) /\ set = "" THEN "alua"
                   ELSE IF ~all_tpgs(h) /\ v(x) = "alua" THEN "0" ELSE v(x)
<1>1. \A x : select_hwhandler(c, h, x) = Put(x, "hardware_handler", w(x))
  BY DEF select_hwhandler
<1>2. m["retain_attached_hw_handler"] = n["retain_attached_hw_handler"] => w(m) = w(n)  OBVIOUS
<1>3. w(m) = "alua" => all_tpgs(h)  OBVIOUS
<1> HIDE DEF w
<1>4. /\ "hardware_handler" \in DOMAIN Put(m, "hardware_handler", w(m))
      /\ Put(m, "hardware_handler", w(m))["hardware_handler"] = w(m)
  BY DEF Put
<1>5. QED  BY <1>1, <1>2, <1>3, <1>4, PutDone

\* A removal in progress stays so until the kernel has been asked.
LEMMA DeferredRemoveIs ==
  ASSUME NEW c, NEW m, NEW n
  PROVE  LET r == select_deferred_remove(c, m)
             q == select_deferred_remove(c, n)
         IN  /\ Chosen(m, r, n, q, {}, {"deferred_remove"})
             /\ "deferred_remove" \in DOMAIN r
             /\ r["deferred_remove"] =
                  IF "deferred_remove" \in DOMAIN m /\ m["deferred_remove"] = "in progress"
                  THEN "in progress" ELSE FirstOf(MpLayers(c), "deferred_remove", "no")
<1> DEFINE v == FirstOf(MpLayers(c), "deferred_remove", "no")
<1>1. \A x : Agree(x, x, {"deferred_remove"})  BY DEF Agree, Same
<1>2. \A x : /\ "deferred_remove" \in DOMAIN Put(x, "deferred_remove", v)
             /\ Put(x, "deferred_remove", v)["deferred_remove"] = v
  BY DEF Put
<1>3. \A x : select_deferred_remove(c, x) =
               IF "deferred_remove" \in DOMAIN x /\ x["deferred_remove"] = "in progress"
               THEN x ELSE Put(x, "deferred_remove", v)
  BY DEF select_deferred_remove, SetMp
<1>4. QED  BY <1>1, <1>2, <1>3, PutTouches DEF Chosen

\* The san_path_err options depend on the marginal_path_err ones, and
\* the delay_watch_checks and delay_wait_checks on these.
LEMMA San ==
  ASSUME NEW c, NEW m, NEW n, NEW o,
         marginal_path_check_enabled(m) <=> marginal_path_check_enabled(n)
  PROVE  Chosen(m, select_san(c, m, o), n, select_san(c, n, o), {o}, {o})
BY PutDone DEF select_san, SetMp

LEMMA NumSame ==
  ASSUME NEW m, NEW n, NEW o, Same(m, n, o)
  PROVE  Num(m, o) = Num(n, o)
BY DEF Same, Num

LEMMA MarginalSame ==
  ASSUME NEW m, NEW n, \A o \in MarginalOptions : Same(m, n, o)
  PROVE  marginal_path_check_enabled(m) <=> marginal_path_check_enabled(n)
<1>1. \A o \in MarginalOptions : Num(m, o) = Num(n, o)  BY NumSame
<1>2. "marginal_path_err_rate_threshold" \in MarginalOptions  BY DEF MarginalOptions
<1>3. QED  BY <1>1, <1>2 DEF marginal_path_check_enabled

LEMMA Delay ==
  ASSUME NEW c, NEW m, NEW n, \A o \in SanOptions : Same(m, n, o)
  PROVE  Chosen(m, select_delay_checks(c, m), n, select_delay_checks(c, n),
              SanOptions, SanOptions)
<1> DEFINE watch == use_delay_watch_checks(c)
           wait == use_delay_wait_checks(c)
           m1(x) == Put(x, "san_path_err_threshold", 1)
           m2(x) == IF watch > 0 THEN Put(m1(x), "san_path_err_forget_rate", watch) ELSE m1(x)
           m3(x) == IF wait > 0
                    THEN Put(m2(x), "san_path_err_recovery_time", wait * MaxCheckint) ELSE m2(x)
           S == SanOptions
<1>1. \A x : select_delay_checks(c, x) =
               IF (watch <= 0 /\ wait <= 0) \/ san_path_check_options_set(x) THEN x ELSE m3(x)
  BY DEF select_delay_checks
<1>2. san_path_check_options_set(m) <=> san_path_check_options_set(n)
  BY NumSame DEF san_path_check_options_set
<1>3. Chosen(m, m, n, n, S, S)  BY DEF Chosen, Agree, Same
<1> HIDE DEF watch, wait
<1>4. Chosen(m, m3(m), n, m3(n), S, S)
  <2>1. Chosen(m, m1(m), n, m1(n), S, S)
    <3>1. Chosen(m, m1(m), n, m1(n),
    (S \ {"san_path_err_threshold"}) \cup {"san_path_err_threshold"},
               S \cup {"san_path_err_threshold"})
      BY <1>3, PutDone, DoneThen
    <3>2. QED  BY <3>1, DoneLess DEF SanOptions
  <2>2. Chosen(m, m2(m), n, m2(n), S, S)
    <3>1. Chosen(m, Put(m1(m), "san_path_err_forget_rate", watch),
               n, Put(m1(n), "san_path_err_forget_rate", watch),
               (S \ {"san_path_err_forget_rate"}) \cup {"san_path_err_forget_rate"},
               S \cup {"san_path_err_forget_rate"})
      BY <2>1, PutDone, DoneThen
    <3>2. QED  BY <2>1, <3>1, DoneLess DEF SanOptions
  <2> HIDE DEF m2
  <2>3. Chosen(m, Put(m2(m), "san_path_err_recovery_time", wait * MaxCheckint),
             n, Put(m2(n), "san_path_err_recovery_time", wait * MaxCheckint),
             (S \ {"san_path_err_recovery_time"}) \cup {"san_path_err_recovery_time"},
             S \cup {"san_path_err_recovery_time"})
    BY <2>2, PutDone, DoneThen
  <2>4. QED  BY <2>2, <2>3, DoneLess DEF SanOptions
<1> HIDE DEF m3
<1>5. QED  BY <1>1, <1>2, <1>3, <1>4

(***************************************************************************)
(* PropSelect: setup_map()                                                 *)
(***************************************************************************)
\* select_properties() in parts, and the options that each part decides.
Part1(c, m) == select_selector(c, select_pgpolicy(c, select_pgfailback(c, m)))
Part2(c, h, m) ==
  select_hwhandler(c, h, select_features(c, select_retain_hwhandler(c, h,
    select_no_path_retry(c, m))))
Part3(c, h, m) ==
  select_reservation_key(c, select_dev_loss(c, select_fast_io_fail(c,
    select_gid(c, select_uid(c, select_mode(c, select_minio(c, h,
      select_rr_weight(c, m))))))))
Part4(c, m) ==
  select_marginal_path_double_failed_time(c,
    select_marginal_path_err_recheck_gap_time(c,
      select_marginal_path_err_rate_threshold(c,
        select_marginal_path_err_sample_time(c, m))))
Part5(c, m) ==
  select_delay_checks(c, select_san_path_err_recovery_time(c,
    select_san_path_err_forget_rate(c, select_san_path_err_threshold(c, m))))
Part6(c, m) ==
  select_flush_on_last_del(c, select_ghost_delay(c,
    select_max_sectors_kb(c, select_skip_kpartx(c, m))))

Options1 == {"failback", "path_grouping_policy", "path_selector"}
Options2 == {"retain_attached_hw_handler", "features", "hardware_handler"}
Options3 == {"rr_weight", "minio", "mode", "uid", "gid", "fast_io_fail_tmo",
             "dev_loss_tmo", "reservation_key"}
Options6 == {"skip_kpartx", "max_sectors_kb", "ghost_delay", "flush_on_last_del"}
Decided == Options1 \cup Options2 \cup Options3 \cup MarginalOptions \cup SanOptions
           \cup Options6
Touched == Decided \cup {"no_path_retry", "deferred_remove"}

LEMMA Parts ==
  ASSUME NEW c, NEW h, NEW m
  PROVE  select_properties(c, h, m) =
           Part6(c, Part5(c, Part4(c, select_deferred_remove(c,
             Part3(c, h, Part2(c, h, Part1(c, m)))))))
BY DEF select_properties, Part1, Part2, Part3, Part4, Part5, Part6

LEMMA Part1Done ==
  ASSUME NEW c, NEW m, NEW n
  PROVE  Chosen(m, Part1(c, m), n, Part1(c, n), Options1, Options1)
<1> DEFINE m1 == select_pgfailback(c, m)
           m2 == select_pgpolicy(c, m1)
           m3 == select_selector(c, m2)
           n1 == select_pgfailback(c, n)
           n2 == select_pgpolicy(c, n1)
           n3 == select_selector(c, n2)
<1>1. Decides(m, m1, n, n1, "failback")  BY Simple
<1>2. Decides(m1, m2, n1, n2, "path_grouping_policy")  BY Simple
<1>3. Decides(m2, m3, n2, n3, "path_selector")  BY Simple
<1>4. m3 = Part1(c, m) /\ n3 = Part1(c, n)  BY DEF Part1
<1> HIDE DEF m1, m2, m3, n1, n2, n3
<1> DEFINE C1 == {"failback"}
           C2 == C1 \cup {"path_grouping_policy"}
           C3 == C2 \cup {"path_selector"}
<1>5. Chosen(m, m1, n, n1, C1, C1)  BY <1>1 DEF Decides
<1>6. Chosen(m, m2, n, n2, C2, C2)  BY <1>5, <1>2, DoneMore DEF Decides
<1>7. Chosen(m, m3, n, n3, C3, C3)  BY <1>6, <1>3, DoneMore DEF Decides
<1>8. C3 = Options1  BY DEF Options1
<1>9. QED  BY <1>4, <1>7, <1>8

\* Part2 decides no_path_retry too, if the configuration sets it and queueing is not
\* disabled.
LEMMA Part2Done ==
  ASSUME NEW c, NEW h, NEW m, NEW n
  PROVE  LET r == Part2(c, h, m)
             q == Part2(c, h, n)
         IN  /\ Chosen(m, r, n, q, Options2, Options2 \cup {"no_path_retry"})
             /\ /\ FirstOf(MpLayers(c), "no_path_retry", "") # ""
                /\ m["disable_queueing"] = FALSE /\ n["disable_queueing"] = FALSE
                => /\ Same(r, q, "no_path_retry") /\ "no_path_retry" \in DOMAIN r
                   /\ r["no_path_retry"] = FirstOf(MpLayers(c), "no_path_retry", "")
             /\ "hardware_handler" \in DOMAIN r
             /\ r["hardware_handler"] = "alua" => all_tpgs(h)
<1> DEFINE N == "no_path_retry"
           R == "retain_attached_hw_handler"
           m1 == select_no_path_retry(c, m)
           n1 == select_no_path_retry(c, n)
           m2 == select_retain_hwhandler(c, h, m1)
           n2 == select_retain_hwhandler(c, h, n1)
           m3 == select_features(c, m2)
           n3 == select_features(c, n2)
           m4 == select_hwhandler(c, h, m3)
           n4 == select_hwhandler(c, h, n3)
           v == FirstOf(MpLayers(c), N, "")
           set == /\ v # ""
                  /\ m["disable_queueing"] = FALSE /\ n["disable_queueing"] = FALSE
<1>1. /\ Chosen(m, m1, n, n1, {}, {N})
      /\ set => /\ Chosen(m, m1, n, n1, {N}, {N})
                /\ N \in DOMAIN m1 \cap DOMAIN n1 /\ m1[N] = v
  BY NoPathRetry
<1>2. Chosen(m1, m2, n1, n2, {R}, {R})  BY Simple DEF Decides
<1>3. R \in DOMAIN m2  BY DEF select_retain_hwhandler, SetOvr, Put
<1>4. /\ Chosen(m2, m3, n2, n3, {"features"}, {"features", N})
      /\ N \in DOMAIN m2 \cap DOMAIN n2 => Chosen(m2, m3, n2, n3, {"features"}, {"features"})
  BY Features
<1>5. /\ m3[R] = n3[R] => Chosen(m3, m4, n3, n4, {"hardware_handler"}, {"hardware_handler"})
      /\ "hardware_handler" \in DOMAIN m4
      /\ m4["hardware_handler"] = "alua" => all_tpgs(h)
  BY HwHandler
<1>6. m4 = Part2(c, h, m) /\ n4 = Part2(c, h, n)  BY DEF Part2
<1> HIDE DEF m1, n1, m2, n2, m3, n3, m4, n4
<1>7. m3[R] = n3[R]  BY <1>2, <1>3, <1>4 DEF Chosen, Agree, Same
<1>8. Chosen(m, m4, n, n4, Options2, Options2 \cup {N})
  <2>1. Chosen(m, m2, n, n2, {R}, {N, R})
    <3>1. Chosen(m, m2, n, n2, ({} \ {R}) \cup {R}, {N} \cup {R})  BY <1>1, <1>2, DoneThen
    <3>2. QED  BY <3>1, DoneLess
  <2>2. Chosen(m, m3, n, n3, {R, "features"}, {N, R, "features"})
    <3>1. Chosen(m, m3, n, n3, ({R} \ {"features", N}) \cup {"features"},
               {N, R} \cup {"features", N})
      BY <1>4, <2>1, DoneThen
    <3>2. QED  BY <3>1, DoneLess
  <2>3. Chosen(m, m4, n, n4, ({R, "features"} \ {"hardware_handler"}) \cup {"hardware_handler"},
             {N, R, "features"} \cup {"hardware_handler"})
    BY <1>5, <1>7, <2>2, DoneThen
  <2>4. QED  BY <2>3, DoneLess DEF Options2
<1>9. ASSUME set PROVE Same(m4, n4, N) /\ N \in DOMAIN m4 /\ m4[N] = v
  <2>1. N \in DOMAIN m2 \cap DOMAIN n2 /\ Same(m2, n2, N) /\ m2[N] = v
    BY <1>1, <1>2, <1>9 DEF Chosen, Agree, Same
  <2>2. Same(m3, n3, N) /\ N \in DOMAIN m3 /\ m3[N] = v
    BY <1>4, <2>1 DEF Chosen, Agree, Same
  <2>3. QED  BY <1>5, <1>7, <2>2 DEF Chosen, Agree, Same
<1> HIDE DEF set
<1>10. QED  BY <1>5, <1>6, <1>8, <1>9 DEF set

LEMMA Part3Done ==
  ASSUME NEW c, NEW h, NEW m, NEW n
  PROVE  Chosen(m, Part3(c, h, m), n, Part3(c, h, n), Options3, Options3)
<1> DEFINE m1 == select_rr_weight(c, m)
           m2 == select_minio(c, h, m1)
           m3 == select_mode(c, m2)
           m4 == select_uid(c, m3)
           m5 == select_gid(c, m4)
           m6 == select_fast_io_fail(c, m5)
           m7 == select_dev_loss(c, m6)
           m8 == select_reservation_key(c, m7)
           n1 == select_rr_weight(c, n)
           n2 == select_minio(c, h, n1)
           n3 == select_mode(c, n2)
           n4 == select_uid(c, n3)
           n5 == select_gid(c, n4)
           n6 == select_fast_io_fail(c, n5)
           n7 == select_dev_loss(c, n6)
           n8 == select_reservation_key(c, n7)
<1>1. Decides(m, m1, n, n1, "rr_weight")  BY Simple
<1>2. Decides(m1, m2, n1, n2, "minio")  BY Simple
<1>3. Decides(m2, m3, n2, n3, "mode")  BY Simple
<1>4. Decides(m3, m4, n3, n4, "uid")  BY Simple
<1>5. Decides(m4, m5, n4, n5, "gid")  BY Simple
<1>6. Decides(m5, m6, n5, n6, "fast_io_fail_tmo")  BY Simple
<1>7. Decides(m6, m7, n6, n7, "dev_loss_tmo")  BY Simple
<1>8. Decides(m7, m8, n7, n8, "reservation_key")  BY Simple
<1>9. m8 = Part3(c, h, m) /\ n8 = Part3(c, h, n)  BY DEF Part3
<1> HIDE DEF m1, m2, m3, m4, m5, m6, m7, m8, n1, n2, n3, n4, n5, n6, n7, n8
<1> DEFINE C1 == {"rr_weight"}
           C2 == C1 \cup {"minio"}
           C3 == C2 \cup {"mode"}
           C4 == C3 \cup {"uid"}
           C5 == C4 \cup {"gid"}
           C6 == C5 \cup {"fast_io_fail_tmo"}
           C7 == C6 \cup {"dev_loss_tmo"}
           C8 == C7 \cup {"reservation_key"}
<1>10. Chosen(m, m1, n, n1, C1, C1)  BY <1>1 DEF Decides
<1>11. Chosen(m, m2, n, n2, C2, C2)  BY <1>10, <1>2, DoneMore DEF Decides
<1>12. Chosen(m, m3, n, n3, C3, C3)  BY <1>11, <1>3, DoneMore DEF Decides
<1>13. Chosen(m, m4, n, n4, C4, C4)  BY <1>12, <1>4, DoneMore DEF Decides
<1>14. Chosen(m, m5, n, n5, C5, C5)  BY <1>13, <1>5, DoneMore DEF Decides
<1>15. Chosen(m, m6, n, n6, C6, C6)  BY <1>14, <1>6, DoneMore DEF Decides
<1>16. Chosen(m, m7, n, n7, C7, C7)  BY <1>15, <1>7, DoneMore DEF Decides
<1>17. Chosen(m, m8, n, n8, C8, C8)  BY <1>16, <1>8, DoneMore DEF Decides
<1>18. C8 = Options3  BY DEF Options3
<1>19. QED  BY <1>9, <1>17, <1>18

LEMMA Part4Done ==
  ASSUME NEW c, NEW m, NEW n
  PROVE  Chosen(m, Part4(c, m), n, Part4(c, n), MarginalOptions, MarginalOptions)
<1> DEFINE m1 == select_marginal_path_err_sample_time(c, m)
           m2 == select_marginal_path_err_rate_threshold(c, m1)
           m3 == select_marginal_path_err_recheck_gap_time(c, m2)
           m4 == select_marginal_path_double_failed_time(c, m3)
           n1 == select_marginal_path_err_sample_time(c, n)
           n2 == select_marginal_path_err_rate_threshold(c, n1)
           n3 == select_marginal_path_err_recheck_gap_time(c, n2)
           n4 == select_marginal_path_double_failed_time(c, n3)
<1>1. Decides(m, m1, n, n1, "marginal_path_err_sample_time")  BY Simple
<1>2. Decides(m1, m2, n1, n2, "marginal_path_err_rate_threshold")  BY Simple
<1>3. Decides(m2, m3, n2, n3, "marginal_path_err_recheck_gap_time")  BY Simple
<1>4. Decides(m3, m4, n3, n4, "marginal_path_double_failed_time")  BY Simple
<1>5. m4 = Part4(c, m) /\ n4 = Part4(c, n)  BY DEF Part4
<1> HIDE DEF m1, m2, m3, m4, n1, n2, n3, n4
<1> DEFINE C1 == {"marginal_path_err_sample_time"}
           C2 == C1 \cup {"marginal_path_err_rate_threshold"}
           C3 == C2 \cup {"marginal_path_err_recheck_gap_time"}
           C4 == C3 \cup {"marginal_path_double_failed_time"}
<1>6. Chosen(m, m1, n, n1, C1, C1)  BY <1>1 DEF Decides
<1>7. Chosen(m, m2, n, n2, C2, C2)  BY <1>6, <1>2, DoneMore DEF Decides
<1>8. Chosen(m, m3, n, n3, C3, C3)  BY <1>7, <1>3, DoneMore DEF Decides
<1>9. Chosen(m, m4, n, n4, C4, C4)  BY <1>8, <1>4, DoneMore DEF Decides
<1>10. C4 = MarginalOptions  BY DEF MarginalOptions
<1>11. QED  BY <1>5, <1>9, <1>10

LEMMA Part5Done ==
  ASSUME NEW c, NEW m, NEW n, \A o \in MarginalOptions : Same(m, n, o)
  PROVE  Chosen(m, Part5(c, m), n, Part5(c, n), SanOptions, SanOptions)
<1> DEFINE T == "san_path_err_threshold"
           F == "san_path_err_forget_rate"
           R == "san_path_err_recovery_time"
           m1 == select_san_path_err_threshold(c, m)
           n1 == select_san_path_err_threshold(c, n)
           m2 == select_san_path_err_forget_rate(c, m1)
           n2 == select_san_path_err_forget_rate(c, n1)
           m3 == select_san_path_err_recovery_time(c, m2)
           n3 == select_san_path_err_recovery_time(c, n2)
           m4 == select_delay_checks(c, m3)
           n4 == select_delay_checks(c, n3)
<1>1. Chosen(m, m1, n, n1, {T}, {T})  BY MarginalSame, San DEF select_san_path_err_threshold
<1>2. ASSUME \A o \in MarginalOptions : Same(m1, n1, o)
      PROVE  Chosen(m1, m2, n1, n2, {F}, {F})
  BY <1>2, MarginalSame, San DEF select_san_path_err_forget_rate
<1>3. ASSUME \A o \in MarginalOptions : Same(m2, n2, o)
      PROVE  Chosen(m2, m3, n2, n3, {R}, {R})
  BY <1>3, MarginalSame, San DEF select_san_path_err_recovery_time
<1>4. ASSUME \A o \in SanOptions : Same(m3, n3, o)
      PROVE  Chosen(m3, m4, n3, n4, SanOptions, SanOptions)
  BY <1>4, Delay
<1>5. m4 = Part5(c, m) /\ n4 = Part5(c, n)  BY DEF Part5
<1> HIDE DEF m1, n1, m2, n2, m3, n3, m4, n4
<1>6. \A o \in MarginalOptions : o \notin {T, F, R}  BY DEF MarginalOptions
<1>7. \A o \in MarginalOptions : Same(m1, n1, o)  BY <1>1, <1>6 DEF Chosen, Agree, Same
<1>8. \A o \in MarginalOptions : Same(m2, n2, o)
  BY <1>2, <1>6, <1>7 DEF Chosen, Agree, Same
<1>9. Chosen(m, m3, n, n3, {T, F, R}, {T, F, R})
  BY <1>1, <1>2, <1>3, <1>7, <1>8 DEF Chosen, Agree, Same
<1>10. SanOptions = {T, F, R}  BY DEF SanOptions
<1>11. Chosen(m3, m4, n3, n4, SanOptions, SanOptions)  BY <1>4, <1>9, <1>10 DEF Chosen
<1>12. QED  BY <1>5, <1>9, <1>10, <1>11 DEF Chosen, Agree, Same

LEMMA Part6Done ==
  ASSUME NEW c, NEW m, NEW n
  PROVE  Chosen(m, Part6(c, m), n, Part6(c, n), Options6, Options6)
<1> DEFINE m1 == select_skip_kpartx(c, m)
           m2 == select_max_sectors_kb(c, m1)
           m3 == select_ghost_delay(c, m2)
           m4 == select_flush_on_last_del(c, m3)
           n1 == select_skip_kpartx(c, n)
           n2 == select_max_sectors_kb(c, n1)
           n3 == select_ghost_delay(c, n2)
           n4 == select_flush_on_last_del(c, n3)
<1>1. Decides(m, m1, n, n1, "skip_kpartx")  BY Simple
<1>2. Decides(m1, m2, n1, n2, "max_sectors_kb")  BY Simple
<1>3. Decides(m2, m3, n2, n3, "ghost_delay")  BY Simple
<1>4. Decides(m3, m4, n3, n4, "flush_on_last_del")  BY Simple
<1>5. m4 = Part6(c, m) /\ n4 = Part6(c, n)  BY DEF Part6
<1> HIDE DEF m1, m2, m3, m4, n1, n2, n3, n4
<1> DEFINE C1 == {"skip_kpartx"}
           C2 == C1 \cup {"max_sectors_kb"}
           C3 == C2 \cup {"ghost_delay"}
           C4 == C3 \cup {"flush_on_last_del"}
<1>6. Chosen(m, m1, n, n1, C1, C1)  BY <1>1 DEF Decides
<1>7. Chosen(m, m2, n, n2, C2, C2)  BY <1>6, <1>2, DoneMore DEF Decides
<1>8. Chosen(m, m3, n, n3, C3, C3)  BY <1>7, <1>3, DoneMore DEF Decides
<1>9. Chosen(m, m4, n, n4, C4, C4)  BY <1>8, <1>4, DoneMore DEF Decides
<1>10. C4 = Options6  BY DEF Options6
<1>11. QED  BY <1>5, <1>9, <1>10

\* What setup_map() makes of two maps with one configuration and the same paths: all is
\* decided but no_path_retry and deferred_remove.
LEMMA SelectDone ==
  ASSUME NEW c, NEW h, NEW m, NEW n
  PROVE  LET r == select_properties(c, h, m)
             q == select_properties(c, h, n)
         IN  /\ Chosen(m, r, n, q, Decided, Touched)
             /\ /\ FirstOf(MpLayers(c), "no_path_retry", "") # ""
                /\ "disable_queueing" \in DOMAIN m \cap DOMAIN n
                /\ m["disable_queueing"] = FALSE /\ n["disable_queueing"] = FALSE
                => /\ Same(r, q, "no_path_retry") /\ "no_path_retry" \in DOMAIN r
                   /\ r["no_path_retry"] = FirstOf(MpLayers(c), "no_path_retry", "")
             /\ "hardware_handler" \in DOMAIN r
             /\ r["hardware_handler"] = "alua" => all_tpgs(h)
             /\ "deferred_remove" \in DOMAIN r
             /\ r["deferred_remove"] =
                  IF "deferred_remove" \in DOMAIN m /\ m["deferred_remove"] = "in progress"
                  THEN "in progress" ELSE FirstOf(MpLayers(c), "deferred_remove", "no")
<1> DEFINE N == "no_path_retry"
           D == "deferred_remove"
           Q == "disable_queueing"
           m1 == Part1(c, m)
           n1 == Part1(c, n)
           m2 == Part2(c, h, m1)
           n2 == Part2(c, h, n1)
           m3 == Part3(c, h, m2)
           n3 == Part3(c, h, n2)
           m4 == select_deferred_remove(c, m3)
           n4 == select_deferred_remove(c, n3)
           m5 == Part4(c, m4)
           n5 == Part4(c, n4)
           m6 == Part5(c, m5)
           n6 == Part5(c, n5)
           m7 == Part6(c, m6)
           n7 == Part6(c, n6)
           v == FirstOf(MpLayers(c), N, "")
           set == v # ""
           dr == FirstOf(MpLayers(c), D, "no")
           C2 == Options1 \cup Options2
           C3 == C2 \cup Options3
           C7 == MarginalOptions \cup SanOptions \cup Options6
<1>1. Chosen(m, m1, n, n1, Options1, Options1)  BY Part1Done
<1>2. /\ Chosen(m1, m2, n1, n2, Options2, Options2 \cup {N})
      /\ set /\ m1[Q] = FALSE /\ n1[Q] = FALSE
         => Same(m2, n2, N) /\ N \in DOMAIN m2 /\ m2[N] = v
      /\ "hardware_handler" \in DOMAIN m2
      /\ m2["hardware_handler"] = "alua" => all_tpgs(h)
  BY Part2Done
<1>3. Chosen(m2, m3, n2, n3, Options3, Options3)  BY Part3Done
<1>4. /\ Chosen(m3, m4, n3, n4, {}, {D})
      /\ D \in DOMAIN m4
      /\ m4[D] = IF D \in DOMAIN m3 /\ m3[D] = "in progress" THEN "in progress" ELSE dr
  BY DeferredRemoveIs
<1>5. Chosen(m4, m5, n4, n5, MarginalOptions, MarginalOptions)  BY Part4Done
<1>6. Chosen(m5, m6, n5, n6, SanOptions, SanOptions)  BY <1>5, Part5Done DEF Chosen
<1>7. Chosen(m6, m7, n6, n7, Options6, Options6)  BY Part6Done
<1>8. m7 = select_properties(c, h, m) /\ n7 = select_properties(c, h, n)  BY Parts
<1> HIDE DEF m1, n1, m2, n2, m3, n3, m4, n4, m5, n5, m6, n6, m7, n7, set, dr, v
<1>9. Chosen(m, m2, n, n2, C2, C2 \cup {N})
  <2>1. Chosen(m, m2, n, n2, (Options1 \ (Options2 \cup {N})) \cup Options2,
             Options1 \cup (Options2 \cup {N}))
    BY <1>1, <1>2, DoneThen
  <2>2. QED  BY <2>1, DoneLess DEF Options1, Options2
<1>10. Chosen(m, m3, n, n3, C3, C3 \cup {N})
  <2>1. Chosen(m, m3, n, n3, (C2 \ Options3) \cup Options3, (C2 \cup {N}) \cup Options3)
    BY <1>3, <1>9, DoneThen
  <2>2. QED  BY <2>1, DoneLess
<1>11. Chosen(m, m4, n, n4, C3, C3 \cup {N, D})
  <2>1. Chosen(m, m4, n, n4, (C3 \ {D}) \cup {}, (C3 \cup {N}) \cup {D})
    BY <1>4, <1>10, DoneThen
  <2>2. D \notin C3  BY DEF Options1, Options2, Options3
  <2>3. QED  BY <2>1, <2>2, DoneLess
<1>12. Chosen(m4, m7, n4, n7, C7, C7)
  <2>1. Chosen(m4, m6, n4, n6, (MarginalOptions \ SanOptions) \cup SanOptions,
             MarginalOptions \cup SanOptions)
    BY <1>5, <1>6, DoneThen
  <2>2. Chosen(m4, m7, n4, n7,
             (((MarginalOptions \ SanOptions) \cup SanOptions) \ Options6) \cup Options6,
             (MarginalOptions \cup SanOptions) \cup Options6)
    BY <1>7, <2>1, DoneThen
  <2>3. QED  BY <2>2, DoneLess
<1>13. Chosen(m, m7, n, n7, Decided, Touched)
  <2>1. Chosen(m, m7, n, n7, (C3 \ C7) \cup C7, (C3 \cup {N, D}) \cup C7)
    BY <1>11, <1>12, DoneThen
  <2>2. QED  BY <2>1, DoneLess DEF Decided, Touched
<1>14. ASSUME set, Q \in DOMAIN m \cap DOMAIN n, m[Q] = FALSE, n[Q] = FALSE
       PROVE  Same(m7, n7, N) /\ N \in DOMAIN m7 /\ m7[N] = v
  <2>1. Q \notin Options1  BY DEF Options1
  <2>2. m1[Q] = FALSE /\ n1[Q] = FALSE  BY <1>1, <1>14, <2>1 DEF Chosen, Agree, Same
  <2>3. Same(m2, n2, N) /\ N \in DOMAIN m2 /\ m2[N] = v  BY <1>2, <1>14, <2>2
  <2>4. N \notin Options3 /\ N \notin {D} /\ N \notin C7
    BY DEF Options3, MarginalOptions, SanOptions, Options6
  <2>5. Same(m4, n4, N) /\ N \in DOMAIN m4 /\ m4[N] = v
    BY <1>3, <1>4, <2>3, <2>4 DEF Chosen, Agree, Same
  <2>6. QED  BY <1>12, <2>4, <2>5 DEF Chosen, Agree, Same
<1>15. "hardware_handler" \in DOMAIN m7 /\ (m7["hardware_handler"] = "alua" => all_tpgs(h))
  <2> DEFINE H == "hardware_handler"
  <2>1. H \notin Options3 /\ H \notin {D} /\ H \notin C7
    BY DEF Options3, MarginalOptions, SanOptions, Options6
  <2>2. Same(m2, m4, H)  BY <1>3, <1>4, <2>1 DEF Chosen, Agree, Same
  <2>3. Same(m4, m7, H)  BY <1>12, <2>1 DEF Chosen, Agree
  <2>4. QED  BY <1>2, <2>2, <2>3 DEF Same
<1>16. /\ D \in DOMAIN m7
       /\ m7[D] = IF D \in DOMAIN m /\ m[D] = "in progress" THEN "in progress" ELSE dr
  <2>1. D \notin C3 \cup {N} /\ D \notin C7
    BY DEF Options1, Options2, Options3, MarginalOptions, SanOptions, Options6
  <2>2. Same(m, m3, D)  BY <1>10, <2>1 DEF Chosen, Agree
  <2>3. Same(m4, m7, D)  BY <1>12, <2>1 DEF Chosen, Agree
  <2>4. QED  BY <1>4, <2>2, <2>3 DEF Same
<1>17. QED  BY <1>8, <1>13, <1>14, <1>15, <1>16 DEF set, dr, v

(***************************************************************************)
(* PropSelect: the inductive invariant                                     *)
(***************************************************************************)
DeferredRemove(c) == FirstOf(MpLayers(c), "deferred_remove", "no")

\* Nothing but the selection, the kernel and the operator changes the map.
SelKept == /\ Agree(smp, NewMap(layers), Touched \cup {"disable_queueing"})
           /\ "disable_queueing" \in DOMAIN smp
\* A map with paths is as a new one, but for queueing and a deferred removal,
\* whatever it went through; queueing too, unless it was disabled.
SelFresh ==
  hw.tpgs # <<>> =>
    Agree(smp, Fresh(layers, hw), {"no_path_retry", "deferred_remove", "disable_queueing"})
SelQueueing ==
  hw.tpgs # <<>> /\ asked = "setup" =>
    /\ smp["disable_queueing"] = FALSE
    /\ FirstOf(MpLayers(layers), "no_path_retry", "") # ""
       => Same(smp, Fresh(layers, hw), "no_path_retry")
\* The removal of a map is deferred if the configuration says so.
SelDeferred ==
  /\ "deferred_remove" \in DOMAIN smp
  /\ smp["deferred_remove"] = "in progress" => DeferredRemove(layers) = "yes"
  /\ hw.tpgs # <<>> => smp["deferred_remove"] \in {DeferredRemove(layers), "in progress"}
SelPath == hw.tpgs # <<>> => spp = SelectPath(layers, hw)
HwType == [tpgs : Seq(STRING), dh_state : Seq(STRING), dm_rq : BOOLEAN, dm_retain : BOOLEAN,
           linux43 : BOOLEAN, rdac : BOOLEAN, sysfs_state : BOOLEAN]
SelInv ==
  /\ layers \in LayerSets /\ hw \in HwType
  /\ SelKept /\ SelFresh /\ SelQueueing /\ SelDeferred /\ SelPath

LEMMA AgreeSymm ==
  ASSUME NEW m, NEW n, NEW E, Agree(m, n, E)
  PROVE  Agree(n, m, E)
BY DEF Agree, Same

LEMMA AgreeLess ==
  ASSUME NEW m, NEW n, NEW E, NEW F, Agree(m, n, E), E \subseteq F
  PROVE  Agree(m, n, F)
BY DEF Agree

\* setup_map() on any map.
LEMMA SetupKeeps ==
  ASSUME NEW c \in LayerSets, NEW h, NEW m
  PROVE  LET r == SetupMap(c, h, m)
         IN  /\ Agree(m, r, Touched \cup {"disable_queueing"})
             /\ "disable_queueing" \in DOMAIN m => "disable_queueing" \in DOMAIN r
             /\ "deferred_remove" \in DOMAIN r
             /\ LET going == /\ "deferred_remove" \in DOMAIN m
                             /\ m["deferred_remove"] = "in progress"
                IN  /\ r["deferred_remove"] = "in progress" <=> going
                    /\ h.tpgs # <<>> /\ ~going => r["deferred_remove"] = DeferredRemove(c)
<1> DEFINE Q == "disable_queueing"
           D == "deferred_remove"
           d == IF h.tpgs = <<>> THEN [c EXCEPT !.hwe = <<>>] ELSE c
           m1 == IF h.tpgs # <<>> THEN Put(m, Q, FALSE) ELSE m
           r == select_properties(d, h, m1)
           going == D \in DOMAIN m /\ m[D] = "in progress"
<1>1. SetupMap(c, h, m) = r  BY DEF SetupMap
<1> HIDE DEF d, m1
<1>2. /\ Chosen(m1, r, m1, r, Decided, Touched)
      /\ D \in DOMAIN r
      /\ r[D] = IF D \in DOMAIN m1 /\ m1[D] = "in progress" THEN "in progress"
                ELSE DeferredRemove(d)
  BY SelectDone DEF DeferredRemove
<1>3. Agree(m, m1, {Q})
  <2>1. Agree(m, m, {Q})  BY DEF Agree, Same
  <2>2. Agree(m, Put(m, Q, FALSE), {Q})  BY PutTouches
  <2>3. QED  BY <2>1, <2>2 DEF m1
<1>4. DeferredRemove(d) \in {"yes", "no"} /\ (h.tpgs # <<>> => d = c)
  BY SelAssumption DEF DeferredRemove, d
<1> HIDE DEF r
<1>5. Agree(m, r, {Q} \cup Touched)  BY <1>2, <1>3, AgreeTrans DEF Chosen
<1>6. Agree(m, r, Touched \cup {Q})  BY <1>5, AgreeLess
<1>7. Q \in DOMAIN m => Q \in DOMAIN r
  <2>1. Q \in DOMAIN m => Q \in DOMAIN m1  BY DEF m1, Put
  <2>2. Q \notin Touched
    BY DEF Touched, Decided, Options1, Options2, Options3, MarginalOptions, SanOptions, Options6
  <2>3. QED  BY <1>2, <2>1, <2>2 DEF Chosen, Agree, Same
<1>8. Same(m, m1, D)  BY <1>3 DEF Agree
<1>9. QED  BY <1>1, <1>2, <1>4, <1>6, <1>7, <1>8 DEF Same

\* setup_map() on a map with paths.
LEMMA SetupFresh ==
  ASSUME NEW c \in LayerSets, NEW h, h.tpgs # <<>>, NEW m,
         Agree(m, NewMap(c), Touched \cup {"disable_queueing"})
  PROVE  LET r == SetupMap(c, h, m)
             f == Fresh(c, h)
         IN  /\ Agree(r, f, {"no_path_retry", "deferred_remove"})
             /\ FirstOf(MpLayers(c), "no_path_retry", "") # "" => Same(r, f, "no_path_retry")
             /\ "disable_queueing" \in DOMAIN r /\ r["disable_queueing"] = FALSE
             /\ "hardware_handler" \in DOMAIN f
             /\ f["hardware_handler"] = "alua" => all_tpgs(h)
<1> DEFINE Q == "disable_queueing"
           N == "no_path_retry"
           new == NewMap(c)
           m1 == Put(m, Q, FALSE)
           n1 == Put(new, Q, FALSE)
           r == select_properties(c, h, m1)
           f == select_properties(c, h, n1)
<1>1. SetupMap(c, h, m) = r /\ Fresh(c, h) = f  BY DEF SetupMap, Fresh
<1>2. Chosen(m, m1, new, n1, {Q}, {Q})  BY PutDone
<1>3. Agree(m1, n1, ((Touched \cup {Q}) \cup {Q}) \ {Q})  BY <1>2, DoneAgree
<1>4. /\ Q \in DOMAIN m1 \cap DOMAIN n1 /\ m1[Q] = FALSE /\ n1[Q] = FALSE  BY DEF Put
<1> HIDE DEF m1, n1
<1>5. /\ Chosen(m1, r, n1, f, Decided, Touched)
      /\ FirstOf(MpLayers(c), N, "") # "" => Same(r, f, N)
  BY <1>4, SelectDone
<1>6. /\ "hardware_handler" \in DOMAIN f
      /\ f["hardware_handler"] = "alua" => all_tpgs(h)
  BY SelectDone
<1> HIDE DEF r, f
<1>7. Agree(r, f, ((((Touched \cup {Q}) \cup {Q}) \ {Q}) \cup Touched) \ Decided)
  BY <1>3, <1>5, DoneAgree
<1>8. Agree(r, f, {N, "deferred_remove"})  BY <1>7, AgreeLess DEF Touched
<1>9. Q \notin Touched
  BY DEF Touched, Decided, Options1, Options2, Options3, MarginalOptions, SanOptions, Options6
<1>10. Q \in DOMAIN r /\ r[Q] = FALSE  BY <1>4, <1>5, <1>9 DEF Chosen, Agree, Same
<1>11. QED  BY <1>1, <1>5, <1>6, <1>8, <1>10

\* A new map.
LEMMA FreshIs ==
  ASSUME NEW c \in LayerSets, NEW h
  PROVE  LET f == Fresh(c, h)
         IN  /\ Agree(f, NewMap(c), Touched \cup {"disable_queueing"})
             /\ "disable_queueing" \in DOMAIN f /\ "deferred_remove" \in DOMAIN f
             /\ f["deferred_remove"] # "in progress"
             /\ h.tpgs # <<>> => /\ f["disable_queueing"] = FALSE
                                 /\ f["deferred_remove"] = DeferredRemove(c)
<1> DEFINE new == NewMap(c)
<1>1. "disable_queueing" \in DOMAIN new /\ "deferred_remove" \notin DOMAIN new
  BY DEF NewMap
<1>2. Agree(new, new, Touched \cup {"disable_queueing"})  BY DEF Agree, Same
<1> HIDE DEF new
<1>3. h.tpgs # <<>> => SetupMap(c, h, new)["disable_queueing"] = FALSE
  BY <1>2, SetupFresh DEF new
<1>4. QED  BY <1>1, <1>3, SetupKeeps, AgreeSymm DEF Fresh, new

LEMMA FreshRetry ==
  ASSUME NEW c \in LayerSets, NEW h, h.tpgs # <<>>,
         FirstOf(MpLayers(c), "no_path_retry", "") # ""
  PROVE  /\ "no_path_retry" \in DOMAIN Fresh(c, h)
         /\ Fresh(c, h)["no_path_retry"] = FirstOf(MpLayers(c), "no_path_retry", "")
<1> DEFINE n1 == Put(NewMap(c), "disable_queueing", FALSE)
<1>1. Fresh(c, h) = select_properties(c, h, n1)  BY DEF SetupMap, Fresh
<1>2. "disable_queueing" \in DOMAIN n1 /\ n1["disable_queueing"] = FALSE  BY DEF Put
<1> HIDE DEF n1
<1>3. QED  BY <1>1, <1>2, SelectDone

\* The prioritizer of a path
LEMMA PrioAlua ==
  ASSUME NEW c, NEW h, h.tpgs # <<>>, SelectPath(c, h).prio = "alua"
  PROVE  h.tpgs[1] # "none"
<1>1. SelectPath(c, h).prio = select_prio(c, h)  BY DEF SelectPath
<1>2. QED  BY <1>1 DEF select_prio

LEMMA SelInitInv == SelInit => SelInv
<1> SUFFICES ASSUME SelInit PROVE SelInv  OBVIOUS
<1>1. layers \in LayerSets /\ hw \in HwType /\ hw.tpgs # <<>> /\ smp = Fresh(layers, hw)
  BY SelAssumption DEF SelInit, HwType
<1>2. SelKept /\ SelDeferred  BY <1>1, FreshIs DEF SelKept, SelDeferred
<1>3. SelFresh /\ SelQueueing  BY <1>1, FreshIs DEF SelFresh, SelQueueing, Agree, Same
<1>4. SelPath  BY DEF SelInit, SelPath
<1>5. QED  BY <1>1, <1>2, <1>3, <1>4 DEF SelInv

\* A map after setup_map(), from a map m that is like the one that was there
LEMMA SetupInv ==
  ASSUME SelInv, NEW m, Agree(smp, m, Touched \cup {"disable_queueing"}),
         "disable_queueing" \in DOMAIN m,
         "deferred_remove" \in DOMAIN m,
         m["deferred_remove"] = "in progress" => DeferredRemove(layers) = "yes",
         UNCHANGED layers, hw' \in HwType, smp' = SetupMap(layers, hw', m)
  PROVE  SelKept' /\ SelFresh' /\ SelQueueing' /\ SelDeferred'
<1> DEFINE T == Touched \cup {"disable_queueing"}
<1>1. layers \in LayerSets  BY DEF SelInv
<1>2. Agree(m, NewMap(layers), T)
  <2>1. Agree(m, smp, T) /\ Agree(smp, NewMap(layers), T)  BY AgreeSymm DEF SelInv, SelKept
  <2>2. Agree(m, NewMap(layers), T \cup T)  BY <2>1, AgreeTrans
  <2>3. QED  BY <2>2, AgreeLess
<1>3. SelKept'
  <2>1. /\ Agree(m, smp', T) /\ "disable_queueing" \in DOMAIN smp'
    BY <1>1, SetupKeeps
  <2>2. Agree(smp', NewMap(layers), T \cup T)  BY <1>2, <2>1, AgreeSymm, AgreeTrans
  <2>3. QED  BY <2>1, <2>2, AgreeLess DEF SelKept
<1>4. ASSUME (hw').tpgs # <<>>
      PROVE  /\ Agree(smp', Fresh(layers, hw'), {"no_path_retry", "deferred_remove"})
             /\ FirstOf(MpLayers(layers), "no_path_retry", "") # ""
                => Same(smp', Fresh(layers, hw'), "no_path_retry")
             /\ smp'["disable_queueing"] = FALSE
  BY <1>1, <1>2, <1>4, SetupFresh
<1>5. SelFresh' /\ SelQueueing'  BY <1>4, AgreeLess DEF SelFresh, SelQueueing
<1>6. SelDeferred'  BY <1>1, SetupKeeps DEF SelDeferred
<1>7. QED  BY <1>3, <1>5, <1>6

LEMMA ReloadInv ==
  ASSUME SelInv, NEW h \in Hardware, Reload(h)
  PROVE  SelInv'
<1>1. UNCHANGED layers /\ hw' = h /\ hw' \in HwType /\ smp' = SetupMap(layers, hw', smp)
  BY SelAssumption DEF Reload, HwType
<1>2. Agree(smp, smp, Touched \cup {"disable_queueing"})  BY DEF Agree, Same
<1>3. SelKept' /\ SelFresh' /\ SelQueueing' /\ SelDeferred'
  BY <1>1, <1>2, SetupInv DEF SelInv, SelKept, SelDeferred
<1>4. SelPath'  BY DEF Reload, SelPath
<1>5. QED  BY <1>1, <1>3, <1>4 DEF SelInv

LEMMA ReconfigureInv ==
  ASSUME SelInv, NEW c \in LayerSets, Reconfigure(c)
  PROVE  SelInv'
<1>1. layers' = c /\ hw' = hw /\ smp' = Fresh(c, hw)  BY DEF Reconfigure
<1>2. SelKept' /\ SelDeferred'  BY <1>1, FreshIs DEF SelKept, SelDeferred
<1>3. SelFresh' /\ SelQueueing'  BY <1>1, FreshIs DEF SelFresh, SelQueueing, Agree, Same
<1>4. SelPath'  BY DEF Reconfigure, SelPath
<1>5. QED  BY <1>1, <1>2, <1>3, <1>4 DEF SelInv

\* flush_map() and the options it changes before the map is set up without paths.
LEMMA RemovedInv ==
  ASSUME SelInv, LastPathRemoved
  PROVE  SelInv'
<1> DEFINE T == Touched \cup {"disable_queueing"}
           off == IF smp["flush_on_last_del"] = "yes"
                  THEN Put(Put(smp, "no_path_retry", "fail"), "disable_queueing", TRUE)
                  ELSE smp
           m == IF smp["deferred_remove"] = "no" THEN off
                ELSE Put(off, "deferred_remove", "in progress")
<1>1. UNCHANGED <<layers, spp>> /\ hw' \in HwType /\ (hw').tpgs = <<>> /\ hw.tpgs # <<>>
  <2>1. /\ hw \in HwType /\ hw' = [hw EXCEPT !.tpgs = <<>>, !.dh_state = <<>>]
        /\ UNCHANGED <<layers, spp>> /\ hw.tpgs # <<>>
    BY DEF LastPathRemoved, SelInv
  <2>2. <<>> \in Seq(STRING)  OBVIOUS
  <2> DEFINE S == Seq(STRING)
  <2> HIDE DEF S
  <2>3. HwType = [tpgs : S, dh_state : S, dm_rq : BOOLEAN, dm_retain : BOOLEAN,
                  linux43 : BOOLEAN, rdac : BOOLEAN, sysfs_state : BOOLEAN]
    BY DEF HwType, S
  <2>4. <<>> \in S  BY <2>2 DEF S
  <2>5. QED  BY <2>1, <2>3, <2>4
<1>2. smp' = SetupMap(layers, hw', m)  BY DEF LastPathRemoved
<1>3. \A x \in {"no_path_retry", "deferred_remove", "disable_queueing"} : x \in T
  BY DEF Touched
<1>4. /\ Agree(smp, off, T) /\ "disable_queueing" \in DOMAIN off
      /\ Same(smp, off, "deferred_remove")
  <2>1. "disable_queueing" \in DOMAIN smp  BY DEF SelInv, SelKept
  <2>2. QED  BY <1>3, <2>1 DEF Agree, Same, Put
<1> HIDE DEF off
<1>5. "deferred_remove" \in DOMAIN off /\ off["deferred_remove"] = smp["deferred_remove"]
  BY <1>4 DEF SelInv, SelDeferred, Same
<1>6. Agree(smp, m, T) /\ "disable_queueing" \in DOMAIN m
  BY <1>3, <1>4 DEF Agree, Same, Put
<1>7. "deferred_remove" \in DOMAIN m  BY <1>5 DEF Put
<1>8. m["deferred_remove"] = "in progress" => DeferredRemove(layers) = "yes"
  <2>1. DeferredRemove(layers) \in {"yes", "no"}
    BY SelAssumption DEF SelInv, DeferredRemove
  <2>2. QED  BY <1>1, <1>5, <2>1 DEF SelInv, SelDeferred
<1> HIDE DEF m, T
<1>9. SelKept' /\ SelFresh' /\ SelQueueing' /\ SelDeferred'
  BY <1>1, <1>2, <1>6, <1>7, <1>8, SetupInv DEF T
<1>10. SelPath'  BY <1>1 DEF SelPath
<1>11. QED  BY <1>1, <1>9, <1>10 DEF SelInv

\* What commands and the kernel change in the map
LEMMA CommandInv ==
  ASSUME SelInv, cli_disable_queueing \/ cli_restore_queueing \/ dm_cancel_deferred_remove
  PROVE  SelInv'
<1> DEFINE Q == "disable_queueing"
           N == "no_path_retry"
           D == "deferred_remove"
           T == Touched \cup {Q}
<1>1. UNCHANGED <<layers, hw, spp>> /\ N \in T /\ D \in T /\ Q \in T
  BY DEF cli_disable_queueing, cli_restore_queueing, dm_cancel_deferred_remove, Touched
<1>2. ASSUME Agree(smp, smp', {N, Q, D}), Q \in DOMAIN smp' PROVE SelKept' /\ SelFresh'
  <2>1. Agree(smp', smp, {N, Q, D})  BY <1>2, AgreeSymm
  <2>2. Agree(smp', NewMap(layers), {N, Q, D} \cup T)
    BY <2>1, AgreeTrans DEF SelInv, SelKept
  <2>3. SelKept'  BY <1>1, <1>2, <2>2, AgreeLess DEF SelKept
  <2>4. hw.tpgs # <<>> => Agree(smp', Fresh(layers, hw), {N, Q, D} \cup {N, D, Q})
    BY <2>1, AgreeTrans DEF SelInv, SelFresh
  <2>5. SelFresh'  BY <1>1, <2>4, AgreeLess DEF SelFresh
  <2>6. QED  BY <2>3, <2>5
<1>3. CASE cli_disable_queueing
  <2>1. smp' = Put(Put(smp, N, "fail"), Q, TRUE) /\ asked' = "cli"
    BY <1>3 DEF cli_disable_queueing
  <2>2. /\ Agree(smp, smp', {N, Q, D}) /\ Q \in DOMAIN smp' /\ Same(smp, smp', D)
    BY <2>1 DEF Agree, Same, Put
  <2>3. SelQueueing'  BY <2>1 DEF SelQueueing
  <2>4. SelDeferred'  BY <1>1, <2>2 DEF SelInv, SelDeferred, Same
  <2>5. QED  BY <1>1, <1>2, <2>2, <2>3, <2>4 DEF SelInv, SelPath
<1>4. CASE cli_restore_queueing
  <2> DEFINE m == Put(smp, Q, FALSE)
             v == FirstOf(MpLayers(layers), N, "")
  <2>1. smp' = select_no_path_retry(layers, m)  BY <1>4 DEF cli_restore_queueing
  <2>2. Q \in DOMAIN m /\ m[Q] = FALSE /\ Agree(smp, m, {Q})  BY DEF Agree, Same, Put
  <2> HIDE DEF m
  <2>3. smp' = IF v = "" THEN m ELSE Put(m, N, v)  BY <2>1, <2>2 DEF select_no_path_retry
  <2>4. /\ Agree(smp, smp', {N, Q, D}) /\ Q \in DOMAIN smp' /\ smp'[Q] = FALSE
        /\ Same(smp, smp', D)
        /\ v # "" => N \in DOMAIN smp' /\ smp'[N] = v
    BY <2>2, <2>3 DEF Agree, Same, Put
  <2>5. ASSUME hw.tpgs # <<>>, v # "" PROVE Same(smp', Fresh(layers, hw), N)
    <3>1. N \in DOMAIN Fresh(layers, hw) /\ Fresh(layers, hw)[N] = v
      BY <2>5, FreshRetry DEF SelInv
    <3>2. QED  BY <2>4, <2>5, <3>1 DEF Same
  <2>6. SelQueueing'  BY <1>1, <2>4, <2>5 DEF SelQueueing
  <2>7. SelDeferred'  BY <1>1, <2>4 DEF SelInv, SelDeferred, Same
  <2>8. QED  BY <1>1, <1>2, <2>4, <2>6, <2>7 DEF SelInv, SelPath
<1>5. CASE dm_cancel_deferred_remove
  <2>1. /\ smp' = Put(smp, D, "yes") /\ asked' = asked /\ hw.tpgs # <<>>
        /\ smp[D] = "in progress"
    BY <1>5 DEF dm_cancel_deferred_remove
  <2>2. /\ Agree(smp, smp', {N, Q, D}) /\ Q \in DOMAIN smp'
        /\ Same(smp, smp', Q) /\ Same(smp, smp', N)
        /\ D \in DOMAIN smp' /\ smp'[D] = "yes"
    BY <2>1 DEF SelInv, SelKept, Agree, Same, Put
  <2>3. SelQueueing'
    <3>1. Q \in DOMAIN smp  BY DEF SelInv, SelKept
    <3>2. QED  BY <1>1, <2>1, <2>2, <3>1 DEF SelInv, SelQueueing, Same
  <2>4. SelDeferred'  BY <1>1, <2>1, <2>2 DEF SelInv, SelDeferred
  <2>5. QED  BY <1>1, <1>2, <2>2, <2>3, <2>4 DEF SelInv, SelPath
<1>6. QED  BY <1>3, <1>4, <1>5

LEMMA SelNextInv == SelInv /\ [SelNext]_sel_vars => SelInv'
<1> SUFFICES ASSUME SelInv, [SelNext]_sel_vars PROVE SelInv'  OBVIOUS
<1>1. CASE LastPathRemoved  BY <1>1, RemovedInv
<1>2. CASE cli_disable_queueing \/ cli_restore_queueing \/ dm_cancel_deferred_remove
  BY <1>2, CommandInv
<1>3. CASE \E h \in Hardware : Reload(h)  BY <1>3, ReloadInv
<1>4. CASE \E c \in LayerSets : Reconfigure(c)  BY <1>4, ReconfigureInv
<1>5. CASE UNCHANGED sel_vars
  BY <1>5 DEF sel_vars, SelInv, SelKept, SelFresh, SelQueueing, SelDeferred, SelPath
<1>6. QED  BY <1>1, <1>2, <1>3, <1>4, <1>5 DEF SelNext

\* The invariant says what the property asks for.
LEMMA SelInvRight == SelInv => SelectedRight
<1> SUFFICES ASSUME SelInv PROVE SelectedRight  OBVIOUS
<1> DEFINE f == Fresh(layers, hw)
           new == NewMap(layers)
<1>1. layers \in LayerSets  BY DEF SelInv
<1>2. SelectStable
  <2> SUFFICES ASSUME asked = "setup", hw.tpgs # <<>>, NEW o \in DOMAIN smp \cup DOMAIN f
               PROVE  \/ o = "no_path_retry" /\ FirstOf(MpLayers(layers), o, "") = ""
                      \/ o = "deferred_remove" /\ smp[o] = "in progress"
                      \/ o \in DOMAIN smp \cap DOMAIN f /\ smp[o] = f[o]
    BY DEF SelectStable
  <2>1. CASE o = "no_path_retry"  BY <2>1 DEF SelInv, SelQueueing, Same
  <2>2. CASE o = "deferred_remove"
    BY <1>1, <2>2, FreshIs DEF SelInv, SelDeferred
  <2>3. CASE o = "disable_queueing"
    BY <1>1, <2>3, FreshIs DEF SelInv, SelKept, SelQueueing
  <2>4. CASE o \notin {"no_path_retry", "deferred_remove", "disable_queueing"}
    BY <2>4 DEF SelInv, SelFresh, Agree, Same
  <2>5. QED  BY <2>1, <2>2, <2>3, <2>4
<1>3. AluaSupported
  <2> SUFFICES ASSUME hw.tpgs # <<>>
               PROVE  /\ smp["hardware_handler"] = "alua" => all_tpgs(hw)
                      /\ spp.prio = "alua" => hw.tpgs[1] # "none"
    BY DEF AluaSupported
  <2>1. Agree(new, new, Touched \cup {"disable_queueing"})  BY DEF Agree, Same
  <2>2. "hardware_handler" \in DOMAIN f /\ (f["hardware_handler"] = "alua" => all_tpgs(hw))
    BY <1>1, <2>1, SetupFresh
  <2>3. Same(smp, f, "hardware_handler")  BY DEF SelInv, SelFresh, Agree
  <2>4. spp = SelectPath(layers, hw)  BY DEF SelInv, SelPath
  <2>5. QED  BY <2>2, <2>3, <2>4, PrioAlua DEF Same
<1>4. QED  BY <1>2, <1>3 DEF SelectedRight

\* For any configurations and hardware: reloads, reconfigurations, disabled and restored
\* queueing, and paths that go and come leave a map with what the configuration asks
\* for (SelectStable), and ALUA is only chosen where the storage supports it.
THEOREM SelectedRightTheorem == SelSpec => []SelectedRight
BY SelInitInv, SelNextInv, SelInvRight, PTL DEF SelSpec

(***************************************************************************)
(* Dict: what a line leaves in an option                                   *)
(***************************************************************************)

\* The value that is read back, and the one that counts, for an option of a section
Back(sect, kw, v) ==
  LET t == snprint(sect, kw, v)
  IN  IF t = None THEN Initial(sect, kw) ELSE handler(kw, t, Initial(sect, kw)).v
Counts(sect, kw, v) ==
  IF sect # "defaults" \/ IsSet(kw, v) THEN v
  ELSE IF kw = "ghost_delay" THEN NU_NO ELSE Printed(kw)

\* Lines, after set_value()
IsLine(t) == IsText(t) /\ t[1] # "u"

\* The values that lines leave in an option
Kept(kw, v) ==
  /\ kw \in StrOptions => v = Null \/ IsLine(v)
  /\ kw \in IntOptions \cup NonzeroOptions \cup MinioOptions \cup {"failback"} => v \in Int
  /\ kw \in YesNoOptions \cup {"queue_without_daemon", "log_checker_err", "vpd_vendor"}
       => v \in 0..1
  /\ kw \in YesNoUndefOptions \cup {"rr_weight"} => v \in 0..2
  /\ kw \in OffIntOptions => v \in Int /\ v >= NU_NO
  /\ kw = "polling_interval" => v \in 0..(MaxUint - 1)
  /\ kw = "max_polling_interval" => v \in Nat
  /\ kw = "partition_delimiter" => v = Null \/ (IsLine(v) /\ ~Is(v, "/UNSET/"))
  /\ kw = "find_multipaths" => v \in 1..5
  /\ kw = "mode" => v \in 0..512
  /\ kw = "fast_io_fail_tmo" => v \in Int /\ v >= MP_FAST_IO_FAIL_ZERO
  /\ kw = "dev_loss_tmo" => v \in Nat /\ v <= MaxUint
  /\ kw = "path_grouping_policy" => v \in 0..5
  /\ kw = "no_path_retry" => v \in Int /\ v >= NO_PATH_RETRY_QUEUE
  /\ kw = "reservation_key"
       => v \in {None, <<"w", "file">>} \/ \E n \in Nat : v = <<"k", n>> \/ v = <<"f", n>>
  /\ kw = "uxsock_timeout" => v \in Int /\ v >= DEFAULT_REPLY_TIMEOUT

\* Lines leave such a value, and it counts for the same when it is printed and read back.
Reads(sect, kw) ==
  /\ Kept(kw, Initial(sect, kw))
  /\ \A t, old : IsText(t) /\ Kept(kw, old) => Kept(kw, handler(kw, t, old).v)
  /\ \A v : Kept(kw, v) => /\ Kept(kw, Back(sect, kw, v))
                           /\ Counts(sect, kw, Back(sect, kw, v)) = Counts(sect, kw, v)

LEMMA SetValue ==
  ASSUME NEW t, IsText(t)
  PROVE  /\ IsLine(set_value(t))
         /\ IsLine(t) => set_value(t) = t
<1>1. CASE t[1] = "u"
  <2>1. set_value(t) = <<"l", <<t[2][1]>>>>  BY <1>1 DEF set_value
  <2>2. QED  BY <1>1, <2>1 DEF IsText, IsLine
<1>2. CASE t[1] # "u"  BY <1>2 DEF IsLine, set_value
<1>3. QED  BY <1>1, <1>2

LEMMA LineNumber ==
  ASSUME NEW t, IsLine(t), t[1] = "d"
  PROVE  t[2] \in Int /\ t[2] >= -999 /\ t[2] <= 999
<1>1. t[2] \in -MaxUint..MaxUint  BY DEF IsLine, IsText
<1>2. ASSUME NEW n \in -MaxUint..MaxUint
      PROVE  n \in Int /\ n >= -999 /\ n <= 999
  BY DEF MaxUint
<1>3. QED  BY <1>1, <1>2

LEMMA AtoiRange ==
  ASSUME NEW t, IsLine(t)
  PROVE  /\ atoi(t) \in Int /\ atoi(t) >= -999 /\ atoi(t) <= 999
         /\ ~IsNumeral(t) => atoi(t) = 0
<1>1. ASSUME NEW n \in 0..511
      PROVE  OctAsDec(n) \in Int /\ OctAsDec(n) >= 0 /\ OctAsDec(n) <= 999
  BY DEF OctAsDec
<1>2. CASE t[1] = "d"
  <2>1. atoi(t) = t[2]  BY <1>2 DEF atoi
  <2>2. QED  BY <1>2, <2>1, LineNumber DEF IsNumeral
<1>3. CASE t[1] = "o"
  <2>1. atoi(t) = OctAsDec(t[2])  BY <1>3 DEF atoi
  <2>2. t[2] \in 0..511  BY <1>3 DEF IsLine, IsText
  <2>3. OctAsDec(t[2]) \in Int /\ OctAsDec(t[2]) >= 0 /\ OctAsDec(t[2]) <= 999
    BY <1>1, <2>2
  <2>4. IsNumeral(t)  BY <1>3 DEF IsNumeral
  <2>5. QED  BY <2>1, <2>3, <2>4
<1>4. CASE t[1] \notin {"d", "o"}
  <2>1. atoi(t) = 0  BY <1>4 DEF atoi
  <2>2. QED  BY <1>4, <2>1
<1>5. QED  BY <1>2, <1>3, <1>4

LEMMA NumberIs ==
  ASSUME NEW v
  PROVE  /\ set_value(<<"d", v>>) = <<"d", v>> /\ IsNumeral(<<"d", v>>)
         /\ atoi(<<"d", v>>) = v /\ <<"d", v>> # None
         /\ \A w : ~Is(<<"d", v>>, w)
BY DEF set_value, IsNumeral, atoi, None, Is

LEMMA WordIs ==
  ASSUME NEW w
  PROVE  /\ set_value(Quoted(w)) = Quoted(w) /\ ~IsNumeral(Quoted(w))
         /\ atoi(Quoted(w)) = 0 /\ Quoted(w) # None
         /\ \A x : Quoted(w) # <<"d", x>>
         /\ \A x : Is(Quoted(w), x) <=> w = x
BY DEF set_value, IsNumeral, atoi, None, Quoted, Is

(************************** options of one kind ****************************)
Singles ==
  {"polling_interval", "max_polling_interval", "partition_delimiter", "find_multipaths",
   "uid_attrs", "mode", "uid", "gid", "fast_io_fail_tmo", "dev_loss_tmo",
   "path_grouping_policy", "max_fds", "rr_weight", "failback", "no_path_retry",
   "log_checker_err", "reservation_key", "uxsock_timeout", "vpd_vendor",
   "queue_without_daemon"}

LEMMA OptionKinds ==
  /\ StrOptions \cap (IntOptions \cup NonzeroOptions \cup MinioOptions \cup YesNoOptions
       \cup YesNoUndefOptions \cup OffIntOptions \cup Singles) = {}
  /\ IntOptions \cap (NonzeroOptions \cup MinioOptions \cup YesNoOptions
       \cup YesNoUndefOptions \cup OffIntOptions \cup Singles) = {}
  /\ NonzeroOptions \cap (MinioOptions \cup YesNoOptions
       \cup YesNoUndefOptions \cup OffIntOptions \cup Singles) = {}
  /\ MinioOptions \cap (YesNoOptions
       \cup YesNoUndefOptions \cup OffIntOptions \cup Singles) = {}
  /\ YesNoOptions \cap (YesNoUndefOptions \cup OffIntOptions \cup Singles) = {}
  /\ YesNoUndefOptions \cap (OffIntOptions \cup Singles) = {}
  /\ OffIntOptions \cap Singles = {}
<1>1. StrOptions \cap (IntOptions \cup NonzeroOptions \cup MinioOptions \cup YesNoOptions
       \cup YesNoUndefOptions \cup OffIntOptions \cup Singles) = {}
  BY DEF StrOptions, IntOptions, NonzeroOptions, MinioOptions, YesNoOptions,
     YesNoUndefOptions, OffIntOptions, Singles
<1>2. IntOptions \cap (NonzeroOptions \cup MinioOptions \cup YesNoOptions
       \cup YesNoUndefOptions \cup OffIntOptions \cup Singles) = {}
  BY DEF IntOptions, NonzeroOptions, MinioOptions, YesNoOptions,
     YesNoUndefOptions, OffIntOptions, Singles
<1>3. NonzeroOptions \cap (MinioOptions \cup YesNoOptions
       \cup YesNoUndefOptions \cup OffIntOptions \cup Singles) = {}
  BY DEF NonzeroOptions, MinioOptions, YesNoOptions, YesNoUndefOptions, OffIntOptions, Singles
<1>4. MinioOptions \cap (YesNoOptions
       \cup YesNoUndefOptions \cup OffIntOptions \cup Singles) = {}
  BY DEF MinioOptions, YesNoOptions, YesNoUndefOptions, OffIntOptions, Singles
<1>5. YesNoOptions \cap (YesNoUndefOptions \cup OffIntOptions \cup Singles) = {}
  BY DEF YesNoOptions, YesNoUndefOptions, OffIntOptions, Singles
<1>6. YesNoUndefOptions \cap (OffIntOptions \cup Singles) = {}
  BY DEF YesNoUndefOptions, OffIntOptions, Singles
<1>7. OffIntOptions \cap Singles = {}
  BY DEF OffIntOptions, Singles
<1>8. QED  BY <1>1, <1>2, <1>3, <1>4, <1>5, <1>6, <1>7

\* The values that options of numbers and words have in the three tables
LEMMA HandlerIs ==
  ASSUME NEW kw, NEW t0, NEW old
  PROVE  LET h == handler(kw, t0, old)
             t == set_value(t0)
         IN  /\ kw \in StrOptions => h = set_str(t, old)
             /\ kw \in IntOptions \cup NonzeroOptions \cup MinioOptions => h = set_int(t, old)
             /\ kw \in YesNoOptions \cup {"queue_without_daemon"} => h = set_yes_no(t, old)
             /\ kw \in YesNoUndefOptions => h = set_yes_no_undef(t, old)
             /\ kw \in OffIntOptions => h = set_off_int_undef(t, old)
<1>1. kw \in StrOptions => handler(kw, t0, old) = set_str(set_value(t0), old)
  BY OptionKinds DEF handler, Singles
<1>2. kw \in IntOptions \cup NonzeroOptions \cup MinioOptions
        => handler(kw, t0, old) = set_int(set_value(t0), old)
  BY OptionKinds DEF handler, Singles
<1>3. kw \in YesNoOptions \cup {"queue_without_daemon"}
        => handler(kw, t0, old) = set_yes_no(set_value(t0), old)
  BY OptionKinds DEF handler, Singles
<1>4. kw \in YesNoUndefOptions => handler(kw, t0, old) = set_yes_no_undef(set_value(t0), old)
  BY OptionKinds DEF handler, Singles
<1>5. kw \in OffIntOptions => handler(kw, t0, old) = set_off_int_undef(set_value(t0), old)
  BY OptionKinds DEF handler, Singles
<1>6. QED  BY <1>1, <1>2, <1>3, <1>4, <1>5

LEMMA HandlerOf ==
  ASSUME NEW kw \in Singles, NEW t0, NEW old
  PROVE  LET h == handler(kw, t0, old)
             t == set_value(t0)
         IN  /\ kw = "polling_interval" => h = checkint_handler(t, old)
             /\ kw = "max_polling_interval" => h = set_uint(t, old)
             /\ kw = "partition_delimiter" => h = def_partition_delim_handler(t, old)
             /\ kw = "find_multipaths" => h = def_find_multipaths_handler(t, old)
             /\ kw = "mode" => h = set_mode(t, old)
             /\ kw = "fast_io_fail_tmo" => h = set_fast_io_fail(t, old)
             /\ kw = "dev_loss_tmo" => h = set_dev_loss(t, old)
             /\ kw = "path_grouping_policy" => h = set_pgpolicy(t, old)
             /\ kw = "rr_weight" => h = set_rr_weight(t, old)
             /\ kw = "failback" => h = set_pgfailback(t, old)
             /\ kw = "no_path_retry" => h = no_path_retry_helper(t, old)
             /\ kw = "log_checker_err" => h = def_log_checker_err_handler(t, old)
             /\ kw = "reservation_key" => h = set_reservation_key(t, old)
             /\ kw = "uxsock_timeout" => h = def_uxsock_timeout_handler(t, old)
             /\ kw = "vpd_vendor" => h = hw_vpd_vendor_handler(t, old)
<1>1. /\ kw \notin StrOptions /\ kw \notin IntOptions \cup NonzeroOptions \cup MinioOptions
      /\ kw \notin YesNoOptions /\ kw \notin YesNoUndefOptions /\ kw \notin OffIntOptions
  BY OptionKinds
<1>2. QED  BY <1>1 DEF handler

\* What is printed is the value, or the default of an option that is not set.
Shown(sect, kw, v) == IF sect = "defaults" /\ ~IsSet(kw, v) THEN Printed(kw) ELSE v

LEMMA PrinterIs ==
  ASSUME NEW sect, NEW kw, NEW v0
  PROVE  LET s == snprint(sect, kw, v0)
             v == Shown(sect, kw, v0)
         IN  /\ kw \in StrOptions => s = print_str(v)
             /\ kw \in MinioOptions => s = IF sect = "defaults" THEN print_int(v)
                                           ELSE print_nonzero(v)
             /\ kw \in IntOptions => s = print_int(v)
             /\ kw \in NonzeroOptions => s = print_nonzero(v)
             /\ kw \in YesNoOptions => s = print_yes_no(v)
             /\ kw \in YesNoUndefOptions => s = print_yes_no_undef(v)
             /\ kw \in OffIntOptions => s = print_off_int_undef(v)
<1>1. kw \in StrOptions => snprint(sect, kw, v0) = print_str(Shown(sect, kw, v0))
  BY OptionKinds DEF snprint, Shown, Singles
<1>2. kw \in MinioOptions => snprint(sect, kw, v0) = IF sect = "defaults"
                                THEN print_int(Shown(sect, kw, v0))
                                ELSE print_nonzero(Shown(sect, kw, v0))
  BY OptionKinds DEF snprint, Shown, Singles
<1>3. kw \in IntOptions => snprint(sect, kw, v0) = print_int(Shown(sect, kw, v0))
  BY OptionKinds DEF snprint, Shown, Singles
<1>4. kw \in NonzeroOptions => snprint(sect, kw, v0) = print_nonzero(Shown(sect, kw, v0))
  BY OptionKinds DEF snprint, Shown, Singles
<1>5. kw \in YesNoOptions => snprint(sect, kw, v0) = print_yes_no(Shown(sect, kw, v0))
  BY OptionKinds DEF snprint, Shown, Singles
<1>6. kw \in YesNoUndefOptions => snprint(sect, kw, v0) = print_yes_no_undef(Shown(sect, kw, v0))
  BY OptionKinds DEF snprint, Shown, Singles
<1>7. kw \in OffIntOptions => snprint(sect, kw, v0) = print_off_int_undef(Shown(sect, kw, v0))
  BY OptionKinds DEF snprint, Shown, Singles
<1>8. QED  BY <1>1, <1>2, <1>3, <1>4, <1>5, <1>6, <1>7

LEMMA PrinterOf ==
  ASSUME NEW sect, NEW kw \in Singles, NEW v0
  PROVE  LET s == snprint(sect, kw, v0)
             v == Shown(sect, kw, v0)
         IN  /\ kw = "polling_interval" => s = print_int(v)
             /\ kw = "max_polling_interval" => s = print_int(v)
             /\ kw = "uxsock_timeout" => s = print_int(v)
             /\ kw = "partition_delimiter" => s = snprint_def_partition_delim(v)
             /\ kw = "find_multipaths" => s = snprint_def_find_multipaths(v)
             /\ kw = "queue_without_daemon" => s = snprint_def_queue_without_daemon(v)
             /\ kw = "mode" => s = print_mode(v)
             /\ kw = "fast_io_fail_tmo" => s = print_fast_io_fail(v)
             /\ kw = "dev_loss_tmo" => s = print_dev_loss(v)
             /\ kw = "path_grouping_policy" => s = print_pgpolicy(v)
             /\ kw = "rr_weight" => s = print_rr_weight(v)
             /\ kw = "failback" => s = print_pgfailback(v)
             /\ kw = "no_path_retry" => s = print_no_path_retry(v)
             /\ kw = "log_checker_err" => s = snprint_def_log_checker_err(v)
             /\ kw = "reservation_key" => s = print_reservation_key(v)
             /\ kw = "vpd_vendor" => s = snprint_hw_vpd_vendor(v)
<1>1. /\ kw \notin StrOptions /\ kw \notin IntOptions /\ kw \notin NonzeroOptions
      /\ kw \notin MinioOptions /\ kw \notin YesNoOptions /\ kw \notin YesNoUndefOptions
      /\ kw \notin OffIntOptions
  BY OptionKinds
<1>2. QED  BY <1>1 DEF snprint, Shown

\* Options that keep a number: 0 for not set.
LEMMA NumberOption ==
  ASSUME NEW sect, NEW kw, NEW v,
         kw \in IntOptions \cup NonzeroOptions \cup MinioOptions \cup YesNoOptions
                \cup YesNoUndefOptions \cup OffIntOptions
                \cup (Singles \ {"partition_delimiter", "uid_attrs", "reservation_key"})
  PROVE  /\ IsSet(kw, v) <=> v # 0
         /\ sect # "defaults" => Initial(sect, kw) = 0
         /\ ~IsString(kw)
<1>1. ~IsString(kw)  BY OptionKinds DEF IsString, Singles
<1>2. kw # "uid_attrs" /\ kw # "reservation_key"  BY OptionKinds DEF Singles
<1>3. QED  BY <1>1, <1>2 DEF IsSet, Initial

\* The defaults that are printed, and those that are used without a line
LEMMA PrintedIs ==
  ASSUME NEW kw
  PROVE  /\ kw \in NonzeroOptions \cup YesNoOptions => Printed(kw) = 0
         /\ kw \in IntOptions => Printed(kw) \in Int
         /\ kw \in MinioOptions => Printed(kw) \in Int \ {0}
         /\ kw \in YesNoUndefOptions => Printed(kw) \in {YNU_NO, YNU_YES}
         /\ kw \in OffIntOptions => Printed(kw) = IF kw = "ghost_delay" THEN 0 ELSE NU_NO
         /\ kw \in StrOptions => Printed(kw) = Null \/ \E w : Printed(kw) = Quoted(w)
<1>0. kw \in NonzeroOptions \cup YesNoOptions \cup IntOptions \cup MinioOptions
         \cup YesNoUndefOptions \cup OffIntOptions => Printed(kw) = PrintedInt(kw)
  BY NumberOption DEF Printed
<1>1. kw \in NonzeroOptions \cup YesNoOptions => Printed(kw) = 0
  <2>1. SUFFICES ASSUME kw \in NonzeroOptions \cup YesNoOptions PROVE Printed(kw) = 0
    OBVIOUS
  <2>2. kw \notin YesNoUndefOptions /\ kw \notin OffIntOptions  BY <2>1, OptionKinds
  <2>3. QED  BY <1>0, <2>1, <2>2 DEF PrintedInt, NonzeroOptions, YesNoOptions
<1>2. kw \in IntOptions => Printed(kw) \in Int
  <2>1. SUFFICES ASSUME kw \in IntOptions PROVE Printed(kw) \in Int
    OBVIOUS
  <2>2. kw \notin YesNoUndefOptions /\ kw \notin OffIntOptions  BY <2>1, OptionKinds
  <2>3. Printed(kw) = IF kw = "find_multipaths_timeout" THEN -10 ELSE 0
    BY <1>0, <2>1, <2>2 DEF PrintedInt, IntOptions
  <2>4. QED  BY <2>3
<1>3. kw \in MinioOptions => Printed(kw) \in Int \ {0}
  <2>1. SUFFICES ASSUME kw \in MinioOptions PROVE Printed(kw) \in Int \ {0}
    OBVIOUS
  <2>2. kw \notin YesNoUndefOptions /\ kw \notin OffIntOptions  BY <2>1, OptionKinds
  <2>3. Printed(kw) = IF kw = "rr_min_io" THEN 1000 ELSE 1
    BY <1>0, <2>1, <2>2 DEF PrintedInt, MinioOptions
  <2>4. QED  BY <2>3
<1>4. kw \in YesNoUndefOptions => Printed(kw) \in {YNU_NO, YNU_YES}
  <2>1. SUFFICES ASSUME kw \in YesNoUndefOptions PROVE Printed(kw) \in {YNU_NO, YNU_YES}
    OBVIOUS
  <2>2. kw \notin OffIntOptions  BY <2>1, OptionKinds
  <2>3. QED  BY <1>0, <2>1, <2>2 DEF PrintedInt, YesNoUndefOptions
<1>5. kw \in OffIntOptions => Printed(kw) = IF kw = "ghost_delay" THEN 0 ELSE NU_NO
  <2>1. SUFFICES ASSUME kw \in OffIntOptions
                 PROVE  Printed(kw) = IF kw = "ghost_delay" THEN 0 ELSE NU_NO
    OBVIOUS
  <2>2. kw \notin YesNoUndefOptions  BY <2>1, OptionKinds
  <2>3. QED  BY <1>0, <2>1, <2>2 DEF PrintedInt, OffIntOptions
<1>6. kw \in StrOptions => Printed(kw) = Null \/ \E w : Printed(kw) = Quoted(w)
  BY DEF Printed, PrintedStr, IsString, Quoted
<1>7. QED  BY <1>1, <1>2, <1>3, <1>4, <1>5, <1>6

LEMMA PrintedOf ==
  ASSUME NEW kw \in Singles
  PROVE  /\ kw \in {"rr_weight", "path_grouping_policy"} => Printed(kw) = 1
         /\ kw = "fast_io_fail_tmo" => Printed(kw) = 5
         /\ kw = "failback" => Printed(kw) = -1
         /\ kw = "partition_delimiter" => Printed(kw) = Null
         /\ kw \notin {"rr_weight", "path_grouping_policy", "fast_io_fail_tmo", "failback",
                       "partition_delimiter"} => Printed(kw) = 0
<1>1. kw \notin StrOptions /\ kw \notin YesNoUndefOptions /\ kw \notin OffIntOptions
  BY OptionKinds
<1>2. kw = "partition_delimiter" => Printed(kw) = Null
  BY DEF Printed, PrintedStr, IsString
<1>3. kw # "partition_delimiter" => Printed(kw) = PrintedInt(kw)
  BY <1>1 DEF Printed, IsString
<1>4. QED  BY <1>1, <1>2, <1>3 DEF PrintedInt, Singles

LEMMA InitialIs ==
  ASSUME NEW kw
  PROVE  LET i == Initial("defaults", kw)
         IN  /\ kw \in IntOptions => i \in Int
             /\ kw \in NonzeroOptions \cup MinioOptions \cup YesNoOptions => i = 0
             /\ kw \in YesNoUndefOptions => i = IF kw = "all_tg_pt" THEN YNU_NO ELSE 0
             /\ kw \in OffIntOptions => i = IF kw = "ghost_delay" THEN NU_NO ELSE 0
<1>1. kw \in IntOptions => Initial("defaults", kw) \in {0, 2, 3, 10, 30}
  BY NumberOption DEF Initial, IntOptions
<1>2. kw \in NonzeroOptions \cup MinioOptions \cup YesNoOptions => Initial("defaults", kw) = 0
  BY NumberOption DEF Initial, NonzeroOptions, MinioOptions, YesNoOptions
<1>3. kw \in YesNoUndefOptions
        => Initial("defaults", kw) = IF kw = "all_tg_pt" THEN YNU_NO ELSE 0
  BY NumberOption DEF Initial, YesNoUndefOptions
<1>4. kw \in OffIntOptions => Initial("defaults", kw) = IF kw = "ghost_delay" THEN NU_NO ELSE 0
  BY NumberOption DEF Initial, OffIntOptions
<1>5. QED  BY <1>1, <1>2, <1>3, <1>4

LEMMA InitialOf ==
  ASSUME NEW sect, NEW kw \in Singles
  PROVE  LET i == Initial(sect, kw)
         IN  /\ kw = "partition_delimiter" => i = Null
             /\ kw = "reservation_key" => i = None
             /\ sect = "defaults" /\ kw = "polling_interval" => i = 5
             /\ sect = "defaults" /\ kw = "max_polling_interval" => i = 20
             /\ sect = "defaults" /\ kw = "find_multipaths" => i = DEFAULT_FIND_MULTIPATHS
             /\ sect = "defaults" /\ kw = "uxsock_timeout" => i = DEFAULT_REPLY_TIMEOUT
             /\ sect = "defaults"
                /\ kw \notin {"partition_delimiter", "reservation_key", "polling_interval",
                              "max_polling_interval", "find_multipaths", "uxsock_timeout",
                              "max_fds", "uid_attrs"} => i = 0
<1>1. kw \notin StrOptions  BY OptionKinds
<1>2. QED  BY <1>1 DEF Initial, IsString, Singles

\* Integers
LEMMA IntReads ==
  ASSUME NEW sect, NEW kw \in IntOptions
  PROVE  Reads(sect, kw)
<1>1. \A t, old : handler(kw, t, old) = set_int(set_value(t), old)
  BY HandlerIs DEF Singles
<1>2. \A v : snprint(sect, kw, v) = print_int(Shown(sect, kw, v))
  BY PrinterIs DEF Singles
<1>3. \A v : Kept(kw, v) <=> v \in Int
  BY OptionKinds DEF Kept, Singles
<1>4. \A v : IsSet(kw, v) <=> v # 0
  BY NumberOption DEF Singles
<1>5. sect # "defaults" => Initial(sect, kw) = 0
  BY NumberOption DEF Singles
<1>6. sect = "defaults" => Initial(sect, kw) \in Int
  BY InitialIs DEF Singles, YNU_NO
<1>7. Printed(kw) \in Int
  BY PrintedIs DEF Singles
<1>8. Kept(kw, Initial(sect, kw))
  BY <1>3, <1>5, <1>6 DEF MaxUint
<1>9. ASSUME NEW t, NEW old, IsText(t), Kept(kw, old)
      PROVE  Kept(kw, handler(kw, t, old).v)
  <2>1. IsLine(set_value(t))  BY <1>9, SetValue
  <2>2. /\ atoi(set_value(t)) \in Int
        /\ atoi(set_value(t)) >= -999 /\ atoi(set_value(t)) <= 999
    BY <2>1, AtoiRange
  <2>3. old \in Int  BY <1>3, <1>9
  <2>4. ASSUME NEW l, atoi(l) \in Int, atoi(l) >= -999, atoi(l) <= 999
        PROVE  set_int(l, old).v \in Int
    BY <2>3, <2>4 DEF set_int, Ok, Bad, MaxUint
  <2>5. set_int(set_value(t), old).v \in Int  BY <2>2, <2>4
  <2>6. QED  BY <1>1, <1>3, <2>5
<1>10. ASSUME NEW v, Kept(kw, v)
       PROVE  /\ Kept(kw, Back(sect, kw, v))
              /\ Counts(sect, kw, Back(sect, kw, v)) = Counts(sect, kw, v)
  <2>1. CASE v # 0
    <3>1. Shown(sect, kw, v) = v  BY <1>4, <2>1 DEF Shown
    <3>2. Back(sect, kw, v) = v
      BY <1>1, <1>2, <1>3, <1>10, <2>1, <3>1, NumberIs, WordIs
      DEF Back, set_int, print_int, Ok, Bad, MaxUint
    <3>3. QED  BY <1>10, <3>2
  <2>2. CASE v = 0 /\ sect # "defaults"
    <3>1. Shown(sect, kw, v) = 0  BY <2>2 DEF Shown
    <3>2. Back(sect, kw, v) = 0
      BY <1>1, <1>2, <1>3, <1>5, <1>10, <2>2, <3>1, NumberIs, WordIs
      DEF Back, set_int, print_int, Ok, Bad, MaxUint
    <3>3. QED  BY <1>10, <2>2, <3>2
  <2>3. CASE v = 0 /\ sect = "defaults"
    <3>1. Shown(sect, kw, v) = Printed(kw)  BY <1>4, <2>3 DEF Shown
    <3>2. Back(sect, kw, v) = Printed(kw) /\ kw # "ghost_delay"
      BY <1>1, <1>2, <1>3, <1>6, <1>7, <1>10, <2>3, <3>1, NumberIs, WordIs, OptionKinds
      DEF Back, set_int, print_int, Ok, Bad, Singles, OffIntOptions, MaxUint
    <3>3. Kept(kw, Back(sect, kw, v))  BY <1>3, <1>7, <3>2 DEF MaxUint
    <3>4. QED  BY <1>4, <1>7, <2>3, <3>2, <3>3 DEF Counts, NU_NO
  <2>4. QED  BY <2>1, <2>2, <2>3
<1>11. QED  BY <1>8, <1>9, <1>10 DEF Reads

\* Integers of which 0 is not printed
LEMMA NonzeroReads ==
  ASSUME NEW sect, NEW kw \in NonzeroOptions
  PROVE  Reads(sect, kw)
<1>1. \A t, old : handler(kw, t, old) = set_int(set_value(t), old)
  BY HandlerIs DEF Singles
<1>2. \A v : snprint(sect, kw, v) = print_nonzero(Shown(sect, kw, v))
  BY PrinterIs DEF Singles
<1>3. \A v : Kept(kw, v) <=> v \in Int
  BY OptionKinds DEF Kept, Singles
<1>4. \A v : IsSet(kw, v) <=> v # 0
  BY NumberOption DEF Singles
<1>5. sect # "defaults" => Initial(sect, kw) = 0
  BY NumberOption DEF Singles
<1>6. sect = "defaults" => Initial(sect, kw) = 0
  BY InitialIs DEF Singles, YNU_NO
<1>7. Printed(kw) = 0
  BY PrintedIs DEF Singles
<1>8. Kept(kw, Initial(sect, kw))
  BY <1>3, <1>5, <1>6 DEF MaxUint
<1>9. ASSUME NEW t, NEW old, IsText(t), Kept(kw, old)
      PROVE  Kept(kw, handler(kw, t, old).v)
  <2>1. IsLine(set_value(t))  BY <1>9, SetValue
  <2>2. /\ atoi(set_value(t)) \in Int
        /\ atoi(set_value(t)) >= -999 /\ atoi(set_value(t)) <= 999
    BY <2>1, AtoiRange
  <2>3. old \in Int  BY <1>3, <1>9
  <2>4. ASSUME NEW l, atoi(l) \in Int, atoi(l) >= -999, atoi(l) <= 999
        PROVE  set_int(l, old).v \in Int
    BY <2>3, <2>4 DEF set_int, Ok, Bad, MaxUint
  <2>5. set_int(set_value(t), old).v \in Int  BY <2>2, <2>4
  <2>6. QED  BY <1>1, <1>3, <2>5
<1>10. ASSUME NEW v, Kept(kw, v)
       PROVE  /\ Kept(kw, Back(sect, kw, v))
              /\ Counts(sect, kw, Back(sect, kw, v)) = Counts(sect, kw, v)
  <2>1. CASE v # 0
    <3>1. Shown(sect, kw, v) = v  BY <1>4, <2>1 DEF Shown
    <3>2. Back(sect, kw, v) = v
      BY <1>1, <1>2, <1>3, <1>10, <2>1, <3>1, NumberIs, WordIs
      DEF Back, set_int, print_nonzero, Ok, Bad, MaxUint
    <3>3. QED  BY <1>10, <3>2
  <2>2. CASE v = 0 /\ sect # "defaults"
    <3>1. Shown(sect, kw, v) = 0  BY <2>2 DEF Shown
    <3>2. Back(sect, kw, v) = 0
      BY <1>1, <1>2, <1>3, <1>5, <1>10, <2>2, <3>1, NumberIs, WordIs
      DEF Back, set_int, print_nonzero, Ok, Bad, MaxUint
    <3>3. QED  BY <1>10, <2>2, <3>2
  <2>3. CASE v = 0 /\ sect = "defaults"
    <3>1. Shown(sect, kw, v) = Printed(kw)  BY <1>4, <2>3 DEF Shown
    <3>2. Back(sect, kw, v) = Printed(kw) /\ kw # "ghost_delay"
      BY <1>1, <1>2, <1>3, <1>6, <1>7, <1>10, <2>3, <3>1, NumberIs, WordIs, OptionKinds
      DEF Back, set_int, print_nonzero, Ok, Bad, Singles, OffIntOptions, MaxUint
    <3>3. Kept(kw, Back(sect, kw, v))  BY <1>3, <1>7, <3>2 DEF MaxUint
    <3>4. QED  BY <1>4, <1>7, <2>3, <3>2, <3>3 DEF Counts, NU_NO
  <2>4. QED  BY <2>1, <2>2, <2>3
<1>11. QED  BY <1>8, <1>9, <1>10 DEF Reads

\* Integers of which 0 is not printed, but for the default
LEMMA MinioReads ==
  ASSUME NEW sect, NEW kw \in MinioOptions
  PROVE  Reads(sect, kw)
<1>1. \A t, old : handler(kw, t, old) = set_int(set_value(t), old)
  BY HandlerIs DEF Singles
<1>2. \A v : snprint(sect, kw, v) = IF sect = "defaults" THEN print_int(Shown(sect, kw, v))
                                          ELSE print_nonzero(Shown(sect, kw, v))
  BY PrinterIs DEF Singles
<1>3. \A v : Kept(kw, v) <=> v \in Int
  BY OptionKinds DEF Kept, Singles
<1>4. \A v : IsSet(kw, v) <=> v # 0
  BY NumberOption DEF Singles
<1>5. sect # "defaults" => Initial(sect, kw) = 0
  BY NumberOption DEF Singles
<1>6. sect = "defaults" => Initial(sect, kw) = 0
  BY InitialIs DEF Singles, YNU_NO
<1>7. Printed(kw) \in Int \ {0}
  BY PrintedIs DEF Singles
<1>8. Kept(kw, Initial(sect, kw))
  BY <1>3, <1>5, <1>6 DEF MaxUint
<1>9. ASSUME NEW t, NEW old, IsText(t), Kept(kw, old)
      PROVE  Kept(kw, handler(kw, t, old).v)
  <2>1. IsLine(set_value(t))  BY <1>9, SetValue
  <2>2. /\ atoi(set_value(t)) \in Int
        /\ atoi(set_value(t)) >= -999 /\ atoi(set_value(t)) <= 999
    BY <2>1, AtoiRange
  <2>3. old \in Int  BY <1>3, <1>9
  <2>4. ASSUME NEW l, atoi(l) \in Int, atoi(l) >= -999, atoi(l) <= 999
        PROVE  set_int(l, old).v \in Int
    BY <2>3, <2>4 DEF set_int, Ok, Bad, MaxUint
  <2>5. set_int(set_value(t), old).v \in Int  BY <2>2, <2>4
  <2>6. QED  BY <1>1, <1>3, <2>5
<1>10. ASSUME NEW v, Kept(kw, v)
       PROVE  /\ Kept(kw, Back(sect, kw, v))
              /\ Counts(sect, kw, Back(sect, kw, v)) = Counts(sect, kw, v)
  <2>1. CASE v # 0
    <3>1. Shown(sect, kw, v) = v  BY <1>4, <2>1 DEF Shown
    <3>2. Back(sect, kw, v) = v
      BY <1>1, <1>2, <1>3, <1>10, <2>1, <3>1, NumberIs, WordIs
      DEF Back, set_int, print_int, print_nonzero, Ok, Bad, MaxUint
    <3>3. QED  BY <1>10, <3>2
  <2>2. CASE v = 0 /\ sect # "defaults"
    <3>1. Shown(sect, kw, v) = 0  BY <2>2 DEF Shown
    <3>2. Back(sect, kw, v) = 0
      BY <1>1, <1>2, <1>3, <1>5, <1>10, <2>2, <3>1, NumberIs, WordIs
      DEF Back, set_int, print_int, print_nonzero, Ok, Bad, MaxUint
    <3>3. QED  BY <1>10, <2>2, <3>2
  <2>3. CASE v = 0 /\ sect = "defaults"
    <3>1. Shown(sect, kw, v) = Printed(kw)  BY <1>4, <2>3 DEF Shown
    <3>2. Back(sect, kw, v) = Printed(kw) /\ kw # "ghost_delay"
      BY <1>1, <1>2, <1>3, <1>6, <1>7, <1>10, <2>3, <3>1, NumberIs, WordIs, OptionKinds
      DEF Back, set_int, print_int, print_nonzero, Ok, Bad, Singles, OffIntOptions, MaxUint
    <3>3. Kept(kw, Back(sect, kw, v))  BY <1>3, <1>7, <3>2 DEF MaxUint
    <3>4. QED  BY <1>4, <1>7, <2>3, <3>2, <3>3 DEF Counts, NU_NO
  <2>4. QED  BY <2>1, <2>2, <2>3
<1>11. QED  BY <1>8, <1>9, <1>10 DEF Reads

\* "yes" and "no"
LEMMA YesNoReads ==
  ASSUME NEW sect, NEW kw \in YesNoOptions
  PROVE  Reads(sect, kw)
<1>1. \A t, old : handler(kw, t, old) = set_yes_no(set_value(t), old)
  BY HandlerIs DEF Singles
<1>2. \A v : snprint(sect, kw, v) = print_yes_no(Shown(sect, kw, v))
  BY PrinterIs DEF Singles
<1>3. \A v : Kept(kw, v) <=> v \in 0..1
  BY OptionKinds DEF Kept, Singles
<1>4. \A v : IsSet(kw, v) <=> v # 0
  BY NumberOption DEF Singles
<1>5. sect # "defaults" => Initial(sect, kw) = 0
  BY NumberOption DEF Singles
<1>6. sect = "defaults" => Initial(sect, kw) = 0
  BY InitialIs DEF Singles, YNU_NO
<1>7. Printed(kw) = 0
  BY PrintedIs DEF Singles
<1>8. Kept(kw, Initial(sect, kw))
  BY <1>3, <1>5, <1>6 DEF MaxUint, YN_NO, YN_YES
<1>9. ASSUME NEW t, NEW old, IsText(t), Kept(kw, old)
      PROVE  Kept(kw, handler(kw, t, old).v)
  <2>1. IsLine(set_value(t))  BY <1>9, SetValue
  <2>2. /\ atoi(set_value(t)) \in Int
        /\ atoi(set_value(t)) >= -999 /\ atoi(set_value(t)) <= 999
    BY <2>1, AtoiRange
  <2>3. old \in 0..1  BY <1>3, <1>9
  <2>4. ASSUME NEW l, atoi(l) \in Int, atoi(l) >= -999, atoi(l) <= 999
        PROVE  set_yes_no(l, old).v \in 0..1
    BY <2>3, <2>4 DEF set_yes_no, Is, Ok, Bad, MaxUint, YN_NO, YN_YES
  <2>5. set_yes_no(set_value(t), old).v \in 0..1  BY <2>2, <2>4
  <2>6. QED  BY <1>1, <1>3, <2>5
<1>10. ASSUME NEW v, Kept(kw, v)
       PROVE  /\ Kept(kw, Back(sect, kw, v))
              /\ Counts(sect, kw, Back(sect, kw, v)) = Counts(sect, kw, v)
  <2>1. CASE v # 0
    <3>1. Shown(sect, kw, v) = v  BY <1>4, <2>1 DEF Shown
    <3>2. Back(sect, kw, v) = v
      BY <1>1, <1>2, <1>3, <1>10, <2>1, <3>1, NumberIs, WordIs
      DEF Back, set_yes_no, Is, print_yes_no, Ok, Bad, MaxUint, YN_NO, YN_YES
    <3>3. QED  BY <1>10, <3>2
  <2>2. CASE v = 0 /\ sect # "defaults"
    <3>1. Shown(sect, kw, v) = 0  BY <2>2 DEF Shown
    <3>2. Back(sect, kw, v) = 0
      BY <1>1, <1>2, <1>3, <1>5, <1>10, <2>2, <3>1, NumberIs, WordIs
      DEF Back, set_yes_no, Is, print_yes_no, Ok, Bad, MaxUint, YN_NO, YN_YES
    <3>3. QED  BY <1>10, <2>2, <3>2
  <2>3. CASE v = 0 /\ sect = "defaults"
    <3>1. Shown(sect, kw, v) = Printed(kw)  BY <1>4, <2>3 DEF Shown
    <3>2. Back(sect, kw, v) = Printed(kw) /\ kw # "ghost_delay"
      BY <1>1, <1>2, <1>3, <1>6, <1>7, <1>10, <2>3, <3>1, NumberIs, WordIs, OptionKinds
      DEF Back, set_yes_no, Is, print_yes_no, Ok, Bad, Singles, OffIntOptions, MaxUint, YN_NO,
          YN_YES
    <3>3. Kept(kw, Back(sect, kw, v))  BY <1>3, <1>7, <3>2 DEF MaxUint, YN_NO, YN_YES
    <3>4. QED  BY <1>4, <1>7, <2>3, <3>2, <3>3 DEF Counts, NU_NO
  <2>4. QED  BY <2>1, <2>2, <2>3
<1>11. QED  BY <1>8, <1>9, <1>10 DEF Reads

\* "yes", "no" or not set
LEMMA YesNoUndefReads ==
  ASSUME NEW sect, NEW kw \in YesNoUndefOptions
  PROVE  Reads(sect, kw)
<1>1. \A t, old : handler(kw, t, old) = set_yes_no_undef(set_value(t), old)
  BY HandlerIs DEF Singles
<1>2. \A v : snprint(sect, kw, v) = print_yes_no_undef(Shown(sect, kw, v))
  BY PrinterIs DEF Singles
<1>3. \A v : Kept(kw, v) <=> v \in 0..2
  BY OptionKinds DEF Kept, Singles
<1>4. \A v : IsSet(kw, v) <=> v # 0
  BY NumberOption DEF Singles
<1>5. sect # "defaults" => Initial(sect, kw) = 0
  BY NumberOption DEF Singles
<1>6. sect = "defaults" => Initial(sect, kw) \in 0..1
  BY InitialIs DEF Singles, YNU_NO
<1>7. Printed(kw) \in {YNU_NO, YNU_YES}
  BY PrintedIs DEF Singles
<1>8. Kept(kw, Initial(sect, kw))
  BY <1>3, <1>5, <1>6 DEF MaxUint, YNU_UNDEF, YNU_NO, YNU_YES
<1>9. ASSUME NEW t, NEW old, IsText(t), Kept(kw, old)
      PROVE  Kept(kw, handler(kw, t, old).v)
  <2>1. IsLine(set_value(t))  BY <1>9, SetValue
  <2>2. /\ atoi(set_value(t)) \in Int
        /\ atoi(set_value(t)) >= -999 /\ atoi(set_value(t)) <= 999
    BY <2>1, AtoiRange
  <2>3. old \in 0..2  BY <1>3, <1>9
  <2>4. ASSUME NEW l, atoi(l) \in Int, atoi(l) >= -999, atoi(l) <= 999
        PROVE  set_yes_no_undef(l, old).v \in 0..2
    BY <2>3, <2>4 DEF set_yes_no_undef, Ok, Bad, MaxUint, YNU_UNDEF, YNU_NO, YNU_YES
  <2>5. set_yes_no_undef(set_value(t), old).v \in 0..2  BY <2>2, <2>4
  <2>6. QED  BY <1>1, <1>3, <2>5
<1>10. ASSUME NEW v, Kept(kw, v)
       PROVE  /\ Kept(kw, Back(sect, kw, v))
              /\ Counts(sect, kw, Back(sect, kw, v)) = Counts(sect, kw, v)
  <2>1. CASE v # 0
    <3>1. Shown(sect, kw, v) = v  BY <1>4, <2>1 DEF Shown
    <3>2. Back(sect, kw, v) = v
      BY <1>1, <1>2, <1>3, <1>10, <2>1, <3>1, NumberIs, WordIs
      DEF Back, set_yes_no_undef, print_yes_no_undef, Ok, Bad, MaxUint, YNU_UNDEF, YNU_NO,
          YNU_YES
    <3>3. QED  BY <1>10, <3>2
  <2>2. CASE v = 0 /\ sect # "defaults"
    <3>1. Shown(sect, kw, v) = 0  BY <2>2 DEF Shown
    <3>2. Back(sect, kw, v) = 0
      BY <1>1, <1>2, <1>3, <1>5, <1>10, <2>2, <3>1, NumberIs, WordIs
      DEF Back, set_yes_no_undef, print_yes_no_undef, Ok, Bad, MaxUint, YNU_UNDEF, YNU_NO,
          YNU_YES
    <3>3. QED  BY <1>10, <2>2, <3>2
  <2>3. CASE v = 0 /\ sect = "defaults"
    <3>1. Shown(sect, kw, v) = Printed(kw)  BY <1>4, <2>3 DEF Shown
    <3>2. Back(sect, kw, v) = Printed(kw) /\ kw # "ghost_delay"
      BY <1>1, <1>2, <1>3, <1>6, <1>7, <1>10, <2>3, <3>1, NumberIs, WordIs, OptionKinds
      DEF Back, set_yes_no_undef, print_yes_no_undef, Ok, Bad, Singles, OffIntOptions, MaxUint,
          YNU_UNDEF, YNU_NO, YNU_YES
    <3>3. Kept(kw, Back(sect, kw, v))  BY <1>3, <1>7, <3>2 DEF MaxUint, YNU_UNDEF, YNU_NO,
         YNU_YES
    <3>4. QED  BY <1>4, <1>7, <2>3, <3>2, <3>3 DEF Counts, NU_NO
  <2>4. QED  BY <2>1, <2>2, <2>3
<1>11. QED  BY <1>8, <1>9, <1>10 DEF Reads

\* A number, "no" or not set
LEMMA OffIntReads ==
  ASSUME NEW sect, NEW kw \in OffIntOptions
  PROVE  Reads(sect, kw)
<1>1. \A t, old : handler(kw, t, old) = set_off_int_undef(set_value(t), old)
  BY HandlerIs DEF Singles
<1>2. \A v : snprint(sect, kw, v) = print_off_int_undef(Shown(sect, kw, v))
  BY PrinterIs DEF Singles
<1>3. \A v : Kept(kw, v) <=> v \in Int /\ v >= NU_NO
  BY OptionKinds DEF Kept, Singles
<1>4. \A v : IsSet(kw, v) <=> v # 0
  BY NumberOption DEF Singles
<1>5. sect # "defaults" => Initial(sect, kw) = 0
  BY NumberOption DEF Singles
<1>6. sect = "defaults" => Initial(sect, kw) = IF kw = "ghost_delay" THEN NU_NO ELSE 0
  BY InitialIs DEF Singles, YNU_NO
<1>7. Printed(kw) = IF kw = "ghost_delay" THEN 0 ELSE NU_NO
  BY PrintedIs DEF Singles
<1>8. Kept(kw, Initial(sect, kw))
  BY <1>3, <1>5, <1>6 DEF MaxUint, NU_NO, NU_UNDEF
<1>9. ASSUME NEW t, NEW old, IsText(t), Kept(kw, old)
      PROVE  Kept(kw, handler(kw, t, old).v)
  <2>1. IsLine(set_value(t))  BY <1>9, SetValue
  <2>2. /\ atoi(set_value(t)) \in Int
        /\ atoi(set_value(t)) >= -999 /\ atoi(set_value(t)) <= 999
    BY <2>1, AtoiRange
  <2>3. old \in Int /\ old >= NU_NO  BY <1>3, <1>9
  <2>4. ASSUME NEW l, atoi(l) \in Int, atoi(l) >= -999, atoi(l) <= 999
        PROVE  set_off_int_undef(l, old).v \in Int /\ set_off_int_undef(l, old).v >= NU_NO
    BY <2>3, <2>4 DEF set_off_int_undef, Ok, Bad, MaxUint, NU_NO, NU_UNDEF
  <2>5. set_off_int_undef(set_value(t), old).v \in Int /\ set_off_int_undef(set_value(t),
       old).v >= NU_NO  BY <2>2, <2>4
  <2>6. QED  BY <1>1, <1>3, <2>5
<1>10. ASSUME NEW v, Kept(kw, v)
       PROVE  /\ Kept(kw, Back(sect, kw, v))
              /\ Counts(sect, kw, Back(sect, kw, v)) = Counts(sect, kw, v)
  <2>1. CASE v # 0
    <3>1. Shown(sect, kw, v) = v  BY <1>4, <2>1 DEF Shown
    <3>2. Back(sect, kw, v) = v
      BY <1>1, <1>2, <1>3, <1>10, <2>1, <3>1, NumberIs, WordIs
      DEF Back, set_off_int_undef, print_off_int_undef, Ok, Bad, MaxUint, NU_NO, NU_UNDEF
    <3>3. QED  BY <1>10, <3>2
  <2>2. CASE v = 0 /\ sect # "defaults"
    <3>1. Shown(sect, kw, v) = 0  BY <2>2 DEF Shown
    <3>2. Back(sect, kw, v) = 0
      BY <1>1, <1>2, <1>3, <1>5, <1>10, <2>2, <3>1, NumberIs, WordIs
      DEF Back, set_off_int_undef, print_off_int_undef, Ok, Bad, MaxUint, NU_NO, NU_UNDEF
    <3>3. QED  BY <1>10, <2>2, <3>2
  <2>3. CASE v = 0 /\ sect = "defaults"
    <3>1. Shown(sect, kw, v) = Printed(kw)  BY <1>4, <2>3 DEF Shown
    <3>2. \/ Back(sect, kw, v) = Printed(kw) /\ (kw = "ghost_delay" => Printed(kw) # 0)
          \/ kw = "ghost_delay" /\ Back(sect, kw, v) = NU_NO
      BY <1>1, <1>2, <1>3, <1>6, <1>7, <1>10, <2>3, <3>1, NumberIs, WordIs, OptionKinds
      DEF Back, set_off_int_undef, print_off_int_undef, Ok, Bad, Singles, OffIntOptions,
          MaxUint, NU_NO, NU_UNDEF
    <3>3. Kept(kw, Back(sect, kw, v))  BY <1>3, <1>7, <3>2 DEF MaxUint, NU_NO, NU_UNDEF
    <3>4. QED  BY <1>4, <1>7, <2>3, <3>2, <3>3 DEF Counts, NU_NO
  <2>4. QED  BY <2>1, <2>2, <2>3
<1>11. QED  BY <1>8, <1>9, <1>10 DEF Reads

LEMMA OctalIs ==
  ASSUME NEW v
  PROVE  /\ set_value(<<"o", v>>) = <<"o", v>> /\ IsNumeral(<<"o", v>>) /\ <<"o", v>> # None
         /\ <<"o", v>>[1] = "o" /\ <<"o", v>>[2] = v
BY DEF set_value, IsNumeral, None

LEMMA DecAsOctNat ==
  ASSUME NEW n \in Int, n >= 0, n <= 999
  PROVE  DecAsOct(n) \in Nat
BY DEF DecAsOct

\* The polling interval: UINT_MAX is not set
LEMMA PollingReads ==
  ASSUME NEW sect, NEW kw, kw = "polling_interval"
  PROVE  Reads(sect, kw)
<1>1. \A t, old : handler(kw, t, old) = checkint_handler(set_value(t), old)
  BY HandlerOf DEF Singles
<1>2. \A v : snprint(sect, kw, v) = print_int(Shown(sect, kw, v))
  BY PrinterOf DEF Singles
<1>3. \A v : Kept(kw, v) <=> v \in 0..(MaxUint - 1)
  BY OptionKinds DEF Kept, Singles
<1>4. \A v : IsSet(kw, v) <=> v # 0
  BY NumberOption DEF Singles
<1>5. sect # "defaults" => Initial(sect, kw) = 0
  BY NumberOption DEF Singles
<1>6. sect = "defaults" => Initial(sect, kw) = 5
  BY InitialOf DEF Singles, YNU_NO
<1>7. Printed(kw) = 0
  BY PrintedOf DEF Singles
<1>8. Kept(kw, Initial(sect, kw))
  BY <1>3, <1>5, <1>6 DEF MaxUint
<1>9. ASSUME NEW t, NEW old, IsText(t), Kept(kw, old)
      PROVE  Kept(kw, handler(kw, t, old).v)
  <2>1. IsLine(set_value(t))  BY <1>9, SetValue
  <2>2. /\ atoi(set_value(t)) \in Int
        /\ atoi(set_value(t)) >= -999 /\ atoi(set_value(t)) <= 999
    BY <2>1, AtoiRange
  <2>3. old \in 0..(MaxUint - 1)  BY <1>3, <1>9
  <2>4. ASSUME NEW l, atoi(l) \in Int, atoi(l) >= -999, atoi(l) <= 999
        PROVE  checkint_handler(l, old).v \in 0..(MaxUint - 1)
    BY <2>3, <2>4 DEF checkint_handler, set_uint, Ok, Bad, MaxUint
  <2>5. checkint_handler(set_value(t), old).v \in 0..(MaxUint - 1)  BY <2>2, <2>4
  <2>6. QED  BY <1>1, <1>3, <2>5
<1>10. ASSUME NEW v, Kept(kw, v)
       PROVE  /\ Kept(kw, Back(sect, kw, v))
              /\ Counts(sect, kw, Back(sect, kw, v)) = Counts(sect, kw, v)
  <2>1. CASE v # 0
    <3>1. Shown(sect, kw, v) = v  BY <1>4, <2>1 DEF Shown
    <3>2. Back(sect, kw, v) = v
      BY <1>1, <1>2, <1>3, <1>10, <2>1, <3>1, NumberIs, WordIs
      DEF Back, checkint_handler, set_uint, print_int, Ok, Bad, MaxUint
    <3>3. QED  BY <1>10, <3>2
  <2>2. CASE v = 0 /\ sect # "defaults"
    <3>1. Shown(sect, kw, v) = 0  BY <2>2 DEF Shown
    <3>2. Back(sect, kw, v) = 0
      BY <1>1, <1>2, <1>3, <1>5, <1>10, <2>2, <3>1, NumberIs, WordIs
      DEF Back, checkint_handler, set_uint, print_int, Ok, Bad, MaxUint
    <3>3. QED  BY <1>10, <2>2, <3>2
  <2>3. CASE v = 0 /\ sect = "defaults"
    <3>1. Shown(sect, kw, v) = Printed(kw)  BY <1>4, <2>3 DEF Shown
    <3>2. Back(sect, kw, v) = Printed(kw) /\ kw # "ghost_delay"
      BY <1>1, <1>2, <1>3, <1>6, <1>7, <1>10, <2>3, <3>1, NumberIs, WordIs, OptionKinds
      DEF Back, checkint_handler, set_uint, print_int, Ok, Bad, Singles, OffIntOptions, MaxUint
    <3>3. Kept(kw, Back(sect, kw, v))  BY <1>3, <1>7, <3>2 DEF MaxUint
    <3>4. QED  BY <1>4, <1>7, <2>3, <3>2, <3>3 DEF Counts, NU_NO
  <2>4. QED  BY <2>1, <2>2, <2>3
<1>11. QED  BY <1>8, <1>9, <1>10 DEF Reads

\* The longest polling interval
LEMMA MaxPollingReads ==
  ASSUME NEW sect, NEW kw, kw = "max_polling_interval"
  PROVE  Reads(sect, kw)
<1>1. \A t, old : handler(kw, t, old) = set_uint(set_value(t), old)
  BY HandlerOf DEF Singles
<1>2. \A v : snprint(sect, kw, v) = print_int(Shown(sect, kw, v))
  BY PrinterOf DEF Singles
<1>3. \A v : Kept(kw, v) <=> v \in Nat
  BY OptionKinds DEF Kept, Singles
<1>4. \A v : IsSet(kw, v) <=> v # 0
  BY NumberOption DEF Singles
<1>5. sect # "defaults" => Initial(sect, kw) = 0
  BY NumberOption DEF Singles
<1>6. sect = "defaults" => Initial(sect, kw) = 20
  BY InitialOf DEF Singles, YNU_NO
<1>7. Printed(kw) = 0
  BY PrintedOf DEF Singles
<1>8. Kept(kw, Initial(sect, kw))
  BY <1>3, <1>5, <1>6 DEF MaxUint
<1>9. ASSUME NEW t, NEW old, IsText(t), Kept(kw, old)
      PROVE  Kept(kw, handler(kw, t, old).v)
  <2>1. IsLine(set_value(t))  BY <1>9, SetValue
  <2>2. /\ atoi(set_value(t)) \in Int
        /\ atoi(set_value(t)) >= -999 /\ atoi(set_value(t)) <= 999
    BY <2>1, AtoiRange
  <2>3. old \in Nat  BY <1>3, <1>9
  <2>4. ASSUME NEW l, atoi(l) \in Int, atoi(l) >= -999, atoi(l) <= 999
        PROVE  set_uint(l, old).v \in Nat
    BY <2>3, <2>4 DEF set_uint, Ok, Bad, MaxUint
  <2>5. set_uint(set_value(t), old).v \in Nat  BY <2>2, <2>4
  <2>6. QED  BY <1>1, <1>3, <2>5
<1>10. ASSUME NEW v, Kept(kw, v)
       PROVE  /\ Kept(kw, Back(sect, kw, v))
              /\ Counts(sect, kw, Back(sect, kw, v)) = Counts(sect, kw, v)
  <2>1. CASE v # 0
    <3>1. Shown(sect, kw, v) = v  BY <1>4, <2>1 DEF Shown
    <3>2. Back(sect, kw, v) = v
      BY <1>1, <1>2, <1>3, <1>10, <2>1, <3>1, NumberIs, WordIs
      DEF Back, set_uint, print_int, Ok, Bad, MaxUint
    <3>3. QED  BY <1>10, <3>2
  <2>2. CASE v = 0 /\ sect # "defaults"
    <3>1. Shown(sect, kw, v) = 0  BY <2>2 DEF Shown
    <3>2. Back(sect, kw, v) = 0
      BY <1>1, <1>2, <1>3, <1>5, <1>10, <2>2, <3>1, NumberIs, WordIs
      DEF Back, set_uint, print_int, Ok, Bad, MaxUint
    <3>3. QED  BY <1>10, <2>2, <3>2
  <2>3. CASE v = 0 /\ sect = "defaults"
    <3>1. Shown(sect, kw, v) = Printed(kw)  BY <1>4, <2>3 DEF Shown
    <3>2. Back(sect, kw, v) = Printed(kw) /\ kw # "ghost_delay"
      BY <1>1, <1>2, <1>3, <1>6, <1>7, <1>10, <2>3, <3>1, NumberIs, WordIs, OptionKinds
      DEF Back, set_uint, print_int, Ok, Bad, Singles, OffIntOptions, MaxUint
    <3>3. Kept(kw, Back(sect, kw, v))  BY <1>3, <1>7, <3>2 DEF MaxUint
    <3>4. QED  BY <1>4, <1>7, <2>3, <3>2, <3>3 DEF Counts, NU_NO
  <2>4. QED  BY <2>1, <2>2, <2>3
<1>11. QED  BY <1>8, <1>9, <1>10 DEF Reads

\* An octal number
LEMMA ModeReads ==
  ASSUME NEW sect, NEW kw, kw = "mode"
  PROVE  Reads(sect, kw)
<1>1. \A t, old : handler(kw, t, old) = set_mode(set_value(t), old)
  BY HandlerOf DEF Singles
<1>2. \A v : snprint(sect, kw, v) = print_mode(Shown(sect, kw, v))
  BY PrinterOf DEF Singles
<1>3. \A v : Kept(kw, v) <=> v \in 0..512
  BY OptionKinds DEF Kept, Singles
<1>4. \A v : IsSet(kw, v) <=> v # 0
  BY NumberOption DEF Singles
<1>5. sect # "defaults" => Initial(sect, kw) = 0
  BY NumberOption DEF Singles
<1>6. sect = "defaults" => Initial(sect, kw) = 0
  BY InitialOf DEF Singles, YNU_NO
<1>7. Printed(kw) = 0
  BY PrintedOf DEF Singles
<1>8. Kept(kw, Initial(sect, kw))
  BY <1>3, <1>5, <1>6 DEF MaxUint
<1>9. ASSUME NEW t, NEW old, IsText(t), Kept(kw, old)
      PROVE  Kept(kw, handler(kw, t, old).v)
  <2>1. IsLine(set_value(t))  BY <1>9, SetValue
  <2>2. old \in 0..512  BY <1>3, <1>9
  <2>3. ASSUME NEW l, IsLine(l)
        PROVE  set_mode(l, old).v \in {old} \cup 1..512
    <3>1. CASE l[1] = "o"
      <4>1. l[2] \in 0..511  BY <2>3, <3>1 DEF IsLine, IsText
      <4>2. QED  BY <3>1, <4>1 DEF set_mode, IsNumeral, Ok
    <3>2. CASE l[1] = "d" /\ l[2] >= 0
      <4>1. l[2] \in Int /\ l[2] <= 999  BY <2>3, <3>2, LineNumber
      <4>2. DecAsOct(l[2]) \in Nat  BY <3>2, <4>1, DecAsOctNat
      <4>3. QED  BY <3>2, <4>2 DEF set_mode, IsNumeral, Ok
    <3>3. CASE ~IsNumeral(l) \/ (l[1] = "d" /\ ~(l[2] >= 0))
      BY <3>3 DEF set_mode, Ok
    <3>4. QED  BY <3>1, <3>2, <3>3 DEF IsNumeral
  <2>4. QED  BY <1>1, <1>3, <2>1, <2>2, <2>3
<1>10. ASSUME NEW v, Kept(kw, v)
       PROVE  /\ Kept(kw, Back(sect, kw, v))
              /\ Counts(sect, kw, Back(sect, kw, v)) = Counts(sect, kw, v)
  <2>1. CASE v # 0
    <3>1. Shown(sect, kw, v) = v  BY <1>4, <2>1 DEF Shown
    <3>2. Back(sect, kw, v) = v
      BY <1>1, <1>2, <1>3, <1>10, <2>1, <3>1, OctalIs
      DEF Back, set_mode, print_mode, Ok, Bad, MaxUint
    <3>3. QED  BY <1>10, <3>2
  <2>2. CASE v = 0 /\ sect # "defaults"
    <3>1. Shown(sect, kw, v) = 0  BY <2>2 DEF Shown
    <3>2. Back(sect, kw, v) = 0
      BY <1>1, <1>2, <1>3, <1>5, <1>10, <2>2, <3>1, OctalIs
      DEF Back, set_mode, print_mode, Ok, Bad, MaxUint
    <3>3. QED  BY <1>10, <2>2, <3>2
  <2>3. CASE v = 0 /\ sect = "defaults"
    <3>1. Shown(sect, kw, v) = Printed(kw)  BY <1>4, <2>3 DEF Shown
    <3>2. Back(sect, kw, v) = Printed(kw) /\ kw # "ghost_delay"
      BY <1>1, <1>2, <1>3, <1>6, <1>7, <1>10, <2>3, <3>1, OctalIs, OptionKinds
      DEF Back, set_mode, print_mode, Ok, Bad, Singles, OffIntOptions, MaxUint
    <3>3. Kept(kw, Back(sect, kw, v))  BY <1>3, <1>7, <3>2 DEF MaxUint
    <3>4. QED  BY <1>4, <1>7, <2>3, <3>2, <3>3 DEF Counts, NU_NO
  <2>4. QED  BY <2>1, <2>2, <2>3
<1>11. QED  BY <1>8, <1>9, <1>10 DEF Reads

\* A number or "off", where 0 is kept as a number of its own
LEMMA FastIoFailReads ==
  ASSUME NEW sect, NEW kw, kw = "fast_io_fail_tmo"
  PROVE  Reads(sect, kw)
<1>1. \A t, old : handler(kw, t, old) = set_fast_io_fail(set_value(t), old)
  BY HandlerOf DEF Singles
<1>2. \A v : snprint(sect, kw, v) = print_fast_io_fail(Shown(sect, kw, v))
  BY PrinterOf DEF Singles
<1>3. \A v : Kept(kw, v) <=> v \in Int /\ v >= MP_FAST_IO_FAIL_ZERO
  BY OptionKinds DEF Kept, Singles
<1>4. \A v : IsSet(kw, v) <=> v # 0
  BY NumberOption DEF Singles
<1>5. sect # "defaults" => Initial(sect, kw) = 0
  BY NumberOption DEF Singles
<1>6. sect = "defaults" => Initial(sect, kw) = 0
  BY InitialOf DEF Singles, YNU_NO
<1>7. Printed(kw) = 5
  BY PrintedOf DEF Singles
<1>8. Kept(kw, Initial(sect, kw))
  BY <1>3, <1>5, <1>6 DEF MaxUint, MP_FAST_IO_FAIL_OFF, MP_FAST_IO_FAIL_ZERO
<1>9. ASSUME NEW t, NEW old, IsText(t), Kept(kw, old)
      PROVE  Kept(kw, handler(kw, t, old).v)
  <2>1. IsLine(set_value(t))  BY <1>9, SetValue
  <2>2. /\ atoi(set_value(t)) \in Int
        /\ atoi(set_value(t)) >= -999 /\ atoi(set_value(t)) <= 999
    BY <2>1, AtoiRange
  <2>3. old \in Int /\ old >= MP_FAST_IO_FAIL_ZERO  BY <1>3, <1>9
  <2>4. ASSUME NEW l, atoi(l) \in Int, atoi(l) >= -999, atoi(l) <= 999
        PROVE  /\ set_fast_io_fail(l, old).v \in Int
               /\ set_fast_io_fail(l, old).v >= MP_FAST_IO_FAIL_ZERO
    BY <2>3, <2>4 DEF set_fast_io_fail, Ok, Bad, MaxUint, MP_FAST_IO_FAIL_OFF,
       MP_FAST_IO_FAIL_ZERO
  <2>5. set_fast_io_fail(set_value(t), old).v \in Int /\ set_fast_io_fail(set_value(t),
       old).v >= MP_FAST_IO_FAIL_ZERO  BY <2>2, <2>4
  <2>6. QED  BY <1>1, <1>3, <2>5
<1>10. ASSUME NEW v, Kept(kw, v)
       PROVE  /\ Kept(kw, Back(sect, kw, v))
              /\ Counts(sect, kw, Back(sect, kw, v)) = Counts(sect, kw, v)
  <2>1. CASE v # 0
    <3>1. Shown(sect, kw, v) = v  BY <1>4, <2>1 DEF Shown
    <3>2. Back(sect, kw, v) = v
      BY <1>1, <1>2, <1>3, <1>10, <2>1, <3>1, NumberIs, WordIs
      DEF Back, set_fast_io_fail, print_fast_io_fail, Ok, Bad, MaxUint, MP_FAST_IO_FAIL_OFF,
          MP_FAST_IO_FAIL_ZERO
    <3>3. QED  BY <1>10, <3>2
  <2>2. CASE v = 0 /\ sect # "defaults"
    <3>1. Shown(sect, kw, v) = 0  BY <2>2 DEF Shown
    <3>2. Back(sect, kw, v) = 0
      BY <1>1, <1>2, <1>3, <1>5, <1>10, <2>2, <3>1, NumberIs, WordIs
      DEF Back, set_fast_io_fail, print_fast_io_fail, Ok, Bad, MaxUint, MP_FAST_IO_FAIL_OFF,
          MP_FAST_IO_FAIL_ZERO
    <3>3. QED  BY <1>10, <2>2, <3>2
  <2>3. CASE v = 0 /\ sect = "defaults"
    <3>1. Shown(sect, kw, v) = Printed(kw)  BY <1>4, <2>3 DEF Shown
    <3>2. Back(sect, kw, v) = Printed(kw) /\ kw # "ghost_delay"
      BY <1>1, <1>2, <1>3, <1>6, <1>7, <1>10, <2>3, <3>1, NumberIs, WordIs, OptionKinds
      DEF Back, set_fast_io_fail, print_fast_io_fail, Ok, Bad, Singles, OffIntOptions, MaxUint,
          MP_FAST_IO_FAIL_OFF, MP_FAST_IO_FAIL_ZERO
    <3>3. Kept(kw, Back(sect, kw, v))  BY <1>3, <1>7, <3>2 DEF MaxUint, MP_FAST_IO_FAIL_OFF,
         MP_FAST_IO_FAIL_ZERO
    <3>4. QED  BY <1>4, <1>7, <2>3, <3>2, <3>3 DEF Counts, NU_NO
  <2>4. QED  BY <2>1, <2>2, <2>3
<1>11. QED  BY <1>8, <1>9, <1>10 DEF Reads

\* A number or "infinity"
LEMMA DevLossReads ==
  ASSUME NEW sect, NEW kw, kw = "dev_loss_tmo"
  PROVE  Reads(sect, kw)
<1>1. \A t, old : handler(kw, t, old) = set_dev_loss(set_value(t), old)
  BY HandlerOf DEF Singles
<1>2. \A v : snprint(sect, kw, v) = print_dev_loss(Shown(sect, kw, v))
  BY PrinterOf DEF Singles
<1>3. \A v : Kept(kw, v) <=> v \in Nat /\ v <= MaxUint
  BY OptionKinds DEF Kept, Singles
<1>4. \A v : IsSet(kw, v) <=> v # 0
  BY NumberOption DEF Singles
<1>5. sect # "defaults" => Initial(sect, kw) = 0
  BY NumberOption DEF Singles
<1>6. sect = "defaults" => Initial(sect, kw) = 0
  BY InitialOf DEF Singles, YNU_NO
<1>7. Printed(kw) = 0
  BY PrintedOf DEF Singles
<1>8. Kept(kw, Initial(sect, kw))
  BY <1>3, <1>5, <1>6 DEF MaxUint
<1>9. ASSUME NEW t, NEW old, IsText(t), Kept(kw, old)
      PROVE  Kept(kw, handler(kw, t, old).v)
  <2>1. IsLine(set_value(t))  BY <1>9, SetValue
  <2>2. /\ atoi(set_value(t)) \in Int
        /\ atoi(set_value(t)) >= -999 /\ atoi(set_value(t)) <= 999
    BY <2>1, AtoiRange
  <2>3. old \in Nat /\ old <= MaxUint  BY <1>3, <1>9
  <2>4. ASSUME NEW l, atoi(l) \in Int, atoi(l) >= -999, atoi(l) <= 999
        PROVE  set_dev_loss(l, old).v \in Nat /\ set_dev_loss(l, old).v <= MaxUint
    BY <2>3, <2>4 DEF set_dev_loss, Ok, Bad, MaxUint
  <2>5. set_dev_loss(set_value(t), old).v \in Nat /\ set_dev_loss(set_value(t),
       old).v <= MaxUint  BY <2>2, <2>4
  <2>6. QED  BY <1>1, <1>3, <2>5
<1>10. ASSUME NEW v, Kept(kw, v)
       PROVE  /\ Kept(kw, Back(sect, kw, v))
              /\ Counts(sect, kw, Back(sect, kw, v)) = Counts(sect, kw, v)
  <2>1. CASE v # 0
    <3>1. Shown(sect, kw, v) = v  BY <1>4, <2>1 DEF Shown
    <3>2. Back(sect, kw, v) = v
      BY <1>1, <1>2, <1>3, <1>10, <2>1, <3>1, NumberIs, WordIs
      DEF Back, set_dev_loss, print_dev_loss, Ok, Bad, MaxUint
    <3>3. QED  BY <1>10, <3>2
  <2>2. CASE v = 0 /\ sect # "defaults"
    <3>1. Shown(sect, kw, v) = 0  BY <2>2 DEF Shown
    <3>2. Back(sect, kw, v) = 0
      BY <1>1, <1>2, <1>3, <1>5, <1>10, <2>2, <3>1, NumberIs, WordIs
      DEF Back, set_dev_loss, print_dev_loss, Ok, Bad, MaxUint
    <3>3. QED  BY <1>10, <2>2, <3>2
  <2>3. CASE v = 0 /\ sect = "defaults"
    <3>1. Shown(sect, kw, v) = Printed(kw)  BY <1>4, <2>3 DEF Shown
    <3>2. Back(sect, kw, v) = Printed(kw) /\ kw # "ghost_delay"
      BY <1>1, <1>2, <1>3, <1>6, <1>7, <1>10, <2>3, <3>1, NumberIs, WordIs, OptionKinds
      DEF Back, set_dev_loss, print_dev_loss, Ok, Bad, Singles, OffIntOptions, MaxUint
    <3>3. Kept(kw, Back(sect, kw, v))  BY <1>3, <1>7, <3>2 DEF MaxUint
    <3>4. QED  BY <1>4, <1>7, <2>3, <3>2, <3>3 DEF Counts, NU_NO
  <2>4. QED  BY <2>1, <2>2, <2>3
<1>11. QED  BY <1>8, <1>9, <1>10 DEF Reads

\* Two words
LEMMA RrWeightReads ==
  ASSUME NEW sect, NEW kw, kw = "rr_weight"
  PROVE  Reads(sect, kw)
<1>1. \A t, old : handler(kw, t, old) = set_rr_weight(set_value(t), old)
  BY HandlerOf DEF Singles
<1>2. \A v : snprint(sect, kw, v) = print_rr_weight(Shown(sect, kw, v))
  BY PrinterOf DEF Singles
<1>3. \A v : Kept(kw, v) <=> v \in 0..2
  BY OptionKinds DEF Kept, Singles
<1>4. \A v : IsSet(kw, v) <=> v # 0
  BY NumberOption DEF Singles
<1>5. sect # "defaults" => Initial(sect, kw) = 0
  BY NumberOption DEF Singles
<1>6. sect = "defaults" => Initial(sect, kw) = 0
  BY InitialOf DEF Singles, YNU_NO
<1>7. Printed(kw) = 1
  BY PrintedOf DEF Singles
<1>8. Kept(kw, Initial(sect, kw))
  BY <1>3, <1>5, <1>6 DEF MaxUint, RR_WEIGHT_NONE, RR_WEIGHT_PRIO
<1>9. ASSUME NEW t, NEW old, IsText(t), Kept(kw, old)
      PROVE  Kept(kw, handler(kw, t, old).v)
  <2>1. IsLine(set_value(t))  BY <1>9, SetValue
  <2>2. /\ atoi(set_value(t)) \in Int
        /\ atoi(set_value(t)) >= -999 /\ atoi(set_value(t)) <= 999
    BY <2>1, AtoiRange
  <2>3. old \in 0..2  BY <1>3, <1>9
  <2>4. ASSUME NEW l, atoi(l) \in Int, atoi(l) >= -999, atoi(l) <= 999
        PROVE  set_rr_weight(l, old).v \in 0..2
    BY <2>3, <2>4 DEF set_rr_weight, Ok, Bad, MaxUint, RR_WEIGHT_NONE, RR_WEIGHT_PRIO
  <2>5. set_rr_weight(set_value(t), old).v \in 0..2  BY <2>2, <2>4
  <2>6. QED  BY <1>1, <1>3, <2>5
<1>10. ASSUME NEW v, Kept(kw, v)
       PROVE  /\ Kept(kw, Back(sect, kw, v))
              /\ Counts(sect, kw, Back(sect, kw, v)) = Counts(sect, kw, v)
  <2>1. CASE v # 0
    <3>1. Shown(sect, kw, v) = v  BY <1>4, <2>1 DEF Shown
    <3>2. Back(sect, kw, v) = v
      BY <1>1, <1>2, <1>3, <1>10, <2>1, <3>1, NumberIs, WordIs
      DEF Back, set_rr_weight, print_rr_weight, Ok, Bad, MaxUint, RR_WEIGHT_NONE, RR_WEIGHT_PRIO
    <3>3. QED  BY <1>10, <3>2
  <2>2. CASE v = 0 /\ sect # "defaults"
    <3>1. Shown(sect, kw, v) = 0  BY <2>2 DEF Shown
    <3>2. Back(sect, kw, v) = 0
      BY <1>1, <1>2, <1>3, <1>5, <1>10, <2>2, <3>1, NumberIs, WordIs
      DEF Back, set_rr_weight, print_rr_weight, Ok, Bad, MaxUint, RR_WEIGHT_NONE, RR_WEIGHT_PRIO
    <3>3. QED  BY <1>10, <2>2, <3>2
  <2>3. CASE v = 0 /\ sect = "defaults"
    <3>1. Shown(sect, kw, v) = Printed(kw)  BY <1>4, <2>3 DEF Shown
    <3>2. Back(sect, kw, v) = Printed(kw) /\ kw # "ghost_delay"
      BY <1>1, <1>2, <1>3, <1>6, <1>7, <1>10, <2>3, <3>1, NumberIs, WordIs, OptionKinds
      DEF Back, set_rr_weight, print_rr_weight, Ok, Bad, Singles, OffIntOptions, MaxUint,
          RR_WEIGHT_NONE, RR_WEIGHT_PRIO
    <3>3. Kept(kw, Back(sect, kw, v))  BY <1>3, <1>7, <3>2 DEF MaxUint, RR_WEIGHT_NONE,
         RR_WEIGHT_PRIO
    <3>4. QED  BY <1>4, <1>7, <2>3, <3>2, <3>3 DEF Counts, NU_NO
  <2>4. QED  BY <2>1, <2>2, <2>3
<1>11. QED  BY <1>8, <1>9, <1>10 DEF Reads

\* A number, "fail" or "queue"
LEMMA NoPathRetryReads ==
  ASSUME NEW sect, NEW kw, kw = "no_path_retry"
  PROVE  Reads(sect, kw)
<1>1. \A t, old : handler(kw, t, old) = no_path_retry_helper(set_value(t), old)
  BY HandlerOf DEF Singles
<1>2. \A v : snprint(sect, kw, v) = print_no_path_retry(Shown(sect, kw, v))
  BY PrinterOf DEF Singles
<1>3. \A v : Kept(kw, v) <=> v \in Int /\ v >= NO_PATH_RETRY_QUEUE
  BY OptionKinds DEF Kept, Singles
<1>4. \A v : IsSet(kw, v) <=> v # 0
  BY NumberOption DEF Singles
<1>5. sect # "defaults" => Initial(sect, kw) = 0
  BY NumberOption DEF Singles
<1>6. sect = "defaults" => Initial(sect, kw) = 0
  BY InitialOf DEF Singles, YNU_NO
<1>7. Printed(kw) = 0
  BY PrintedOf DEF Singles
<1>8. Kept(kw, Initial(sect, kw))
  BY <1>3, <1>5, <1>6 DEF MaxUint, NO_PATH_RETRY_UNDEF, NO_PATH_RETRY_FAIL, NO_PATH_RETRY_QUEUE
<1>9. ASSUME NEW t, NEW old, IsText(t), Kept(kw, old)
      PROVE  Kept(kw, handler(kw, t, old).v)
  <2>1. IsLine(set_value(t))  BY <1>9, SetValue
  <2>2. /\ atoi(set_value(t)) \in Int
        /\ atoi(set_value(t)) >= -999 /\ atoi(set_value(t)) <= 999
    BY <2>1, AtoiRange
  <2>3. old \in Int /\ old >= NO_PATH_RETRY_QUEUE  BY <1>3, <1>9
  <2>4. ASSUME NEW l, atoi(l) \in Int, atoi(l) >= -999, atoi(l) <= 999
        PROVE  /\ no_path_retry_helper(l, old).v \in Int
               /\ no_path_retry_helper(l, old).v >= NO_PATH_RETRY_QUEUE
    BY <2>3, <2>4 DEF no_path_retry_helper, Ok, Bad, MaxUint, NO_PATH_RETRY_UNDEF,
       NO_PATH_RETRY_FAIL, NO_PATH_RETRY_QUEUE
  <2>5. no_path_retry_helper(set_value(t), old).v \in Int /\ no_path_retry_helper(set_value(t),
       old).v >= NO_PATH_RETRY_QUEUE  BY <2>2, <2>4
  <2>6. QED  BY <1>1, <1>3, <2>5
<1>10. ASSUME NEW v, Kept(kw, v)
       PROVE  /\ Kept(kw, Back(sect, kw, v))
              /\ Counts(sect, kw, Back(sect, kw, v)) = Counts(sect, kw, v)
  <2>1. CASE v # 0
    <3>1. Shown(sect, kw, v) = v  BY <1>4, <2>1 DEF Shown
    <3>2. Back(sect, kw, v) = v
      BY <1>1, <1>2, <1>3, <1>10, <2>1, <3>1, NumberIs, WordIs
      DEF Back, no_path_retry_helper, print_no_path_retry, Ok, Bad, MaxUint,
          NO_PATH_RETRY_UNDEF, NO_PATH_RETRY_FAIL, NO_PATH_RETRY_QUEUE
    <3>3. QED  BY <1>10, <3>2
  <2>2. CASE v = 0 /\ sect # "defaults"
    <3>1. Shown(sect, kw, v) = 0  BY <2>2 DEF Shown
    <3>2. Back(sect, kw, v) = 0
      BY <1>1, <1>2, <1>3, <1>5, <1>10, <2>2, <3>1, NumberIs, WordIs
      DEF Back, no_path_retry_helper, print_no_path_retry, Ok, Bad, MaxUint,
          NO_PATH_RETRY_UNDEF, NO_PATH_RETRY_FAIL, NO_PATH_RETRY_QUEUE
    <3>3. QED  BY <1>10, <2>2, <3>2
  <2>3. CASE v = 0 /\ sect = "defaults"
    <3>1. Shown(sect, kw, v) = Printed(kw)  BY <1>4, <2>3 DEF Shown
    <3>2. Back(sect, kw, v) = Printed(kw) /\ kw # "ghost_delay"
      BY <1>1, <1>2, <1>3, <1>6, <1>7, <1>10, <2>3, <3>1, NumberIs, WordIs, OptionKinds
      DEF Back, no_path_retry_helper, print_no_path_retry, Ok, Bad, Singles, OffIntOptions,
          MaxUint, NO_PATH_RETRY_UNDEF, NO_PATH_RETRY_FAIL, NO_PATH_RETRY_QUEUE
    <3>3. Kept(kw, Back(sect, kw, v))  BY <1>3, <1>7, <3>2 DEF MaxUint, NO_PATH_RETRY_UNDEF,
         NO_PATH_RETRY_FAIL, NO_PATH_RETRY_QUEUE
    <3>4. QED  BY <1>4, <1>7, <2>3, <3>2, <3>3 DEF Counts, NU_NO
  <2>4. QED  BY <2>1, <2>2, <2>3
<1>11. QED  BY <1>8, <1>9, <1>10 DEF Reads

\* "once" or "always"
LEMMA LogCheckerErrReads ==
  ASSUME NEW sect, NEW kw, kw = "log_checker_err"
  PROVE  Reads(sect, kw)
<1>1. \A t, old : handler(kw, t, old) = def_log_checker_err_handler(set_value(t), old)
  BY HandlerOf DEF Singles
<1>2. \A v : snprint(sect, kw, v) = snprint_def_log_checker_err(Shown(sect, kw, v))
  BY PrinterOf DEF Singles
<1>3. \A v : Kept(kw, v) <=> v \in 0..1
  BY OptionKinds DEF Kept, Singles
<1>4. \A v : IsSet(kw, v) <=> v # 0
  BY NumberOption DEF Singles
<1>5. sect # "defaults" => Initial(sect, kw) = 0
  BY NumberOption DEF Singles
<1>6. sect = "defaults" => Initial(sect, kw) = 0
  BY InitialOf DEF Singles, YNU_NO
<1>7. Printed(kw) = 0
  BY PrintedOf DEF Singles
<1>8. Kept(kw, Initial(sect, kw))
  BY <1>3, <1>5, <1>6 DEF MaxUint
<1>9. ASSUME NEW t, NEW old, IsText(t), Kept(kw, old)
      PROVE  Kept(kw, handler(kw, t, old).v)
  <2>1. IsLine(set_value(t))  BY <1>9, SetValue
  <2>2. /\ atoi(set_value(t)) \in Int
        /\ atoi(set_value(t)) >= -999 /\ atoi(set_value(t)) <= 999
    BY <2>1, AtoiRange
  <2>3. old \in 0..1  BY <1>3, <1>9
  <2>4. ASSUME NEW l, atoi(l) \in Int, atoi(l) >= -999, atoi(l) <= 999
        PROVE  def_log_checker_err_handler(l, old).v \in 0..1
    BY <2>3, <2>4 DEF def_log_checker_err_handler, Ok, Bad, MaxUint
  <2>5. def_log_checker_err_handler(set_value(t), old).v \in 0..1  BY <2>2, <2>4
  <2>6. QED  BY <1>1, <1>3, <2>5
<1>10. ASSUME NEW v, Kept(kw, v)
       PROVE  /\ Kept(kw, Back(sect, kw, v))
              /\ Counts(sect, kw, Back(sect, kw, v)) = Counts(sect, kw, v)
  <2>1. CASE v # 0
    <3>1. Shown(sect, kw, v) = v  BY <1>4, <2>1 DEF Shown
    <3>2. Back(sect, kw, v) = v
      BY <1>1, <1>2, <1>3, <1>10, <2>1, <3>1, NumberIs, WordIs
      DEF Back, def_log_checker_err_handler, snprint_def_log_checker_err, Ok, Bad, MaxUint
    <3>3. QED  BY <1>10, <3>2
  <2>2. CASE v = 0 /\ sect # "defaults"
    <3>1. Shown(sect, kw, v) = 0  BY <2>2 DEF Shown
    <3>2. Back(sect, kw, v) = 0
      BY <1>1, <1>2, <1>3, <1>5, <1>10, <2>2, <3>1, NumberIs, WordIs
      DEF Back, def_log_checker_err_handler, snprint_def_log_checker_err, Ok, Bad, MaxUint
    <3>3. QED  BY <1>10, <2>2, <3>2
  <2>3. CASE v = 0 /\ sect = "defaults"
    <3>1. Shown(sect, kw, v) = Printed(kw)  BY <1>4, <2>3 DEF Shown
    <3>2. Back(sect, kw, v) = Printed(kw) /\ kw # "ghost_delay"
      BY <1>1, <1>2, <1>3, <1>6, <1>7, <1>10, <2>3, <3>1, NumberIs, WordIs, OptionKinds
      DEF Back, def_log_checker_err_handler, snprint_def_log_checker_err, Ok, Bad, Singles,
          OffIntOptions, MaxUint
    <3>3. Kept(kw, Back(sect, kw, v))  BY <1>3, <1>7, <3>2 DEF MaxUint
    <3>4. QED  BY <1>4, <1>7, <2>3, <3>2, <3>3 DEF Counts, NU_NO
  <2>4. QED  BY <2>1, <2>2, <2>3
<1>11. QED  BY <1>8, <1>9, <1>10 DEF Reads

\* The vendor of a page
LEMMA VpdVendorReads ==
  ASSUME NEW sect, NEW kw, kw = "vpd_vendor"
  PROVE  Reads(sect, kw)
<1>1. \A t, old : handler(kw, t, old) = hw_vpd_vendor_handler(set_value(t), old)
  BY HandlerOf DEF Singles
<1>2. \A v : snprint(sect, kw, v) = snprint_hw_vpd_vendor(Shown(sect, kw, v))
  BY PrinterOf DEF Singles
<1>3. \A v : Kept(kw, v) <=> v \in 0..1
  BY OptionKinds DEF Kept, Singles
<1>4. \A v : IsSet(kw, v) <=> v # 0
  BY NumberOption DEF Singles
<1>5. sect # "defaults" => Initial(sect, kw) = 0
  BY NumberOption DEF Singles
<1>6. sect = "defaults" => Initial(sect, kw) = 0
  BY InitialOf DEF Singles, YNU_NO
<1>7. Printed(kw) = 0
  BY PrintedOf DEF Singles
<1>8. Kept(kw, Initial(sect, kw))
  BY <1>3, <1>5, <1>6 DEF MaxUint
<1>9. ASSUME NEW t, NEW old, IsText(t), Kept(kw, old)
      PROVE  Kept(kw, handler(kw, t, old).v)
  <2>1. IsLine(set_value(t))  BY <1>9, SetValue
  <2>2. /\ atoi(set_value(t)) \in Int
        /\ atoi(set_value(t)) >= -999 /\ atoi(set_value(t)) <= 999
    BY <2>1, AtoiRange
  <2>3. old \in 0..1  BY <1>3, <1>9
  <2>4. ASSUME NEW l, atoi(l) \in Int, atoi(l) >= -999, atoi(l) <= 999
        PROVE  hw_vpd_vendor_handler(l, old).v \in 0..1
    BY <2>3, <2>4 DEF hw_vpd_vendor_handler, Ok, Bad, MaxUint
  <2>5. hw_vpd_vendor_handler(set_value(t), old).v \in 0..1  BY <2>2, <2>4
  <2>6. QED  BY <1>1, <1>3, <2>5
<1>10. ASSUME NEW v, Kept(kw, v)
       PROVE  /\ Kept(kw, Back(sect, kw, v))
              /\ Counts(sect, kw, Back(sect, kw, v)) = Counts(sect, kw, v)
  <2>1. CASE v # 0
    <3>1. Shown(sect, kw, v) = v  BY <1>4, <2>1 DEF Shown
    <3>2. Back(sect, kw, v) = v
      BY <1>1, <1>2, <1>3, <1>10, <2>1, <3>1, NumberIs, WordIs
      DEF Back, hw_vpd_vendor_handler, snprint_hw_vpd_vendor, Ok, Bad, MaxUint
    <3>3. QED  BY <1>10, <3>2
  <2>2. CASE v = 0 /\ sect # "defaults"
    <3>1. Shown(sect, kw, v) = 0  BY <2>2 DEF Shown
    <3>2. Back(sect, kw, v) = 0
      BY <1>1, <1>2, <1>3, <1>5, <1>10, <2>2, <3>1, NumberIs, WordIs
      DEF Back, hw_vpd_vendor_handler, snprint_hw_vpd_vendor, Ok, Bad, MaxUint
    <3>3. QED  BY <1>10, <2>2, <3>2
  <2>3. CASE v = 0 /\ sect = "defaults"
    <3>1. Shown(sect, kw, v) = Printed(kw)  BY <1>4, <2>3 DEF Shown
    <3>2. Back(sect, kw, v) = Printed(kw) /\ kw # "ghost_delay"
      BY <1>1, <1>2, <1>3, <1>6, <1>7, <1>10, <2>3, <3>1, NumberIs, WordIs, OptionKinds
      DEF Back, hw_vpd_vendor_handler, snprint_hw_vpd_vendor, Ok, Bad, Singles, OffIntOptions,
          MaxUint
    <3>3. Kept(kw, Back(sect, kw, v))  BY <1>3, <1>7, <3>2 DEF MaxUint
    <3>4. QED  BY <1>4, <1>7, <2>3, <3>2, <3>3 DEF Counts, NU_NO
  <2>4. QED  BY <2>1, <2>2, <2>3
<1>11. QED  BY <1>8, <1>9, <1>10 DEF Reads

LEMMA FindMultipathsNames ==
  /\ \A t, old : def_find_multipaths_handler(t, old).v \in 1..5
  /\ \A n \in 1..5 : \A old :
       LET t == Quoted(find_multipaths_optvals[n])
       IN  def_find_multipaths_handler(t, old).v = n
<1> DEFINE names == find_multipaths_optvals
           i(t) == {n \in DOMAIN names : Is(t, names[n])}
<1>1. DOMAIN names = 1..5  BY DEF find_multipaths_optvals
<1>2. \A n, m \in 1..5 : names[n] = names[m] => n = m  BY DEF find_multipaths_optvals
<1>3. \A n \in 1..5 : names[n] # "yes" /\ names[n] # "no"  BY DEF find_multipaths_optvals
<1>4. ASSUME NEW t, NEW old
      PROVE  def_find_multipaths_handler(t, old).v
               = LET yn == set_yes_no_undef(t, old).v
                 IN  IF yn # YNU_UNDEF THEN yn
                     ELSE IF i(t) # {} THEN CHOOSE n \in i(t) : TRUE ELSE 5
  BY DEF def_find_multipaths_handler, Ok, DEFAULT_FIND_MULTIPATHS
<1>5. \A t, old : set_yes_no_undef(t, old).v \in 0..2
  BY DEF set_yes_no_undef, Ok, YNU_UNDEF, YNU_NO, YNU_YES
<1>6. \A t, old : def_find_multipaths_handler(t, old).v \in 1..5
  BY <1>1, <1>4, <1>5 DEF YNU_UNDEF
<1>7. ASSUME NEW n \in 1..5, NEW old
      PROVE  def_find_multipaths_handler(Quoted(names[n]), old).v = n
  <2>1. set_yes_no_undef(Quoted(names[n]), old).v = YNU_UNDEF
    BY <1>3, WordIs DEF set_yes_no_undef, Ok
  <2>2. i(Quoted(names[n])) = {n}  BY <1>1, <1>2, WordIs
  <2>3. QED  BY <1>4, <2>1, <2>2
<1>8. QED  BY <1>6, <1>7

LEMMA PgpolicyNames ==
  /\ \A t : get_pgpolicy_id(t) \in 0..5
  /\ \A n \in 1..5 : get_pgpolicy_id(Quoted(pgpolicy_names[n])) = n
<1>1. DOMAIN pgpolicy_names = 1..5  BY DEF pgpolicy_names
<1>2. \A n, m \in 1..5 : pgpolicy_names[n] = pgpolicy_names[m] => n = m
  BY DEF pgpolicy_names
<1> DEFINE i(t) == {n \in DOMAIN pgpolicy_names : Is(t, pgpolicy_names[n])}
<1>3. \A t : get_pgpolicy_id(t) = IF i(t) = {} THEN 0 ELSE CHOOSE n \in i(t) : TRUE
  BY DEF get_pgpolicy_id
<1>4. \A t : get_pgpolicy_id(t) \in 0..5  BY <1>1, <1>3
<1>5. ASSUME NEW n \in 1..5 PROVE get_pgpolicy_id(Quoted(pgpolicy_names[n])) = n
  <2>1. i(Quoted(pgpolicy_names[n])) = {n}  BY <1>1, <1>2, WordIs
  <2>2. QED  BY <1>3, <2>1
<1>6. QED  BY <1>4, <1>5

LEMMA FailbackNames ==
  /\ DOMAIN failback_names = 1..3
  /\ \A t, old : atoi(t) \in Int => set_pgfailback(t, old).v \in Int
  /\ \A n \in 1..3 : \A old : set_pgfailback(Quoted(failback_names[n]), old).v = -n
  /\ \A k, old : set_pgfailback(<<"d", k>>, old).v = k
<1>1. DOMAIN failback_names = 1..3  BY DEF failback_names
<1>2. \A n, m \in 1..3 : failback_names[n] = failback_names[m] => n = m
  BY DEF failback_names
<1> DEFINE i(t) == {n \in DOMAIN failback_names : Is(t, failback_names[n])}
<1>3. \A t, old : set_pgfailback(t, old).v
                   = IF i(t) # {} THEN -(CHOOSE n \in i(t) : TRUE) ELSE atoi(t)
  BY DEF set_pgfailback, Ok
<1>4. ASSUME NEW t, NEW old, atoi(t) \in Int
      PROVE  set_pgfailback(t, old).v \in Int
  BY <1>1, <1>3, <1>4
<1>5. ASSUME NEW n \in 1..3, NEW old
      PROVE  set_pgfailback(Quoted(failback_names[n]), old).v = -n
  <2>1. i(Quoted(failback_names[n])) = {n}  BY <1>1, <1>2, WordIs
  <2>2. QED  BY <1>3, <2>1
<1>6. ASSUME NEW k, NEW old PROVE set_pgfailback(<<"d", k>>, old).v = k
  <2>1. i(<<"d", k>>) = {}  BY NumberIs
  <2>2. QED  BY <1>3, <2>1, NumberIs
<1>7. QED  BY <1>1, <1>4, <1>5, <1>6

\* The policies
LEMMA PgpolicyReads ==
  ASSUME NEW sect, NEW kw, kw = "path_grouping_policy"
  PROVE  Reads(sect, kw)
<1>1. \A t, old : handler(kw, t, old) = set_pgpolicy(set_value(t), old)
  BY HandlerOf DEF Singles
<1>2. \A v : snprint(sect, kw, v) = print_pgpolicy(Shown(sect, kw, v))
  BY PrinterOf DEF Singles
<1>3. \A v : Kept(kw, v) <=> v \in 0..5
  BY OptionKinds DEF Kept, Singles
<1>4. \A v : IsSet(kw, v) <=> v # 0
  BY NumberOption DEF Singles
<1>5. sect # "defaults" => Initial(sect, kw) = 0
  BY NumberOption DEF Singles
<1>6. sect = "defaults" => Initial(sect, kw) = 0
  BY InitialOf DEF Singles, YNU_NO
<1>7. Printed(kw) = 1
  BY PrintedOf DEF Singles
<1>8. Kept(kw, Initial(sect, kw))
  BY <1>3, <1>5, <1>6 DEF MaxUint
<1>9. ASSUME NEW t, NEW old, IsText(t), Kept(kw, old)
      PROVE  Kept(kw, handler(kw, t, old).v)
  <2>1. IsLine(set_value(t))  BY <1>9, SetValue
  <2>2. /\ atoi(set_value(t)) \in Int
        /\ atoi(set_value(t)) >= -999 /\ atoi(set_value(t)) <= 999
    BY <2>1, AtoiRange
  <2>3. old \in 0..5  BY <1>3, <1>9
  <2>4. ASSUME NEW l, atoi(l) \in Int, atoi(l) >= -999, atoi(l) <= 999
        PROVE  set_pgpolicy(l, old).v \in 0..5
    BY <2>3, <2>4, PgpolicyNames DEF set_pgpolicy, Ok, Bad, MaxUint
  <2>5. set_pgpolicy(set_value(t), old).v \in 0..5  BY <2>2, <2>4
  <2>6. QED  BY <1>1, <1>3, <2>5
<1>10. ASSUME NEW v, Kept(kw, v)
       PROVE  /\ Kept(kw, Back(sect, kw, v))
              /\ Counts(sect, kw, Back(sect, kw, v)) = Counts(sect, kw, v)
  <2>1. CASE v # 0
    <3>1. Shown(sect, kw, v) = v  BY <1>4, <2>1 DEF Shown
    <3>2. Back(sect, kw, v) = v
      BY <1>1, <1>2, <1>3, <1>10, <2>1, <3>1, NumberIs, WordIs, PgpolicyNames
      DEF Back, set_pgpolicy, print_pgpolicy, Ok, Bad, MaxUint
    <3>3. QED  BY <1>10, <3>2
  <2>2. CASE v = 0 /\ sect # "defaults"
    <3>1. Shown(sect, kw, v) = 0  BY <2>2 DEF Shown
    <3>2. Back(sect, kw, v) = 0
      BY <1>1, <1>2, <1>3, <1>5, <1>10, <2>2, <3>1, NumberIs, WordIs, PgpolicyNames
      DEF Back, set_pgpolicy, print_pgpolicy, Ok, Bad, MaxUint
    <3>3. QED  BY <1>10, <2>2, <3>2
  <2>3. CASE v = 0 /\ sect = "defaults"
    <3>1. Shown(sect, kw, v) = Printed(kw)  BY <1>4, <2>3 DEF Shown
    <3>2. Back(sect, kw, v) = Printed(kw) /\ kw # "ghost_delay"
      BY <1>1, <1>2, <1>3, <1>6, <1>7, <1>10, <2>3, <3>1, NumberIs, WordIs, PgpolicyNames,
         OptionKinds
      DEF Back, set_pgpolicy, print_pgpolicy, Ok, Bad, Singles, OffIntOptions, MaxUint
    <3>3. Kept(kw, Back(sect, kw, v))  BY <1>3, <1>7, <3>2 DEF MaxUint
    <3>4. QED  BY <1>4, <1>7, <2>3, <3>2, <3>3 DEF Counts, NU_NO
  <2>4. QED  BY <2>1, <2>2, <2>3
<1>11. QED  BY <1>8, <1>9, <1>10 DEF Reads

\* A number or the name of a negative one
LEMMA FailbackReads ==
  ASSUME NEW sect, NEW kw, kw = "failback"
  PROVE  Reads(sect, kw)
<1>1. \A t, old : handler(kw, t, old) = set_pgfailback(set_value(t), old)
  BY HandlerOf DEF Singles
<1>2. \A v : snprint(sect, kw, v) = print_pgfailback(Shown(sect, kw, v))
  BY PrinterOf DEF Singles
<1>3. \A v : Kept(kw, v) <=> v \in Int
  BY OptionKinds DEF Kept, Singles
<1>4. \A v : IsSet(kw, v) <=> v # 0
  BY NumberOption DEF Singles
<1>5. sect # "defaults" => Initial(sect, kw) = 0
  BY NumberOption DEF Singles
<1>6. sect = "defaults" => Initial(sect, kw) = 0
  BY InitialOf DEF Singles, YNU_NO
<1>7. Printed(kw) = -1
  BY PrintedOf DEF Singles
<1>8. Kept(kw, Initial(sect, kw))
  BY <1>3, <1>5, <1>6 DEF MaxUint
<1>9. ASSUME NEW t, NEW old, IsText(t), Kept(kw, old)
      PROVE  Kept(kw, handler(kw, t, old).v)
  <2>1. IsLine(set_value(t))  BY <1>9, SetValue
  <2>2. /\ atoi(set_value(t)) \in Int
        /\ atoi(set_value(t)) >= -999 /\ atoi(set_value(t)) <= 999
    BY <2>1, AtoiRange
  <2>3. old \in Int  BY <1>3, <1>9
  <2>4. ASSUME NEW l, atoi(l) \in Int, atoi(l) >= -999, atoi(l) <= 999
        PROVE  set_pgfailback(l, old).v \in Int
    BY <2>3, <2>4, FailbackNames DEF Ok, Bad, MaxUint
  <2>5. set_pgfailback(set_value(t), old).v \in Int  BY <2>2, <2>4
  <2>6. QED  BY <1>1, <1>3, <2>5
<1>10. ASSUME NEW v, Kept(kw, v)
       PROVE  /\ Kept(kw, Back(sect, kw, v))
              /\ Counts(sect, kw, Back(sect, kw, v)) = Counts(sect, kw, v)
  <2>1. CASE v # 0
    <3>1. Shown(sect, kw, v) = v  BY <1>4, <2>1 DEF Shown
    <3>2. Back(sect, kw, v) = v
      BY <1>1, <1>2, <1>3, <1>10, <2>1, <3>1, NumberIs, WordIs, FailbackNames
      DEF Back, print_pgfailback, Ok, Bad, MaxUint
    <3>3. QED  BY <1>10, <3>2
  <2>2. CASE v = 0 /\ sect # "defaults"
    <3>1. Shown(sect, kw, v) = 0  BY <2>2 DEF Shown
    <3>2. Back(sect, kw, v) = 0
      BY <1>1, <1>2, <1>3, <1>5, <1>10, <2>2, <3>1, NumberIs, WordIs, FailbackNames
      DEF Back, print_pgfailback, Ok, Bad, MaxUint
    <3>3. QED  BY <1>10, <2>2, <3>2
  <2>3. CASE v = 0 /\ sect = "defaults"
    <3>1. Shown(sect, kw, v) = Printed(kw)  BY <1>4, <2>3 DEF Shown
    <3>2. Back(sect, kw, v) = Printed(kw) /\ kw # "ghost_delay"
      BY <1>1, <1>2, <1>3, <1>6, <1>7, <1>10, <2>3, <3>1, NumberIs, WordIs, FailbackNames,
         OptionKinds
      DEF Back, print_pgfailback, Ok, Bad, Singles, OffIntOptions, MaxUint
    <3>3. Kept(kw, Back(sect, kw, v))  BY <1>3, <1>7, <3>2 DEF MaxUint
    <3>4. QED  BY <1>4, <1>7, <2>3, <3>2, <3>3 DEF Counts, NU_NO
  <2>4. QED  BY <2>1, <2>2, <2>3
<1>11. QED  BY <1>8, <1>9, <1>10 DEF Reads

\* A number with a least value
LEMMA UxsockTimeoutReads ==
  ASSUME NEW sect, NEW kw, kw = "uxsock_timeout", sect = "defaults"
  PROVE  Reads(sect, kw)
<1>1. \A t, old : handler(kw, t, old) = def_uxsock_timeout_handler(set_value(t), old)
  BY HandlerOf DEF Singles
<1>2. \A v : snprint(sect, kw, v) = print_int(Shown(sect, kw, v))
  BY PrinterOf DEF Singles
<1>3. \A v : Kept(kw, v) <=> v \in Int /\ v >= DEFAULT_REPLY_TIMEOUT
  BY OptionKinds DEF Kept, Singles
<1>4. \A v : IsSet(kw, v) <=> v # 0
  BY NumberOption DEF Singles
<1>5. sect # "defaults" => Initial(sect, kw) = 0
  BY NumberOption DEF Singles
<1>6. sect = "defaults" => Initial(sect, kw) = DEFAULT_REPLY_TIMEOUT
  BY InitialOf DEF Singles, YNU_NO
<1>7. Printed(kw) = 0
  BY PrintedOf DEF Singles
<1>8. Kept(kw, Initial(sect, kw))
  BY <1>3, <1>5, <1>6 DEF MaxUint, DEFAULT_REPLY_TIMEOUT
<1>9. ASSUME NEW t, NEW old, IsText(t), Kept(kw, old)
      PROVE  Kept(kw, handler(kw, t, old).v)
  <2>1. IsLine(set_value(t))  BY <1>9, SetValue
  <2>2. /\ atoi(set_value(t)) \in Int
        /\ atoi(set_value(t)) >= -999 /\ atoi(set_value(t)) <= 999
    BY <2>1, AtoiRange
  <2>3. old \in Int /\ old >= DEFAULT_REPLY_TIMEOUT  BY <1>3, <1>9
  <2>4. ASSUME NEW l, atoi(l) \in Int, atoi(l) >= -999, atoi(l) <= 999
        PROVE  def_uxsock_timeout_handler(l, old).v \in Int /\ def_uxsock_timeout_handler(l,
        old).v >= DEFAULT_REPLY_TIMEOUT
    BY <2>3, <2>4 DEF def_uxsock_timeout_handler, Ok, Bad, MaxUint, DEFAULT_REPLY_TIMEOUT
  <2>5. def_uxsock_timeout_handler(set_value(t),
       old).v \in Int /\ def_uxsock_timeout_handler(set_value(t),
            old).v >= DEFAULT_REPLY_TIMEOUT  BY <2>2, <2>4
  <2>6. QED  BY <1>1, <1>3, <2>5
<1>10. ASSUME NEW v, Kept(kw, v)
       PROVE  /\ Kept(kw, Back(sect, kw, v))
              /\ Counts(sect, kw, Back(sect, kw, v)) = Counts(sect, kw, v)
  <2>1. v # 0  BY <1>3, <1>10 DEF MaxUint, DEFAULT_REPLY_TIMEOUT
  <2>2. Shown(sect, kw, v) = v  BY <1>4, <2>1 DEF Shown
  <2>3. Back(sect, kw, v) = v
    BY <1>1, <1>2, <1>3, <1>10, <2>1, <2>2, NumberIs, WordIs
    DEF Back, def_uxsock_timeout_handler, print_int, Ok, Bad, MaxUint, DEFAULT_REPLY_TIMEOUT
  <2>4. QED  BY <1>10, <2>3
<1>11. QED  BY <1>8, <1>9, <1>10 DEF Reads

\* The names of find_multipaths
LEMMA FindMultipathsReads ==
  ASSUME NEW sect, NEW kw, kw = "find_multipaths", sect = "defaults"
  PROVE  Reads(sect, kw)
<1>1. \A t, old : handler(kw, t, old) = def_find_multipaths_handler(set_value(t), old)
  BY HandlerOf DEF Singles
<1>2. \A v : snprint(sect, kw, v) = snprint_def_find_multipaths(Shown(sect, kw, v))
  BY PrinterOf DEF Singles
<1>3. \A v : Kept(kw, v) <=> v \in 1..5
  BY OptionKinds DEF Kept, Singles
<1>4. \A v : IsSet(kw, v) <=> v # 0
  BY NumberOption DEF Singles
<1>5. sect # "defaults" => Initial(sect, kw) = 0
  BY NumberOption DEF Singles
<1>6. sect = "defaults" => Initial(sect, kw) = DEFAULT_FIND_MULTIPATHS
  BY InitialOf DEF Singles, YNU_NO
<1>7. Printed(kw) = 0
  BY PrintedOf DEF Singles
<1>8. Kept(kw, Initial(sect, kw))
  BY <1>3, <1>5, <1>6 DEF MaxUint, DEFAULT_FIND_MULTIPATHS
<1>9. ASSUME NEW t, NEW old, IsText(t), Kept(kw, old)
      PROVE  Kept(kw, handler(kw, t, old).v)
  <2>1. IsLine(set_value(t))  BY <1>9, SetValue
  <2>2. /\ atoi(set_value(t)) \in Int
        /\ atoi(set_value(t)) >= -999 /\ atoi(set_value(t)) <= 999
    BY <2>1, AtoiRange
  <2>3. old \in 1..5  BY <1>3, <1>9
  <2>4. ASSUME NEW l, atoi(l) \in Int, atoi(l) >= -999, atoi(l) <= 999
        PROVE  def_find_multipaths_handler(l, old).v \in 1..5
    BY <2>3, <2>4, FindMultipathsNames DEF Ok, Bad, MaxUint, DEFAULT_FIND_MULTIPATHS
  <2>5. def_find_multipaths_handler(set_value(t), old).v \in 1..5  BY <2>2, <2>4
  <2>6. QED  BY <1>1, <1>3, <2>5
<1>10. ASSUME NEW v, Kept(kw, v)
       PROVE  /\ Kept(kw, Back(sect, kw, v))
              /\ Counts(sect, kw, Back(sect, kw, v)) = Counts(sect, kw, v)
  <2>1. v # 0  BY <1>3, <1>10 DEF MaxUint, DEFAULT_FIND_MULTIPATHS
  <2>2. Shown(sect, kw, v) = v  BY <1>4, <2>1 DEF Shown
  <2>3. Back(sect, kw, v) = v
    BY <1>1, <1>2, <1>3, <1>10, <2>1, <2>2, NumberIs, WordIs, FindMultipathsNames
    DEF Back, snprint_def_find_multipaths, Ok, Bad, MaxUint, DEFAULT_FIND_MULTIPATHS
  <2>4. QED  BY <1>10, <2>3
<1>11. QED  BY <1>8, <1>9, <1>10 DEF Reads

\* "yes" and "no"
LEMMA QueueWithoutDaemonReads ==
  ASSUME NEW sect, NEW kw, kw = "queue_without_daemon"
  PROVE  Reads(sect, kw)
<1>1. \A t, old : handler(kw, t, old) = set_yes_no(set_value(t), old)
  BY HandlerIs DEF Singles
<1>2. \A v : snprint(sect, kw, v) = snprint_def_queue_without_daemon(Shown(sect, kw, v))
  BY PrinterOf DEF Singles
<1>3. \A v : Kept(kw, v) <=> v \in 0..1
  BY OptionKinds DEF Kept, Singles
<1>4. \A v : IsSet(kw, v) <=> v # 0
  BY NumberOption DEF Singles
<1>5. sect # "defaults" => Initial(sect, kw) = 0
  BY NumberOption DEF Singles
<1>6. sect = "defaults" => Initial(sect, kw) = 0
  BY InitialOf DEF Singles, YNU_NO
<1>7. Printed(kw) = 0
  BY PrintedOf DEF Singles
<1>8. Kept(kw, Initial(sect, kw))
  BY <1>3, <1>5, <1>6 DEF MaxUint, YN_NO, YN_YES
<1>9. ASSUME NEW t, NEW old, IsText(t), Kept(kw, old)
      PROVE  Kept(kw, handler(kw, t, old).v)
  <2>1. IsLine(set_value(t))  BY <1>9, SetValue
  <2>2. /\ atoi(set_value(t)) \in Int
        /\ atoi(set_value(t)) >= -999 /\ atoi(set_value(t)) <= 999
    BY <2>1, AtoiRange
  <2>3. old \in 0..1  BY <1>3, <1>9
  <2>4. ASSUME NEW l, atoi(l) \in Int, atoi(l) >= -999, atoi(l) <= 999
        PROVE  set_yes_no(l, old).v \in 0..1
    BY <2>3, <2>4 DEF set_yes_no, Is, Ok, Bad, MaxUint, YN_NO, YN_YES
  <2>5. set_yes_no(set_value(t), old).v \in 0..1  BY <2>2, <2>4
  <2>6. QED  BY <1>1, <1>3, <2>5
<1>10. ASSUME NEW v, Kept(kw, v)
       PROVE  /\ Kept(kw, Back(sect, kw, v))
              /\ Counts(sect, kw, Back(sect, kw, v)) = Counts(sect, kw, v)
  <2>1. CASE v # 0
    <3>1. Shown(sect, kw, v) = v  BY <1>4, <2>1 DEF Shown
    <3>2. Back(sect, kw, v) = v
      BY <1>1, <1>2, <1>3, <1>10, <2>1, <3>1, NumberIs, WordIs
      DEF Back, set_yes_no, Is, snprint_def_queue_without_daemon, Ok, Bad, MaxUint, YN_NO,
          YN_YES
    <3>3. QED  BY <1>10, <3>2
  <2>2. CASE v = 0 /\ sect # "defaults"
    <3>1. Shown(sect, kw, v) = 0  BY <2>2 DEF Shown
    <3>2. Back(sect, kw, v) = 0
      BY <1>1, <1>2, <1>3, <1>5, <1>10, <2>2, <3>1, NumberIs, WordIs
      DEF Back, set_yes_no, Is, snprint_def_queue_without_daemon, Ok, Bad, MaxUint, YN_NO,
          YN_YES
    <3>3. QED  BY <1>10, <2>2, <3>2
  <2>3. CASE v = 0 /\ sect = "defaults"
    <3>1. Shown(sect, kw, v) = Printed(kw)  BY <1>4, <2>3 DEF Shown
    <3>2. Back(sect, kw, v) = Printed(kw) /\ kw # "ghost_delay"
      BY <1>1, <1>2, <1>3, <1>6, <1>7, <1>10, <2>3, <3>1, NumberIs, WordIs, OptionKinds
      DEF Back, set_yes_no, Is, snprint_def_queue_without_daemon, Ok, Bad, Singles,
          OffIntOptions, MaxUint, YN_NO, YN_YES
    <3>3. Kept(kw, Back(sect, kw, v))  BY <1>3, <1>7, <3>2 DEF MaxUint, YN_NO, YN_YES
    <3>4. QED  BY <1>4, <1>7, <2>3, <3>2, <3>3 DEF Counts, NU_NO
  <2>4. QED  BY <2>1, <2>2, <2>3
<1>11. QED  BY <1>8, <1>9, <1>10 DEF Reads

LEMMA NotLines ==
  /\ ~IsLine(Null) /\ ~IsLine(None) /\ Null # None
  /\ \A w : IsLine(Quoted(w)) /\ Quoted(w) # Null
<1>1. \A t : IsLine(t) => t # Null /\ t # None  BY DEF IsLine, IsText, Null, None
<1>2. \A w : IsLine(Quoted(w))  BY DEF IsLine, IsText, Quoted
<1>3. QED  BY <1>1, <1>2 DEF Null, None

\* A string that is kept is printed as it is.
LEMMA LineBack ==
  ASSUME NEW sect, NEW kw, NEW v, IsLine(v),
         \A t, old : IsLine(t) /\ Kept(kw, t) => handler(kw, t, old).v = t,
         Kept(kw, v), IsString(kw),
         snprint(sect, kw, v) = print_str(Shown(sect, kw, v))
  PROVE  Back(sect, kw, v) = v
<1>1. v # Null /\ v # None  BY NotLines
<1>2. IsSet(kw, v)  BY <1>1 DEF IsSet
<1>3. snprint(sect, kw, v) = v  BY <1>1, <1>2 DEF Shown, print_str
<1>4. QED  BY <1>1, <1>3 DEF Back

\* Strings
LEMMA StrReads ==
  ASSUME NEW sect, NEW kw \in StrOptions
  PROVE  Reads(sect, kw)
<1>1. \A t, old : handler(kw, t, old).v = set_value(t)
  BY HandlerIs DEF set_str, Ok
<1>2. \A v : snprint(sect, kw, v) = print_str(Shown(sect, kw, v))
  BY PrinterIs
<1>3. \A v : Kept(kw, v) <=> v = Null \/ IsLine(v)
  BY OptionKinds DEF Kept, Singles
<1>4. IsString(kw)  BY DEF IsString
<1>5. \A v : IsSet(kw, v) <=> v # Null  BY <1>4 DEF IsSet
<1>6. Initial(sect, kw) = Null  BY <1>4 DEF Initial
<1>7. Printed(kw) = Null \/ \E w : Printed(kw) = Quoted(w)  BY PrintedIs
<1>8. ASSUME NEW t, NEW old, IsText(t), Kept(kw, old)
      PROVE  Kept(kw, handler(kw, t, old).v)
  BY <1>1, <1>3, <1>8, SetValue
<1>9. ASSUME NEW v, Kept(kw, v)
      PROVE  /\ Kept(kw, Back(sect, kw, v))
             /\ Counts(sect, kw, Back(sect, kw, v)) = Counts(sect, kw, v)
  <2>1. CASE IsLine(v)
    <3>1. \A t, old : IsLine(t) /\ Kept(kw, t) => handler(kw, t, old).v = t
      BY <1>1, SetValue DEF IsLine
    <3>2. Back(sect, kw, v) = v  BY <1>2, <1>4, <1>9, <2>1, <3>1, LineBack
    <3>3. QED  BY <1>9, <3>2
  <2>2. CASE v = Null /\ Shown(sect, kw, v) = Null
    <3>1. snprint(sect, kw, v) = None  BY <1>2, <2>2 DEF print_str
    <3>2. Back(sect, kw, v) = v  BY <1>6, <2>2, <3>1 DEF Back
    <3>3. QED  BY <1>9, <3>2
  <2>3. CASE v = Null /\ Shown(sect, kw, v) # Null
    <3>1. sect = "defaults" /\ Shown(sect, kw, v) = Printed(kw)  BY <2>3 DEF Shown
    <3>2. PICK w : Printed(kw) = Quoted(w)  BY <1>7, <2>3, <3>1
    <3>3. snprint(sect, kw, v) = Quoted(w)  BY <1>2, <3>1, <3>2, NotLines DEF print_str
    <3>4. Back(sect, kw, v) = Quoted(w)  BY <1>1, <3>3, WordIs DEF Back
    <3>5. kw # "ghost_delay"  BY OptionKinds DEF OffIntOptions
    <3>6. QED  BY <1>3, <1>5, <2>3, <3>1, <3>2, <3>4, <3>5, NotLines DEF Counts
  <2>4. QED  BY <1>3, <1>9, <2>1, <2>2, <2>3
<1>10. QED  BY <1>3, <1>6, <1>8, <1>9 DEF Reads

\* A string of which a word unsets the option
LEMMA PartitionDelimiterReads ==
  ASSUME NEW sect, NEW kw, kw = "partition_delimiter"
  PROVE  Reads(sect, kw)
<1>1. \A t, old :
        handler(kw, t, old).v = IF Is(set_value(t), "/UNSET/") THEN Null ELSE set_value(t)
  BY HandlerOf DEF Singles, def_partition_delim_handler, Ok
<1>2. \A v : snprint(sect, kw, v) = print_str(Shown(sect, kw, v))
  BY PrinterOf DEF Singles, snprint_def_partition_delim
<1>3. \A v : Kept(kw, v) <=> v = Null \/ (IsLine(v) /\ ~Is(v, "/UNSET/"))
  BY OptionKinds DEF Kept, Singles
<1>4. IsString(kw)  BY DEF IsString
<1>5. Initial(sect, kw) = Null  BY <1>4 DEF Initial
<1>6. Printed(kw) = Null  BY PrintedOf DEF Singles
<1>7. ASSUME NEW t, NEW old, IsText(t), Kept(kw, old)
      PROVE  Kept(kw, handler(kw, t, old).v)
  BY <1>1, <1>3, <1>7, SetValue
<1>8. ASSUME NEW v, Kept(kw, v) PROVE Back(sect, kw, v) = v
  <2>1. CASE IsLine(v) /\ ~Is(v, "/UNSET/")
    <3>1. \A t, old : IsLine(t) /\ Kept(kw, t) => handler(kw, t, old).v = t
      BY <1>1, <1>3, SetValue, NotLines DEF IsLine
    <3>2. QED  BY <1>2, <1>4, <1>8, <2>1, <3>1, LineBack
  <2>2. CASE v = Null
    <3>1. Shown(sect, kw, v) = Null  BY <1>6, <2>2 DEF Shown
    <3>2. snprint(sect, kw, v) = None  BY <1>2, <3>1 DEF print_str
    <3>3. QED  BY <1>5, <2>2, <3>2 DEF Back
  <2>3. QED  BY <1>3, <1>8, <2>1, <2>2
<1>9. QED  BY <1>3, <1>5, <1>7, <1>8 DEF Reads

\* A key in hexadecimal, or "file"
LEMMA ReservationKeyReads ==
  ASSUME NEW sect, NEW kw, kw = "reservation_key"
  PROVE  Reads(sect, kw)
<1>1. \A t, old : handler(kw, t, old) = set_reservation_key(set_value(t), old)
  BY HandlerOf DEF Singles
<1>2. \A v : IsSet(kw, v)
  BY OptionKinds DEF IsSet, IsString, Singles
<1>3. \A v : snprint(sect, kw, v) = v
  BY <1>2, PrinterOf DEF Singles, print_reservation_key, Shown
<1>4. \A v : Kept(kw, v) <=> \/ v \in {None, <<"w", "file">>}
                            \/ \E n \in Nat : v = <<"k", n>> \/ v = <<"f", n>>
  BY OptionKinds DEF Kept, Singles
<1>5. Initial(sect, kw) = None  BY InitialOf DEF Singles
<1>6. ASSUME NEW t, NEW old, IsText(t), Kept(kw, old)
      PROVE  Kept(kw, handler(kw, t, old).v)
  <2> DEFINE l == set_value(t)
  <2>1. IsLine(l)  BY <1>6, SetValue
  <2>2. CASE Is(l, "file")
    <3>1. l = <<"w", "file">>  BY <2>2 DEF Is
    <3>2. set_reservation_key(l, old).v = <<"w", "file">>
      BY <2>2, <3>1 DEF set_reservation_key, Ok
    <3>3. QED  BY <1>1, <1>4, <3>2
  <2>3. CASE l[1] \in {"k", "f"}
    <3>1. set_reservation_key(l, old).v = l  BY <2>3 DEF set_reservation_key, Ok, Is
    <3>2. l = <<l[1], l[2]>> /\ l[2] \in Nat  BY <2>1, <2>3 DEF IsLine, IsText
    <3>3. l = <<"k", l[2]>> \/ l = <<"f", l[2]>>  BY <2>3, <3>2
    <3>4. QED  BY <1>1, <1>4, <3>1, <3>2, <3>3
  <2>4. CASE l[1] = "d" /\ l[2] >= 0
    <3>1. set_reservation_key(l, old).v = <<"k", l[2]>>
      BY <2>4 DEF set_reservation_key, Ok, Is
    <3>2. l[2] \in Nat  BY <2>1, <2>4, LineNumber
    <3>3. QED  BY <1>1, <1>4, <3>1, <3>2
  <2>5. CASE ~Is(l, "file") /\ l[1] \notin {"k", "f"} /\ ~(l[1] = "d" /\ l[2] >= 0)
    <3>1. set_reservation_key(l, old).v = old  BY <2>5 DEF set_reservation_key, Bad
    <3>2. QED  BY <1>1, <1>6, <3>1
  <2>6. QED  BY <2>2, <2>3, <2>4, <2>5
<1>7. ASSUME NEW v, Kept(kw, v) PROVE Back(sect, kw, v) = v
  <2>1. CASE v = None  BY <1>3, <1>5, <2>1 DEF Back
  <2>2. CASE v = <<"w", "file">>
    <3>1. set_value(v) = v /\ Is(v, "file") /\ v # None
      BY <2>2 DEF set_value, Is, None
    <3>2. set_reservation_key(v, None).v = v
      BY <2>2, <3>1 DEF set_reservation_key, Ok
    <3>3. QED  BY <1>1, <1>3, <1>5, <3>1, <3>2 DEF Back
  <2>3. ASSUME NEW n \in Nat, v = <<"k", n>> \/ v = <<"f", n>>
        PROVE  Back(sect, kw, v) = v
    <3>1. set_value(v) = v /\ v[1] \in {"k", "f"} /\ v # None
      BY <2>3 DEF set_value, None
    <3>2. set_reservation_key(v, None).v = v
      BY <3>1 DEF set_reservation_key, Ok, Is
    <3>3. QED  BY <1>1, <1>3, <1>5, <3>1, <3>2 DEF Back
  <2>4. QED  BY <1>4, <1>7, <2>1, <2>2, <2>3
<1>8. QED  BY <1>4, <1>5, <1>6, <1>7 DEF Reads

(***************************************************************************)
(* Dict: every option that can be read back                                *)
(***************************************************************************)

\* find_multipaths and uxsock_timeout are options of the defaults section only.
LEMMA DefaultsOnly ==
  ASSUME NEW sect \in Sections, NEW kw \in Keywords(sect),
         kw \in {"find_multipaths", "uxsock_timeout"}
  PROVE  sect = "defaults"
<1>1. kw \notin OffIntOptions /\ kw \notin YesNoUndefOptions  BY OptionKinds DEF Singles
<1>2. kw \notin MultipathKeywords /\ kw \notin OverrideKeywords
  BY <1>1 DEF MultipathKeywords, OverrideKeywords
<1>3. kw \notin DeviceKeywords  BY <1>2 DEF DeviceKeywords
<1>4. CASE sect = "devices"  BY <1>3, <1>4 DEF Keywords
<1>5. CASE sect = "overrides"  BY <1>2, <1>5 DEF Keywords
<1>6. CASE sect = "multipaths"  BY <1>2, <1>6 DEF Keywords
<1>7. QED  BY <1>4, <1>5, <1>6 DEF Sections

LEMMA AllKinds ==
  ASSUME NEW sect \in Sections, NEW kw \in Keywords(sect)
  PROVE  kw \in StrOptions \cup IntOptions \cup NonzeroOptions \cup MinioOptions \cup YesNoOptions
                  \cup YesNoUndefOptions \cup OffIntOptions \cup Singles
<1> DEFINE All == StrOptions \cup IntOptions \cup NonzeroOptions \cup MinioOptions
                  \cup YesNoOptions \cup YesNoUndefOptions \cup OffIntOptions \cup Singles
<1>1. MultipathKeywords \subseteq All
  BY DEF MultipathKeywords, StrOptions, NonzeroOptions, MinioOptions, YesNoUndefOptions, Singles
<1>2. OverrideKeywords \subseteq All
  BY DEF OverrideKeywords, StrOptions, NonzeroOptions, MinioOptions, YesNoUndefOptions, Singles
<1>3. DeviceKeywords \subseteq All  BY <1>2 DEF DeviceKeywords, StrOptions, Singles
<1>4. DefaultKeywords \subseteq All  BY <1>2 DEF DefaultKeywords, Singles
<1>5. CASE sect = "defaults"  BY <1>4, <1>5 DEF Keywords
<1>6. CASE sect = "devices"  BY <1>3, <1>6 DEF Keywords
<1>7. CASE sect = "overrides"  BY <1>2, <1>7 DEF Keywords
<1>8. CASE sect = "multipaths"  BY <1>1, <1>8 DEF Keywords
<1>9. QED  BY <1>5, <1>6, <1>7, <1>8 DEF Sections

LEMMA OptionReads ==
  ASSUME NEW sect \in Sections, NEW kw \in Keywords(sect), kw \notin NotReadable
  PROVE  Reads(sect, kw)
<1>1. CASE kw \in StrOptions  BY <1>1, StrReads
<1>2. CASE kw \in IntOptions  BY <1>2, IntReads
<1>3. CASE kw \in NonzeroOptions  BY <1>3, NonzeroReads
<1>4. CASE kw \in MinioOptions  BY <1>4, MinioReads
<1>5. CASE kw \in YesNoOptions  BY <1>5, YesNoReads
<1>6. CASE kw \in YesNoUndefOptions  BY <1>6, YesNoUndefReads
<1>7. CASE kw \in OffIntOptions  BY <1>7, OffIntReads
<1>8. CASE kw \in Singles
  <2>1. CASE kw \in {"find_multipaths", "uxsock_timeout"}
    BY <2>1, DefaultsOnly, FindMultipathsReads, UxsockTimeoutReads
  <2>2. CASE kw \in {"polling_interval", "max_polling_interval", "partition_delimiter", "mode",
                     "fast_io_fail_tmo", "dev_loss_tmo"}
    BY <2>2, PollingReads, MaxPollingReads, PartitionDelimiterReads, ModeReads,
       FastIoFailReads, DevLossReads
  <2>3. CASE kw \in {"path_grouping_policy", "rr_weight", "failback", "no_path_retry",
                     "log_checker_err", "reservation_key", "vpd_vendor",
                     "queue_without_daemon"}
    BY <2>3, PgpolicyReads, RrWeightReads, FailbackReads, NoPathRetryReads,
       LogCheckerErrReads, ReservationKeyReads, VpdVendorReads, QueueWithoutDaemonReads
  <2>4. QED  BY <1>8, <2>1, <2>2, <2>3 DEF Singles, NotReadable
<1>9. QED  BY <1>1, <1>2, <1>3, <1>4, <1>5, <1>6, <1>7, <1>8, AllKinds

\* What is kept for the option is a value that a line may leave.
DictInv ==
  /\ opt_sect \in Sections /\ opt \in Keywords(opt_sect)
  /\ opt \in NotReadable \/ Kept(opt, stored)

\* The printed configuration can be used as a configuration file: an option that is read back
\* counts for what it did (the printers and handlers of dict.c, "multipath -t").
THEOREM RoundTripTheorem == DictSpec => []RoundTrip
<1>1. DictInit => DictInv
  BY OptionReads DEF DictInit, DictInv, Reads
<1>2. DictInv /\ [DictNext]_dict_vars => DictInv'
  <2>1. SUFFICES ASSUME DictInv, [DictNext]_dict_vars PROVE DictInv'
    OBVIOUS
  <2>2. ASSUME NEW t \in Texts, Give(t) PROVE DictInv'
    <3>1. IsText(t)  BY DictAssumption
    <3>2. QED  BY <2>1, <2>2, <3>1, OptionReads DEF DictInv, Give, Reads
  <2>3. CASE ReadBack
    <3>1. Reread = Back(opt_sect, opt, stored)  BY DEF Reread, Back
    <3>2. QED  BY <2>1, <2>3, <3>1, OptionReads DEF DictInv, ReadBack, Reads
  <2>4. CASE UNCHANGED dict_vars  BY <2>1, <2>4 DEF DictInv, dict_vars
  <2>5. QED  BY <2>1, <2>2, <2>3, <2>4 DEF DictNext
<1>3. DictInv => RoundTrip
  <2>1. SUFFICES ASSUME DictInv, opt \notin NotReadable
                 PROVE  Effective(Reread) = Effective(stored)
    BY DEF RoundTrip
  <2>2. Reread = Back(opt_sect, opt, stored)  BY DEF Reread, Back
  <2>3. \A v : Effective(v) = Counts(opt_sect, opt, v)  BY DEF Effective, Counts
  <2>4. QED  BY <2>1, <2>2, <2>3, OptionReads DEF DictInv, Reads
<1>4. QED  BY <1>1, <1>2, <1>3, PTL DEF DictSpec
==============================================================================
