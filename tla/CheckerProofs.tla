----------------------------- MODULE CheckerProofs -----------------------------
(***************************************************************************)
(* Proofs about the path checkers, for any number of threads, contexts,    *)
(* paths and groups. Directio: reads, places of groups and references to   *)
(* the class are accounted for, in every state. TurChecker: the checker    *)
(* and its threads use live contexts only and free each once, cancel live  *)
(* threads only, and no check is answered twice or for another thread.     *)
(***************************************************************************)
EXTENDS Directio, TurChecker, FiniteSetTheorems, SequenceTheorems, TLAPS

(***************************************************************************)
(* Directio: the inductive invariant                                       *)
(***************************************************************************)

Runs == 0 .. (DioTimeout + 1)
Context == [grp : AioGroups, req : AsyncReqs, running : Runs]
Used == {"idle", "pending", "up", "down"}

DioTypes ==
  /\ aio_grp_list \in Seq(AioGroups)
  /\ holders \in [AioGroups -> Nat]
  /\ orphans \in [AioGroups -> SUBSET AsyncReqs]
  /\ dio_ct \in [DioPaths -> Context \cup {NoDioContext}]
  /\ req_state \in [AsyncReqs -> Used \cup {"removed", "freed"}]
  /\ inflight \in SUBSET (AioGroups \X AsyncReqs)
  /\ completed \in SUBSET (AioGroups \X AsyncReqs \X BOOLEAN)
  /\ cls_refcount \in Nat

\* A group is in the list once.
ListSound == \A i, j \in DOMAIN aio_grp_list : aio_grp_list[i] = aio_grp_list[j] => i = j

\* A path has a request of its own, in a group of the list.
ContextsSound ==
  /\ \A p \in DioContexts : /\ dio_ct[p].grp \in ListedGroups
                            /\ req_state[dio_ct[p].req] \in Used
  /\ \A p, o \in DioContexts : dio_ct[p].req = dio_ct[o].req => p = o

\* An orphan belongs to one group of the list and to no path.
OrphansSound ==
  \A g \in AioGroups : \A r \in orphans[g] :
    /\ g \in ListedGroups /\ req_state[r] = "removed"
    /\ \A h \in AioGroups : r \in orphans[h] => h = g

\* Who answers for a read of request r in group g.
Owned(g, r) ==
  /\ g \in ListedGroups
  /\ \/ r \in orphans[g]
     \/ \E p \in DioContexts : /\ dio_ct[p].req = r /\ dio_ct[p].grp = g
                               /\ dio_ct[p].running > 0 /\ req_state[r] = "pending"

\* Every read has an owner, and the kernel is done with one it reports.
ReadsSound ==
  \A g \in AioGroups, r \in AsyncReqs :
    /\ <<g, r>> \in inflight => Owned(g, r)
    /\ \A ok \in BOOLEAN : <<g, r, ok>> \in completed => Owned(g, r) /\ <<g, r>> \notin inflight

Users(g) == {p \in DioContexts : dio_ct[p].grp = g}
PlacesSound ==
  \A g \in AioGroups : /\ holders[g] = Cardinality(Users(g)) + Cardinality(orphans[g])
                       /\ holders[g] <= AIO_GROUP_SIZE

RefsSound == DioContexts # {} => cls_refcount >= 1 + Cardinality(DioContexts)

DioInv ==
  /\ DioTypes /\ ListSound /\ ContextsSound /\ OrphansSound /\ ReadsSound
  /\ PlacesSound /\ RefsSound

(***************************************************************************)
(* Contexts and places                                                     *)
(***************************************************************************)

\* A path with a context is told from one without by its fields.
LEMMA ContextFacts ==
  ASSUME NEW c \in Context
  PROVE  /\ c # NoDioContext /\ c.grp \in AioGroups /\ c.req \in AsyncReqs
         /\ c.running \in Runs
<1>1. "grp" \in DOMAIN c
  BY DEF Context
<1>2. "grp" \notin DOMAIN NoDioContext
  BY DEF NoDioContext
<1>3. c # NoDioContext
  BY <1>1, <1>2
<1> QED
  BY <1>3 DEF Context

\* The context of a path that has one.
LEMMA ContextOf ==
  ASSUME DioTypes, NEW p \in DioContexts
  PROVE  /\ p \in DioPaths /\ dio_ct[p] \in Context /\ dio_ct[p].grp \in AioGroups
         /\ dio_ct[p].req \in AsyncReqs /\ dio_ct[p].running \in Runs
<1>1. p \in DioPaths /\ dio_ct[p] \in Context
  BY DEF DioTypes, DioContexts
<1> QED
  BY <1>1, ContextFacts

\* A read that runs has been seen by a check.
LEMMA RunsFacts == Runs \subseteq Nat /\ 0 \in Runs /\ \A n \in Runs : n # 0 => n > 0
  BY DioConstants DEF Runs

\* There are finitely many users of a group, and orphans.
LEMMA Finite ==
  ASSUME DioTypes
  PROVE  /\ IsFiniteSet(DioContexts) /\ Cardinality(DioContexts) \in Nat
         /\ \A g : IsFiniteSet(Users(g)) /\ Cardinality(Users(g)) \in Nat
         /\ \A g \in AioGroups : IsFiniteSet(orphans[g]) /\ Cardinality(orphans[g]) \in Nat
<1>1. IsFiniteSet(DioContexts)
  BY DioConstants, FS_Subset DEF DioContexts
<1>2. ASSUME NEW g PROVE IsFiniteSet(Users(g))
  BY <1>1, FS_Subset DEF Users
<1>3. ASSUME NEW g \in AioGroups PROVE IsFiniteSet(orphans[g])
  <2>1. orphans[g] \subseteq AsyncReqs
    BY DEF DioTypes
  <2> QED
    BY <2>1, DioConstants, FS_Subset
<1> QED
  BY <1>1, <1>2, <1>3, FS_CardinalityType

\* What setting the count of a path's checks leaves alone.
LEMMA SetRunning ==
  ASSUME DioTypes, NEW p \in DioContexts, NEW n \in Runs,
         dio_ct' = [dio_ct EXCEPT ![p].running = n]
  PROVE  /\ dio_ct' \in [DioPaths -> Context \cup {NoDioContext}]
         /\ DioContexts' = DioContexts
         /\ \A o \in DioContexts : /\ dio_ct'[o].grp = dio_ct[o].grp
                                  /\ dio_ct'[o].req = dio_ct[o].req
                                  /\ o # p => dio_ct'[o] = dio_ct[o]
         /\ dio_ct'[p].running = n
         /\ \A g : Users(g)' = Users(g)
<1> DEFINE c == [dio_ct[p] EXCEPT !.running = n]
<1>1. p \in DioPaths /\ dio_ct[p] \in Context
  BY ContextOf
<1>2. c \in Context /\ c.grp = dio_ct[p].grp /\ c.req = dio_ct[p].req /\ c.running = n
  BY <1>1 DEF Context
<1>3. dio_ct' = [dio_ct EXCEPT ![p] = c]
  OBVIOUS
<1> HIDE DEF c
<1>4. dio_ct'[p] = c /\ \A o \in DioPaths : o # p => dio_ct'[o] = dio_ct[o]
  BY <1>1, <1>3 DEF DioTypes
<1>5. dio_ct' \in [DioPaths -> Context \cup {NoDioContext}]
  BY <1>2, <1>3 DEF DioTypes
<1>6. DioContexts' = DioContexts
  BY <1>1, <1>2, <1>4, ContextFacts DEF DioContexts
<1>7. \A o \in DioContexts : /\ dio_ct'[o].grp = dio_ct[o].grp
                            /\ dio_ct'[o].req = dio_ct[o].req
                            /\ o # p => dio_ct'[o] = dio_ct[o]
  BY <1>2, <1>4 DEF DioContexts
<1>8. \A g : Users(g)' = Users(g)
  BY <1>6, <1>7 DEF Users
<1> QED
  BY <1>2, <1>4, <1>5, <1>6, <1>7, <1>8

\* A new group at the head of the list.
LEMMA Prepended ==
  ASSUME DioTypes, ListSound, NEW g \in AioGroups, g \notin ListedGroups,
         aio_grp_list' = <<g>> \o aio_grp_list
  PROVE  /\ aio_grp_list' \in Seq(AioGroups) /\ ListSound'
         /\ ListedGroups' = ListedGroups \cup {g}
<1> DEFINE s == aio_grp_list
<1> DEFINE t == <<g>> \o aio_grp_list
<1>1. s \in Seq(AioGroups) /\ Len(s) \in Nat /\ DOMAIN s = 1 .. Len(s)
  BY DEF DioTypes
<1>2. /\ t \in Seq(AioGroups) /\ DOMAIN t = 1 .. (Len(s) + 1) /\ t[1] = g
      /\ \A i \in DOMAIN t : i # 1 => i - 1 \in DOMAIN s /\ t[i] = s[i - 1]
      /\ \A i \in DOMAIN s : i + 1 \in DOMAIN t /\ t[i + 1] = s[i]
  BY <1>1
<1>3. \A i \in DOMAIN s : s[i] # g
  BY DEF ListedGroups
<1>4. \A i, j \in DOMAIN s : s[i] = s[j] => i = j
  BY DEF ListSound
<1>0. aio_grp_list' = t
  OBVIOUS
<1> HIDE DEF s, t
<1>5. ASSUME NEW i \in DOMAIN t, NEW j \in DOMAIN t, t[i] = t[j] PROVE i = j
  <2>1. CASE i = 1 \/ j = 1
    BY <1>2, <1>3, <1>5, <2>1
  <2>2. CASE i # 1 /\ j # 1
    <3>1. i - 1 = j - 1
      BY <1>2, <1>4, <1>5, <2>2
    <3> QED
      BY <1>1, <1>2, <3>1
  <2> QED
    BY <2>1, <2>2
<1>6. {t[i] : i \in DOMAIN t} = {s[i] : i \in DOMAIN s} \cup {g}
  BY <1>1, <1>2
<1>7. ListedGroups' = {t[i] : i \in DOMAIN t} /\ ListedGroups = {s[i] : i \in DOMAIN s}
  BY <1>0 DEF ListedGroups, s
<1>8. ListSound'
  BY <1>0, <1>5 DEF ListSound
<1> QED
  BY <1>0, <1>2, <1>6, <1>7, <1>8

\* A group that leaves the list.
LEMMA Removed ==
  ASSUME DioTypes, ListSound, NEW i \in DOMAIN aio_grp_list,
         aio_grp_list' = RemoveAt(aio_grp_list, i)
  PROVE  /\ aio_grp_list' \in Seq(AioGroups) /\ ListSound'
         /\ ListedGroups' = ListedGroups \ {aio_grp_list[i]}
<1> DEFINE s == aio_grp_list
<1> DEFINE t == RemoveAt(aio_grp_list, i)
<1>1. s \in Seq(AioGroups) /\ Len(s) \in Nat /\ DOMAIN s = 1 .. Len(s) /\ i \in 1 .. Len(s)
  BY DEF DioTypes
<1> DEFINE a == SubSeq(s, 1, i - 1)
<1> DEFINE b == SubSeq(s, i + 1, Len(s))
<1>2. a \in Seq(AioGroups) /\ Len(a) = i - 1 /\ \A j \in 1 .. (i - 1) : a[j] = s[j]
  BY <1>1, SubSeqProperties
<1>3. /\ b \in Seq(AioGroups) /\ Len(b) = Len(s) - i
      /\ \A j \in 1 .. (Len(s) - i) : b[j] = s[i + j]
  BY SMTT(40), <1>1, SubSeqProperties
<1>4. t = a \o b
  BY DEF RemoveAt
<1>0. aio_grp_list' = t
  OBVIOUS
<1> HIDE DEF s, t, a, b
<1>5. /\ t \in Seq(AioGroups) /\ DOMAIN t = 1 .. (Len(s) - 1)
      /\ \A j \in DOMAIN t : t[j] = IF j < i THEN s[j] ELSE s[j + 1]
  <2>1. t \in Seq(AioGroups) /\ Len(t) = Len(s) - 1 /\ DOMAIN t = 1 .. Len(t)
    <3>1. t \in Seq(AioGroups)
      BY <1>2, <1>3, <1>4
    <3>2. Len(t) = Len(a) + Len(b)
      BY <1>2, <1>3, <1>4, ConcatProperties
    <3>3. Len(t) = Len(s) - 1
      BY <1>1, <1>2, <1>3, <3>2
    <3> QED
      BY <3>1, <3>3
  <2>2. \A j \in 1 .. Len(t) : t[j] = IF j <= Len(a) THEN a[j] ELSE b[j - Len(a)]
    BY <1>2, <1>3, <1>4, ConcatProperties
  <2>3. ASSUME NEW j \in 1 .. (Len(s) - 1) PROVE t[j] = IF j < i THEN s[j] ELSE s[j + 1]
    <3>1. CASE j < i
      BY <1>1, <1>2, <2>1, <2>2, <3>1
    <3>2. CASE j >= i
      <4>1. j - (i - 1) \in 1 .. (Len(s) - i) /\ i + (j - (i - 1)) = j + 1
        BY <1>1, <3>2
      <4>2. t[j] = b[j - (i - 1)]
        BY <1>1, <1>2, <2>1, <2>2, <3>2
      <4> QED
        BY <1>1, <1>3, <3>2, <4>1, <4>2
    <3> QED
      BY <1>1, <3>1, <3>2
  <2> QED
    BY <2>1, <2>3
<1>6. \A j, k \in DOMAIN s : s[j] = s[k] => j = k
  BY DEF ListSound, s
<1>7. \A j, k \in DOMAIN t : t[j] = t[k] => j = k
  BY <1>1, <1>5, <1>6
<1>8. ASSUME NEW j \in DOMAIN t PROVE t[j] \in {s[k] : k \in DOMAIN s} \ {s[i]}
  BY <1>1, <1>5, <1>6
<1>9. ASSUME NEW k \in DOMAIN s, s[k] # s[i] PROVE s[k] \in {t[j] : j \in DOMAIN t}
  <2>1. CASE k < i
    BY <1>1, <1>5, <2>1
  <2>2. CASE k > i
    <3>1. k - 1 \in DOMAIN t /\ t[k - 1] = s[k]
      BY <1>1, <1>5, <2>2
    <3> QED
      BY <3>1
  <2> QED
    BY <1>1, <1>9, <2>1, <2>2
<1>10. {t[j] : j \in DOMAIN t} = {s[k] : k \in DOMAIN s} \ {s[i]}
  BY <1>8, <1>9
<1>11. ListedGroups' = {t[j] : j \in DOMAIN t} /\ ListedGroups = {s[j] : j \in DOMAIN s}
  BY <1>0 DEF ListedGroups, s
<1>12. ListSound'
  BY <1>0, <1>7 DEF ListSound
<1> QED
  BY <1>0, <1>5, <1>10, <1>11, <1>12 DEF s

\* A set that loses a part of it.
LEMMA CardinalityMinus ==
  ASSUME NEW S, IsFiniteSet(S), NEW T \in SUBSET S
  PROVE  /\ Cardinality(S) \in Nat /\ Cardinality(T) \in Nat /\ Cardinality(S \ T) \in Nat
         /\ Cardinality(S \ T) = Cardinality(S) - Cardinality(T)
<1>1. IsFiniteSet(T) /\ IsFiniteSet(S \ T)
  BY FS_Subset
<1>2. (S \ T) \cup T = S /\ (S \ T) \cap T = {}
  OBVIOUS
<1>3. Cardinality(S) = Cardinality(S \ T) + Cardinality(T) - Cardinality({})
  BY <1>1, <1>2, FS_Union
<1> QED
  BY <1>1, <1>3, FS_CardinalityType, FS_EmptySet

(***************************************************************************)
(* The check of a path                                                     *)
(***************************************************************************)

\* The request of a path is no orphan, and only the path owns its reads.
LEMMA OwnRequest ==
  ASSUME DioInv, NEW p \in DioContexts
  PROVE  /\ \A g \in AioGroups : dio_ct[p].req \notin orphans[g]
         /\ \A g \in AioGroups : Owned(g, dio_ct[p].req) =>
              g = dio_ct[p].grp /\ dio_ct[p].running > 0 /\ req_state[dio_ct[p].req] = "pending"
<1>1. req_state[dio_ct[p].req] \in Used
  BY DEF DioInv, ContextsSound
<1>2. \A g \in AioGroups : dio_ct[p].req \notin orphans[g]
  BY <1>1 DEF DioInv, OrphansSound, Used
<1> QED
  BY <1>2 DEF Owned, DioInv, ContextsSound

\* An event names its group, its request and whether all bytes were read.
LEMMA EventShape ==
  ASSUME DioTypes, NEW e \in completed
  PROVE  \E r \in AsyncReqs, ok \in BOOLEAN : e = <<e[1], r, ok>> /\ e[1] \in AioGroups
<1>1. e \in AioGroups \X AsyncReqs \X BOOLEAN
  BY DEF DioTypes
<1> QED
  BY <1>1

\* What get_events() does in a check of path p that leaves n as the count of
\* checks its read has been running: when that is none, the read was aborted
\* or its event is there.
LEMMA WaitStep ==
  ASSUME DioInv, NEW p \in DioContexts, NEW n \in Runs, NEW sub, NEW done,
         dio_ct[p].running > 0 =>
           req_state[dio_ct[p].req] = "pending" /\ sub \subseteq inflight,
         sub \subseteq inflight \cup {<<dio_ct[p].grp, dio_ct[p].req>>},
         \A e \in done : \E r \in AsyncReqs, ok \in BOOLEAN :
           /\ e = <<dio_ct[p].grp, r, ok>>
           /\ <<dio_ct[p].grp, r>> \in inflight \cup {<<dio_ct[p].grp, dio_ct[p].req>>},
         \/ n > 0
         \/ <<dio_ct[p].grp, dio_ct[p].req>> \notin sub
         \/ \E e \in completed \cup done : e[2] = dio_ct[p].req,
         get_events(dio_ct[p].grp, [req_state EXCEPT ![dio_ct[p].req] = "pending"], sub, done),
         dio_ct' = [dio_ct EXCEPT ![p].running = n],
         UNCHANGED <<aio_grp_list, cls_refcount>>
  PROVE  DioInv'
<1> DEFINE g == dio_ct[p].grp
<1> DEFINE q == dio_ct[p].req
<1> DEFINE state == [req_state EXCEPT ![dio_ct[p].req] = "pending"]
<1> DEFINE evs == {e \in completed : e[1] = dio_ct[p].grp} \cup done
<1> DEFINE dead == {e[2] : e \in evs} \cap orphans[dio_ct[p].grp]
<1> DEFINE Read(r) == \E e \in evs : e[2] = r
<1>1. DioTypes /\ g \in AioGroups /\ q \in AsyncReqs /\ p \in DioPaths
  BY ContextOf DEF DioInv
<1>2. /\ completed' = {e \in completed : e[1] # g}
      /\ inflight' = sub \ {<<e[1], e[2]>> : e \in done}
      /\ orphans' = [orphans EXCEPT ![g] = @ \ dead]
      /\ holders' = [holders EXCEPT ![g] = @ - Cardinality(dead)]
      /\ req_state' = [r \in AsyncReqs |->
           IF r \in dead THEN "freed"
           ELSE IF Read(r)
                THEN IF \E e \in evs : e[2] = r /\ e[3] THEN "up" ELSE "down"
                ELSE state[r]]
  BY DEF get_events
<1>3. /\ \A r \in AsyncReqs, ok \in BOOLEAN : <<g, r, ok>> \in completed => Read(r)
      /\ \A r \in AsyncReqs, ok \in BOOLEAN : <<g, r, ok>> \in done => Read(r)
  <2>1. ASSUME NEW r \in AsyncReqs, NEW ok \in BOOLEAN,
               <<g, r, ok>> \in completed \/ <<g, r, ok>> \in done
        PROVE  Read(r)
    <3>1. <<g, r, ok>> \in evs /\ <<g, r, ok>>[2] = r
      BY <2>1
    <3> QED
      BY <3>1
  <2> QED
    BY <2>1
<1>4. ASSUME NEW r, Read(r)
      PROVE  r \in AsyncReqs /\ (Owned(g, r) \/ r = q)
  <2>1. PICK e \in evs : e[2] = r
    BY <1>4
  <2>2. CASE e \in completed /\ e[1] = g
    <3>1. PICK r2 \in AsyncReqs, ok \in BOOLEAN : e = <<g, r2, ok>>
      BY <1>1, <2>2, EventShape
    <3>2. r2 = r /\ <<g, r, ok>> \in completed
      BY <2>1, <2>2, <3>1
    <3> QED
      BY <1>1, <3>1, <3>2 DEF DioInv, ReadsSound
  <2>3. CASE e \in done
    <3>1. PICK r2 \in AsyncReqs, ok \in BOOLEAN :
            e = <<g, r2, ok>> /\ <<g, r2>> \in inflight \cup {<<g, q>>}
      BY <2>3
    <3>2. r2 = r
      BY <2>1, <3>1
    <3> QED
      BY <1>1, <3>1, <3>2 DEF DioInv, ReadsSound
  <2> QED
    BY <2>1, <2>2, <2>3
<1>5. \A r : r \in dead <=> Read(r) /\ r \in orphans[g]
  OBVIOUS
<1>6. g \in AioGroups /\ state \in [AsyncReqs -> Used \cup {"removed", "freed"}]
      /\ state[q] = "pending" /\ \A r \in AsyncReqs : r # q => state[r] = req_state[r]
  BY <1>1 DEF DioTypes, Used
<1>7. dead \subseteq orphans[g] /\ orphans[g] \subseteq AsyncReqs
  BY <1>1 DEF DioTypes
<1> HIDE DEF state, evs, dead, Read
<1>8. /\ dio_ct' \in [DioPaths -> Context \cup {NoDioContext}]
      /\ DioContexts' = DioContexts /\ ListedGroups' = ListedGroups
      /\ \A o \in DioContexts : /\ dio_ct'[o].grp = dio_ct[o].grp
                               /\ dio_ct'[o].req = dio_ct[o].req
                               /\ o # p => dio_ct'[o] = dio_ct[o]
      /\ dio_ct'[p].running = n
      /\ \A h : Users(h)' = Users(h)
  <2>1. ListedGroups' = ListedGroups
    BY DEF ListedGroups
  <2> QED
    BY <1>1, <2>1, SetRunning
<1>9. /\ orphans' \in [AioGroups -> SUBSET AsyncReqs]
      /\ orphans'[g] = orphans[g] \ dead
      /\ \A h \in AioGroups : h # g => orphans'[h] = orphans[h]
  BY <1>1, <1>2, <1>7 DEF DioTypes
<1>10. /\ req_state' \in [AsyncReqs -> Used \cup {"removed", "freed"}]
       /\ \A r \in AsyncReqs :
            /\ r \notin dead => IF Read(r) THEN req_state'[r] \in {"up", "down"}
                               ELSE IF r = q THEN req_state'[r] = "pending"
                               ELSE req_state'[r] = req_state[r]
  BY <1>2, <1>6 DEF Used
<1>11. /\ \A h \in AioGroups : q \notin orphans[h]
       /\ \A h \in AioGroups : Owned(h, q) =>
            h = g /\ dio_ct[p].running > 0 /\ req_state[q] = "pending"
  BY OwnRequest
<1>12. q \notin dead
  BY <1>1, <1>5, <1>11
\* Orphans of other groups have no event in this one.
<1>13. ASSUME NEW h \in AioGroups, NEW r \in orphans'[h]
       PROVE  r \in orphans[h] /\ ~Read(r) /\ r \notin dead /\ r # q /\ req_state'[r] = "removed"
  <2>1. r \in orphans[h] /\ r \in AsyncReqs /\ (h = g => r \notin dead)
    BY <1>1, <1>9, <1>13 DEF DioTypes
  <2>2. req_state[r] = "removed" /\ \A k \in AioGroups : r \in orphans[k] => k = h
    BY <2>1 DEF DioInv, OrphansSound
  <2>3. r # q
    BY <1>11, <2>1
  <2>4. ~Read(r)
    <3>1. SUFFICES ASSUME Read(r) PROVE FALSE
      OBVIOUS
    <3>2. Owned(g, r)
      BY <1>4, <2>3, <3>1
    <3>3. r \in orphans[g]
      BY <2>2, <3>2 DEF Owned
    <3> QED
      BY <1>1, <1>5, <2>1, <2>2, <3>1, <3>3
  <2>5. r \notin dead
    BY <1>5, <2>4
  <2> QED
    BY <1>10, <2>1, <2>2, <2>3, <2>4, <2>5
\* The request of another path that is read in this group.
<1>14. ASSUME NEW o \in DioContexts
       PROVE  /\ dio_ct[o].req \in AsyncReqs /\ dio_ct[o].req \notin dead
              /\ Read(dio_ct[o].req) => dio_ct[o].grp = g
              /\ dio_ct[o].req = q => o = p
              /\ req_state'[dio_ct[o].req] \in Used
  <2>1. dio_ct[o].req \in AsyncReqs /\ req_state[dio_ct[o].req] \in Used
    BY <1>1, ContextOf DEF DioInv, ContextsSound
  <2>2. dio_ct[o].req \notin dead
    BY <1>1, <1>5, OwnRequest
  <2>3. dio_ct[o].req = q => o = p
    BY DEF DioInv, ContextsSound
  <2>4. Read(dio_ct[o].req) => dio_ct[o].grp = g
    BY <1>1, <1>4, <2>3, OwnRequest
  <2> QED
    BY <1>10, <2>1, <2>2, <2>3, <2>4 DEF Used
\* What the kernel still has, and what is not read.
<1>15. ASSUME NEW h \in AioGroups, NEW r \in AsyncReqs, <<h, r>> \in inflight'
       PROVE  /\ <<h, r>> \in sub /\ (h = g => ~Read(r))
              /\ <<h, r>> \in inflight \/ (h = g /\ r = q)
  <2>1. <<h, r>> \in sub /\ ~\E e \in done : <<e[1], e[2]>> = <<h, r>>
    BY <1>2, <1>15
  <2>2. <<h, r>> \in inflight \/ (h = g /\ r = q)
    BY <2>1
  <2>3. ASSUME h = g, Read(r) PROVE FALSE
    <3>1. PICK e \in evs : e[2] = r
      BY <2>3 DEF Read
    <3>2. CASE e \in done
      <4>1. \E r2 \in AsyncReqs, ok \in BOOLEAN : e = <<g, r2, ok>>
        BY <3>2
      <4>2. e[1] = g
        BY <4>1
      <4> QED
        BY <2>1, <2>3, <3>1, <3>2, <4>2
    <3>3. CASE e \in completed /\ e[1] = g
      <4>1. PICK ok \in BOOLEAN : e = <<g, r, ok>>
        BY <1>1, <3>1, <3>3, EventShape
      <4>2. Owned(g, r) /\ <<g, r>> \notin inflight
        BY <1>1, <3>3, <4>1 DEF DioInv, ReadsSound
      <4>3. r = q /\ dio_ct[p].running > 0
        BY <1>1, <1>11, <2>2, <2>3, <4>2
      <4> QED
        BY <2>1, <2>3, <4>2, <4>3
    <3> QED
      BY <3>1, <3>2, <3>3 DEF evs
  <2>4. h = g => ~Read(r)
    BY <2>3
  <2> QED
    BY <2>1, <2>2, <2>4
<1>16. ASSUME NEW h \in AioGroups, NEW r \in AsyncReqs, NEW ok \in BOOLEAN,
              <<h, r, ok>> \in completed'
       PROVE  h # g /\ <<h, r, ok>> \in completed
  BY <1>2, <1>16
<1>17. DioTypes'
  <2>1. /\ inflight' \in SUBSET (AioGroups \X AsyncReqs)
        /\ completed' \in SUBSET (AioGroups \X AsyncReqs \X BOOLEAN)
    BY <1>1, <1>2 DEF DioTypes
  <2>2. holders' \in [AioGroups -> Nat] /\ holders'[g] = holders[g] - Cardinality(dead)
    <3>1. holders[g] - Cardinality(dead) \in Nat
      <4>1. holders[g] = Cardinality(Users(g)) + Cardinality(orphans[g])
        BY <1>1 DEF DioInv, PlacesSound
      <4>2. /\ Cardinality(orphans[g]) \in Nat /\ Cardinality(dead) \in Nat
            /\ Cardinality(orphans[g] \ dead) \in Nat
            /\ Cardinality(orphans[g] \ dead) = Cardinality(orphans[g]) - Cardinality(dead)
        BY <1>1, <1>7, Finite, CardinalityMinus
      <4>3. Cardinality(Users(g)) \in Nat
        BY <1>1, Finite
      <4> QED
        BY <4>1, <4>2, <4>3
    <3> QED
      BY <1>1, <1>2, <3>1 DEF DioTypes
  <2> QED
    BY <1>1, <1>8, <1>9, <1>10, <2>1, <2>2 DEF DioTypes
<1>18. ListSound'
  BY DEF DioInv, ListSound
<1>19. ContextsSound'
  BY <1>8, <1>14 DEF DioInv, ContextsSound
<1>20. OrphansSound'
  <2>1. ASSUME NEW h \in AioGroups, NEW r \in orphans'[h]
        PROVE  /\ h \in ListedGroups' /\ req_state'[r] = "removed"
               /\ \A k \in AioGroups : r \in orphans'[k] => k = h
    BY <1>8, <1>13, <2>1 DEF DioInv, OrphansSound
  <2> QED
    BY <2>1 DEF OrphansSound
\* An owner of a read that is still there owns it.
<1>21. ASSUME NEW h \in AioGroups, NEW r \in AsyncReqs, Owned(h, r),
              h = g => ~Read(r), h # g \/ r # q
       PROVE  Owned(h, r)'
  <2>1. h \in ListedGroups'
    BY <1>8, <1>21 DEF Owned
  <2>2. CASE r \in orphans[h]
    BY <1>1, <1>5, <1>9, <1>21, <2>1, <2>2 DEF Owned
  <2>3. CASE \E o \in DioContexts : /\ dio_ct[o].req = r /\ dio_ct[o].grp = h
                                   /\ dio_ct[o].running > 0 /\ req_state[r] = "pending"
    <3>1. PICK o \in DioContexts : /\ dio_ct[o].req = r /\ dio_ct[o].grp = h
                                  /\ dio_ct[o].running > 0 /\ req_state[r] = "pending"
      BY <2>3
    <3>2. o # p /\ r # q
      BY <1>14, <1>21, <3>1
    <3>3. r \notin dead /\ ~Read(r)
      BY <1>14, <1>21, <3>1
    <3>4. req_state'[r] = "pending" /\ dio_ct'[o] = dio_ct[o]
      BY <1>8, <1>10, <3>1, <3>2, <3>3
    <3> QED
      BY <1>8, <2>1, <3>1, <3>4 DEF Owned
  <2> QED
    BY <1>21, <2>2, <2>3 DEF Owned
\* The read of p itself.
<1>22. ASSUME <<g, q>> \in inflight' PROVE Owned(g, q)'
  <2>1. <<g, q>> \in sub /\ ~Read(q)
    BY <1>1, <1>15, <1>22
  <2>2. ~\E e \in completed \cup done : e[2] = q
    <3>1. SUFFICES ASSUME NEW e \in completed \cup done, e[2] = q PROVE FALSE
      OBVIOUS
    <3>2. CASE e \in done
      BY <2>1, <3>1, <3>2 DEF Read, evs
    <3>3. CASE e \in completed
      <4>1. PICK h \in AioGroups, ok \in BOOLEAN : e = <<h, q, ok>>
        BY <1>1, <3>1, <3>3, EventShape
      <4>2. Owned(h, q)
        BY <1>1, <3>3, <4>1 DEF DioInv, ReadsSound
      <4>3. e[1] = g
        BY <1>11, <4>1, <4>2
      <4> QED
        BY <2>1, <3>1, <3>3, <4>3 DEF Read, evs
    <3> QED
      BY <3>2, <3>3
  <2>3. n > 0
    BY <2>1, <2>2
  <2>4. req_state'[q] = "pending" /\ g \in ListedGroups
    BY <1>1, <1>10, <1>12, <2>1 DEF DioInv, ContextsSound
  <2> QED
    BY <1>8, <2>3, <2>4 DEF Owned
<1>23. ReadsSound'
  <2>1. ASSUME NEW h \in AioGroups, NEW r \in AsyncReqs, <<h, r>> \in inflight'
        PROVE  Owned(h, r)'
    <3>1. CASE h = g /\ r = q
      BY <1>22, <2>1, <3>1
    <3>2. CASE h # g \/ r # q
      <4>1. <<h, r>> \in inflight /\ (h = g => ~Read(r))
        BY <1>15, <2>1, <3>2
      <4>2. Owned(h, r)
        BY <4>1 DEF DioInv, ReadsSound
      <4> QED
        BY <1>21, <3>2, <4>1, <4>2
    <3> QED
      BY <3>1, <3>2
  <2>2. ASSUME NEW h \in AioGroups, NEW r \in AsyncReqs, NEW ok \in BOOLEAN,
               <<h, r, ok>> \in completed'
        PROVE  Owned(h, r)' /\ <<h, r>> \notin inflight'
    <3>1. h # g /\ <<h, r, ok>> \in completed
      BY <1>16, <2>2
    <3>2. Owned(h, r) /\ <<h, r>> \notin inflight
      BY <3>1 DEF DioInv, ReadsSound
    <3> QED
      BY <1>15, <1>21, <3>1, <3>2
  <2> QED
    BY <2>1, <2>2 DEF ReadsSound
<1>24. PlacesSound'
  <2>1. ASSUME NEW h \in AioGroups
        PROVE  /\ holders'[h] = Cardinality(Users(h)') + Cardinality(orphans'[h])
               /\ holders'[h] <= AIO_GROUP_SIZE
    <3>1. /\ holders[h] = Cardinality(Users(h)) + Cardinality(orphans[h])
          /\ holders[h] <= AIO_GROUP_SIZE /\ Users(h)' = Users(h)
      BY <1>8 DEF DioInv, PlacesSound
    <3>2. Cardinality(Users(h)) \in Nat /\ Cardinality(orphans[h]) \in Nat
      BY <1>1, Finite
    <3>3. CASE h # g
      BY <1>1, <1>2, <1>9, <3>1, <3>3 DEF DioTypes
    <3>4. CASE h = g
      <4>1. holders'[g] = holders[g] - Cardinality(dead)
        BY <1>1, <1>2 DEF DioTypes
      <4>2. /\ Cardinality(dead) \in Nat
            /\ Cardinality(orphans'[g]) = Cardinality(orphans[g]) - Cardinality(dead)
        BY <1>1, <1>7, <1>9, Finite, CardinalityMinus
      <4> QED
        BY <3>1, <3>2, <3>4, <4>1, <4>2, DioConstants
    <3> QED
      BY <3>3, <3>4
  <2> QED
    BY <2>1 DEF PlacesSound
<1>25. RefsSound'
  BY <1>8 DEF DioInv, RefsSound
<1> QED
  BY <1>17, <1>18, <1>19, <1>20, <1>23, <1>24, <1>25 DEF DioInv

\* A check of path p, none of whose reads is on its way, that does not start one.
LEMMA SettleStep ==
  ASSUME DioInv, NEW p \in DioContexts,
         \A h \in AioGroups : ~Owned(h, dio_ct[p].req),
         req_state' \in {req_state, [req_state EXCEPT ![dio_ct[p].req] = "pending"]},
         dio_ct' = [dio_ct EXCEPT ![p].running = 0],
         UNCHANGED <<aio_grp_list, holders, orphans, inflight, completed, cls_refcount>>
  PROVE  DioInv'
<1> DEFINE q == dio_ct[p].req
<1>1. DioTypes /\ p \in DioPaths /\ q \in AsyncReqs
  BY ContextOf DEF DioInv
<1>2. /\ dio_ct' \in [DioPaths -> Context \cup {NoDioContext}]
      /\ DioContexts' = DioContexts
      /\ \A o \in DioContexts : /\ dio_ct'[o].grp = dio_ct[o].grp
                               /\ dio_ct'[o].req = dio_ct[o].req
                               /\ o # p => dio_ct'[o] = dio_ct[o]
      /\ \A h : Users(h)' = Users(h)
  BY <1>1, SetRunning, RunsFacts
<1>3. ListedGroups' = ListedGroups
  BY DEF ListedGroups
<1>4. /\ req_state' \in [AsyncReqs -> Used \cup {"removed", "freed"}]
      /\ \A r \in AsyncReqs : r # q => req_state'[r] = req_state[r]
      /\ req_state[q] \in Used => req_state'[q] \in Used
  BY <1>1 DEF DioTypes, Used
<1>5. \A g \in AioGroups : q \notin orphans[g]
  BY OwnRequest
<1>6. DioTypes'
  BY <1>1, <1>2, <1>4 DEF DioTypes
<1>7. ListSound'
  BY DEF DioInv, ListSound
<1>8. ContextsSound'
  <2>1. ASSUME NEW o \in DioContexts
        PROVE  dio_ct[o].grp \in ListedGroups /\ req_state'[dio_ct[o].req] \in Used
    <3>1. dio_ct[o].req \in AsyncReqs
      BY <1>1, ContextOf
    <3> QED
      BY <1>4, <3>1 DEF DioInv, ContextsSound
  <2> QED
    BY <1>2, <1>3, <2>1 DEF DioInv, ContextsSound
<1>9. OrphansSound'
  <2>1. ASSUME NEW g \in AioGroups, NEW r \in orphans[g] PROVE req_state'[r] = "removed"
    <3>1. r \in AsyncReqs /\ r # q
      BY <1>1, <1>5 DEF DioTypes
    <3> QED
      BY <1>4, <3>1 DEF DioInv, OrphansSound
  <2> QED
    BY <1>3, <2>1 DEF DioInv, OrphansSound
<1>10. ASSUME NEW g \in AioGroups, NEW r \in AsyncReqs, Owned(g, r) PROVE Owned(g, r)'
  <2>1. r # q
    BY <1>10
  <2>2. CASE r \in orphans[g]
    BY <1>3, <1>10, <2>2 DEF Owned
  <2>3. CASE \E o \in DioContexts : /\ dio_ct[o].req = r /\ dio_ct[o].grp = g
                                   /\ dio_ct[o].running > 0 /\ req_state[r] = "pending"
    <3>1. PICK o \in DioContexts : /\ dio_ct[o].req = r /\ dio_ct[o].grp = g
                                  /\ dio_ct[o].running > 0 /\ req_state[r] = "pending"
      BY <2>3
    <3>2. o # p /\ dio_ct'[o] = dio_ct[o] /\ req_state'[r] = "pending"
      BY <1>2, <1>4, <2>1, <3>1
    <3> QED
      BY <1>2, <1>3, <1>10, <3>1, <3>2 DEF Owned
  <2> QED
    BY <1>10, <2>2, <2>3 DEF Owned
<1>11. ReadsSound'
  BY <1>10 DEF DioInv, ReadsSound
<1>12. PlacesSound' /\ RefsSound'
  BY <1>2 DEF DioInv, PlacesSound, RefsSound
<1> QED
  BY <1>6, <1>7, <1>8, <1>9, <1>11, <1>12 DEF DioInv

\* The result was read by the check of another path.
LEMMA CheckKnownStep ==
  ASSUME DioInv, NEW p \in DioPaths, CheckKnown(p)
  PROVE  DioInv'
<1>1. /\ dio_ct[p].running > 0 /\ req_state[dio_ct[p].req] # "pending"
      /\ dio_ct' = [dio_ct EXCEPT ![p].running = 0]
      /\ UNCHANGED <<aio_vars, cls_refcount>>
  BY DEF CheckKnown
<1>2. p \in DioContexts
  BY <1>1 DEF DioContexts, NoDioContext
<1>3. \A h \in AioGroups : ~Owned(h, dio_ct[p].req)
  BY <1>1, <1>2, OwnRequest
<1> QED
  BY <1>1, <1>2, <1>3, SettleStep DEF aio_vars

\* A read that is not started.
LEMMA CheckSubmitFailsStep ==
  ASSUME DioInv, NEW p \in DioPaths, CheckSubmitFails(p)
  PROVE  DioInv'
<1>1. /\ dio_ct[p] # NoDioContext /\ dio_ct[p].running = 0
      /\ req_state' = [req_state EXCEPT ![dio_ct[p].req] = "pending"]
      /\ UNCHANGED <<aio_grp_list, holders, orphans, dio_ct, inflight, completed, cls_refcount>>
  BY DEF CheckSubmitFails
<1>2. p \in DioContexts
  BY <1>1 DEF DioContexts
<1>3. \A h \in AioGroups : ~Owned(h, dio_ct[p].req)
  BY <1>1, <1>2, OwnRequest
<1>4. dio_ct = [dio_ct EXCEPT ![p].running = 0]
  <2>1. dio_ct[p] \in Context /\ dio_ct \in [DioPaths -> Context \cup {NoDioContext}]
    BY <1>2, ContextOf DEF DioInv, DioTypes
  <2>2. dio_ct[p] = [dio_ct[p] EXCEPT !.running = 0]
    BY <1>1, <2>1 DEF Context
  <2>3. dio_ct = [dio_ct EXCEPT ![p] = dio_ct[p]]
    BY <2>1
  <2> QED
    BY <2>2, <2>3
<1> QED
  BY <1>1, <1>2, <1>3, <1>4, SettleStep

\* A check that waits for events.
LEMMA CheckWaitsStep ==
  ASSUME DioInv, NEW p \in DioPaths, NEW sync \in BOOLEAN, CheckWaits(p, sync)
  PROVE  DioInv'
<1> DEFINE me == <<dio_ct[p].grp, dio_ct[p].req>>
<1> DEFINE sub == IF dio_ct[p].running = 0 THEN inflight \cup {me} ELSE inflight
<1> DEFINE run == Least(dio_ct[p].running + 1, DioTimeout + 1)
<1> DEFINE state == [req_state EXCEPT ![dio_ct[p].req] = "pending"]
<1> DEFINE Mine(done) == {e \in completed \cup done : e[2] = dio_ct[p].req}
<1>1. /\ p \in DioContexts /\ (dio_ct[p].running > 0 => req_state[dio_ct[p].req] = "pending")
      /\ UNCHANGED <<aio_grp_list, cls_refcount>>
  BY DEF CheckWaits, DioContexts
<1>2. PICK ended \in SUBSET {i \in sub : i[1] = dio_ct[p].grp} : \E ok \in SUBSET ended :
        LET done == {<<i[1], i[2], i \in ok>> : i \in ended}
        IN  IF Mine(done) # {}
            THEN /\ get_events(dio_ct[p].grp, state, sub, done)
                 /\ dio_ct' = [dio_ct EXCEPT ![p].running = 0]
            ELSE \/ /\ get_events(dio_ct[p].grp, state, sub, done)
                    /\ dio_ct' = [dio_ct EXCEPT ![p].running = run]
                 \/ \E aborted \in BOOLEAN :
                      /\ get_events(dio_ct[p].grp, state, IF aborted THEN sub \ {me} ELSE sub, done)
                      /\ dio_ct' = [dio_ct EXCEPT ![p].running = IF aborted THEN 0 ELSE run]
  BY ZenonT(60) DEF CheckWaits
<1>3. PICK ok \in SUBSET ended :
        LET done == {<<i[1], i[2], i \in ok>> : i \in ended}
        IN  IF Mine(done) # {}
            THEN /\ get_events(dio_ct[p].grp, state, sub, done)
                 /\ dio_ct' = [dio_ct EXCEPT ![p].running = 0]
            ELSE \/ /\ get_events(dio_ct[p].grp, state, sub, done)
                    /\ dio_ct' = [dio_ct EXCEPT ![p].running = run]
                 \/ \E aborted \in BOOLEAN :
                      /\ get_events(dio_ct[p].grp, state, IF aborted THEN sub \ {me} ELSE sub, done)
                      /\ dio_ct' = [dio_ct EXCEPT ![p].running = IF aborted THEN 0 ELSE run]
  BY <1>2
<1> DEFINE done == {<<i[1], i[2], i \in ok>> : i \in ended}
<1>4. dio_ct[p].running \in Nat /\ run \in Runs /\ run > 0
  BY <1>1, ContextOf, DioConstants DEF DioInv, Runs, Least
<1>5. /\ sub \subseteq inflight \cup {me}
      /\ dio_ct[p].running > 0 => sub \subseteq inflight
  BY <1>4
<1>6. ASSUME NEW e \in done
      PROVE  \E r \in AsyncReqs, ok2 \in BOOLEAN :
               e = <<dio_ct[p].grp, r, ok2>> /\ <<dio_ct[p].grp, r>> \in inflight \cup {me}
  <2>1. PICK i \in ended : e = <<i[1], i[2], i \in ok>>
    BY <1>6
  <2>2. i \in inflight \cup {me} /\ i[1] = dio_ct[p].grp
    BY <1>2, <1>5
  <2>3. i = <<i[1], i[2]>> /\ i[2] \in AsyncReqs
    BY <1>1, <2>2, ContextOf DEF DioInv, DioTypes
  <2>4. \E b \in BOOLEAN : b = (i \in ok)
    <3>1. CASE i \in ok
      <4>1. (i \in ok) = TRUE
        BY <3>1, Zenon
      <4> QED
        BY <4>1, Zenon
    <3>2. CASE i \notin ok
      <4>1. (i \in ok) = FALSE
        BY <3>2
      <4> QED
        BY <4>1, Zenon
    <3> QED
      BY <3>1, <3>2
  <2>5. PICK ended_ok \in BOOLEAN : ended_ok = (i \in ok)
    BY <2>4, Zenon
  <2>6. e = <<dio_ct[p].grp, i[2], ended_ok>> /\ <<dio_ct[p].grp, i[2]>> \in inflight \cup {me}
    <3>1. e = <<i[1], i[2], ended_ok>>
      BY <2>1, <2>5, Zenon
    <3> QED
      BY <2>2, <2>3, <3>1
  <2> QED
    BY <2>3, <2>6
<1>7. PICK n \in Runs, left \in SUBSET sub :
        /\ n > 0 \/ me \notin left \/ Mine(done) # {}
        /\ get_events(dio_ct[p].grp, state, left, done)
        /\ dio_ct' = [dio_ct EXCEPT ![p].running = n]
  <2>1. CASE Mine(done) # {}
    BY <1>3, <2>1, RunsFacts
  <2>2. CASE Mine(done) = {}
    <3>1. sub \in SUBSET sub /\ sub \ {me} \in SUBSET sub /\ me \notin sub \ {me}
      OBVIOUS
    <3>2. \/ /\ get_events(dio_ct[p].grp, state, sub, done)
             /\ dio_ct' = [dio_ct EXCEPT ![p].running = run]
          \/ /\ get_events(dio_ct[p].grp, state, sub \ {me}, done)
             /\ dio_ct' = [dio_ct EXCEPT ![p].running = 0]
      BY <1>3, <2>2
    <3> HIDE DEF sub
    <3> QED
      BY <1>4, <3>1, <3>2, RunsFacts
  <2> QED
    BY <2>1, <2>2
<1>8. Mine(done) # {} => \E e \in completed \cup done : e[2] = dio_ct[p].req
  OBVIOUS
<1> HIDE DEF done, sub
<1> QED
  BY ZenonT(60), <1>1, <1>5, <1>6, <1>7, <1>8, WaitStep

(***************************************************************************)
(* A path leaves                                                           *)
(***************************************************************************)

\* What remains when path p has lost its context and its reference.
LEMMA Leaves ==
  ASSUME DioInv, NEW p \in DioContexts, NEW g, g = dio_ct[p].grp,
         dio_ct' = [dio_ct EXCEPT ![p] = NoDioContext],
         cls_refcount' = cls_refcount - 1
  PROVE  /\ dio_ct' \in [DioPaths -> Context \cup {NoDioContext}]
         /\ DioContexts' = DioContexts \ {p}
         /\ \A o \in DioContexts : o # p => dio_ct'[o] = dio_ct[o]
         /\ \A h : h # g => Users(h)' = Users(h)
         /\ Users(g)' = Users(g) \ {p}
         /\ Cardinality(Users(g)) \in Nat \ {0}
         /\ Cardinality(Users(g)') = Cardinality(Users(g)) - 1
         /\ cls_refcount' \in Nat /\ RefsSound'
<1>1. DioTypes /\ p \in DioPaths
  BY ContextOf DEF DioInv
<1>2. /\ dio_ct' \in [DioPaths -> Context \cup {NoDioContext}]
      /\ dio_ct'[p] = NoDioContext /\ \A o \in DioPaths : o # p => dio_ct'[o] = dio_ct[o]
  BY <1>1 DEF DioTypes
<1>3. DioContexts' = DioContexts \ {p}
  BY <1>1, <1>2 DEF DioContexts
<1>4. \A o \in DioContexts : o # p => dio_ct'[o] = dio_ct[o]
  BY <1>2 DEF DioContexts
<1>5. \A h : h # g => Users(h)' = Users(h)
  BY <1>3, <1>4 DEF Users
<1>6. Users(g)' = Users(g) \ {p}
  BY <1>3, <1>4 DEF Users
<1>7. p \in Users(g)
  BY DEF Users
<1>8. /\ Cardinality(Users(g)) \in Nat \ {0}
      /\ Cardinality(Users(g)') = Cardinality(Users(g)) - 1
  <2>1. IsFiniteSet(Users(g)) /\ Cardinality(Users(g)) \in Nat
    BY <1>1, Finite
  <2>2. Cardinality(Users(g)) # 0
    BY <1>7, <2>1, FS_EmptySet
  <2>3. Cardinality(Users(g) \ {p}) = Cardinality(Users(g)) - 1
    BY <1>7, <2>1, FS_RemoveElement
  <2> QED
    BY <1>6, <2>1, <2>2, <2>3
<1>9. cls_refcount' \in Nat /\ RefsSound'
  <2>1. /\ Cardinality(DioContexts) \in Nat /\ cls_refcount \in Nat
        /\ cls_refcount >= 1 + Cardinality(DioContexts)
    BY <1>1, Finite DEF DioInv, DioTypes, RefsSound
  <2>2. Cardinality(DioContexts') = Cardinality(DioContexts) - 1
    BY <1>1, <1>3, Finite, FS_RemoveElement
  <2> QED
    BY <2>1, <2>2 DEF RefsSound
<1> QED
  BY <1>2, <1>3, <1>4, <1>5, <1>6, <1>8, <1>9

\* The read of p ended or was aborted: its request is freed.
LEMMA FreeStep ==
  ASSUME DioInv, NEW p \in DioContexts,
         \/ dio_ct[p].running = 0 \/ req_state[dio_ct[p].req] # "pending"
         \/ <<dio_ct[p].grp, dio_ct[p].req>> \in inflight,
         inflight' = inflight \ {<<dio_ct[p].grp, dio_ct[p].req>>},
         req_state' = [req_state EXCEPT ![dio_ct[p].req] = "freed"],
         holders' = [holders EXCEPT ![dio_ct[p].grp] = @ - 1],
         UNCHANGED <<aio_grp_list, orphans, completed>>,
         dio_ct' = [dio_ct EXCEPT ![p] = NoDioContext],
         cls_refcount' = cls_refcount - 1
  PROVE  DioInv'
<1>0. PICK g, q : g = dio_ct[p].grp /\ q = dio_ct[p].req
  OBVIOUS
<1>1. DioTypes /\ p \in DioPaths /\ g \in AioGroups /\ q \in AsyncReqs
  BY <1>0, ContextOf DEF DioInv
<1>2. /\ dio_ct' \in [DioPaths -> Context \cup {NoDioContext}]
      /\ DioContexts' = DioContexts \ {p}
      /\ \A o \in DioContexts : o # p => dio_ct'[o] = dio_ct[o]
      /\ \A h : h # g => Users(h)' = Users(h)
      /\ Cardinality(Users(g)) \in Nat \ {0}
      /\ Cardinality(Users(g)') = Cardinality(Users(g)) - 1
      /\ cls_refcount' \in Nat /\ RefsSound'
  BY <1>0, Leaves
<1>3. ListedGroups' = ListedGroups
  BY DEF ListedGroups
<1>4. /\ req_state' \in [AsyncReqs -> Used \cup {"removed", "freed"}]
      /\ \A r \in AsyncReqs : r # q => req_state'[r] = req_state[r]
  BY <1>0, <1>1 DEF DioTypes
<1>5. /\ \A h \in AioGroups : q \notin orphans[h]
      /\ \A h \in AioGroups : Owned(h, q) =>
           h = g /\ dio_ct[p].running > 0 /\ req_state[q] = "pending"
  BY <1>0, OwnRequest
<1>6. /\ \A h \in AioGroups : <<h, q>> \notin inflight'
      /\ \A h \in AioGroups, ok \in BOOLEAN : <<h, q, ok>> \notin completed
  <2>1. \A h \in AioGroups : <<h, q>> \in inflight => h = g
    BY <1>0, <1>1, <1>5 DEF DioInv, ReadsSound
  <2>2. ASSUME NEW h \in AioGroups, NEW ok \in BOOLEAN, <<h, q, ok>> \in completed PROVE FALSE
    <3>1. Owned(h, q) /\ <<h, q>> \notin inflight
      BY <1>1, <2>2 DEF DioInv, ReadsSound
    <3> QED
      BY <1>0, <1>5, <3>1
  <2> QED
    BY <1>0, <2>1, <2>2
<1>7. DioTypes'
  <2>1. holders[g] - 1 \in Nat
    <3>1. holders[g] = Cardinality(Users(g)) + Cardinality(orphans[g])
      BY <1>1 DEF DioInv, PlacesSound
    <3> QED
      BY <1>1, <1>2, <3>1, Finite
  <2>2. holders' \in [AioGroups -> Nat]
    BY <1>0, <1>1, <2>1 DEF DioTypes
  <2> QED
    BY <1>1, <1>2, <1>4, <2>2 DEF DioTypes
<1>8. ListSound'
  BY DEF DioInv, ListSound
<1>9. ContextsSound'
  <2>1. ASSUME NEW o \in DioContexts, o # p
        PROVE  dio_ct[o].grp \in ListedGroups /\ req_state'[dio_ct[o].req] \in Used
    <3>1. dio_ct[o].req \in AsyncReqs /\ dio_ct[o].req # q
      BY <1>0, <1>1, <2>1, ContextOf DEF DioInv, ContextsSound
    <3> QED
      BY <1>4, <3>1 DEF DioInv, ContextsSound
  <2> QED
    BY <1>2, <1>3, <2>1 DEF DioInv, ContextsSound
<1>10. OrphansSound'
  <2>1. ASSUME NEW h \in AioGroups, NEW r \in orphans[h] PROVE req_state'[r] = "removed"
    <3>1. r \in AsyncReqs /\ r # q
      BY <1>1, <1>5 DEF DioTypes
    <3> QED
      BY <1>4, <3>1 DEF DioInv, OrphansSound
  <2> QED
    BY <1>3, <2>1 DEF DioInv, OrphansSound
<1>11. ASSUME NEW h \in AioGroups, NEW r \in AsyncReqs, r # q, Owned(h, r) PROVE Owned(h, r)'
  <2>1. CASE r \in orphans[h]
    BY <1>3, <1>11, <2>1 DEF Owned
  <2>2. CASE \E o \in DioContexts : /\ dio_ct[o].req = r /\ dio_ct[o].grp = h
                                   /\ dio_ct[o].running > 0 /\ req_state[r] = "pending"
    <3>1. PICK o \in DioContexts : /\ dio_ct[o].req = r /\ dio_ct[o].grp = h
                                  /\ dio_ct[o].running > 0 /\ req_state[r] = "pending"
      BY <2>2
    <3>2. o # p /\ dio_ct'[o] = dio_ct[o] /\ req_state'[r] = "pending"
      BY <1>2, <1>4, <1>11, <3>1
    <3> QED
      BY <1>2, <1>3, <1>11, <3>1, <3>2 DEF Owned
  <2> QED
    BY <1>11, <2>1, <2>2 DEF Owned
<1>12. ReadsSound'
  <2>1. inflight' \subseteq inflight
    OBVIOUS
  <2> QED
    BY <1>6, <1>11, <2>1 DEF DioInv, ReadsSound
<1>13. PlacesSound'
  <2>1. ASSUME NEW h \in AioGroups
        PROVE  /\ holders'[h] = Cardinality(Users(h)') + Cardinality(orphans'[h])
               /\ holders'[h] <= AIO_GROUP_SIZE
    <3>1. /\ holders[h] = Cardinality(Users(h)) + Cardinality(orphans[h])
          /\ holders[h] <= AIO_GROUP_SIZE /\ holders[h] \in Nat /\ Cardinality(orphans[h]) \in Nat
      BY <1>1, Finite DEF DioInv, PlacesSound, DioTypes
    <3>2. holders'[h] = IF h = g THEN holders[h] - 1 ELSE holders[h]
      BY <1>0, <1>1 DEF DioTypes
    <3> QED
      BY <1>2, <3>1, <3>2, DioConstants
  <2> QED
    BY <2>1 DEF PlacesSound
<1> QED
  BY <1>2, <1>7, <1>8, <1>9, <1>10, <1>12, <1>13 DEF DioInv

\* The read of p cannot be aborted: its request becomes an orphan of group g.
\* The groups gs, none or g when it is full of orphans, leave the list.
LEMMA OrphanStep ==
  ASSUME DioInv, NEW p \in DioContexts, NEW g, g = dio_ct[p].grp,
         NEW q, q = dio_ct[p].req,
         NEW orph, orph = [orphans EXCEPT ![g] = @ \cup {q}],
         NEW gs \in {{}, {g}}, gs = {g} => ~(Cardinality(orph[g]) < AIO_GROUP_SIZE),
         remove_aio_groups(gs, aio_grp_list', orph, [req_state EXCEPT ![q] = "removed"]),
         aio_grp_list' \in Seq(AioGroups), ListSound', ListedGroups' = ListedGroups \ gs,
         dio_ct[p].running > 0, req_state[q] = "pending",
         dio_ct' = [dio_ct EXCEPT ![p] = NoDioContext],
         cls_refcount' = cls_refcount - 1
  PROVE  DioInv'
<1>1. DioTypes /\ p \in DioPaths /\ g \in AioGroups /\ q \in AsyncReqs
  BY ContextOf DEF DioInv
<1>2. /\ dio_ct' \in [DioPaths -> Context \cup {NoDioContext}]
      /\ DioContexts' = DioContexts \ {p}
      /\ \A o \in DioContexts : o # p => dio_ct'[o] = dio_ct[o]
      /\ \A h : h # g => Users(h)' = Users(h)
      /\ Users(g)' = Users(g) \ {p}
      /\ Cardinality(Users(g)) \in Nat \ {0}
      /\ Cardinality(Users(g)') = Cardinality(Users(g)) - 1
      /\ cls_refcount' \in Nat /\ RefsSound'
  BY Leaves
<1>3. /\ orph \in [AioGroups -> SUBSET AsyncReqs]
      /\ orph[g] = orphans[g] \cup {q} /\ \A h \in AioGroups : h # g => orph[h] = orphans[h]
  BY <1>1 DEF DioTypes
<1>4. /\ holders' = [h \in AioGroups |-> IF h \in gs THEN 0 ELSE holders[h]]
      /\ orphans' = [h \in AioGroups |-> IF h \in gs THEN {} ELSE orph[h]]
      /\ req_state' = [r \in AsyncReqs |->
           IF \E h \in gs : r \in orph[h] THEN "freed"
           ELSE [req_state EXCEPT ![q] = "removed"][r]]
      /\ inflight' = {i \in inflight : i[1] \notin gs}
      /\ completed' = {e \in completed : e[1] \notin gs}
  BY DEF remove_aio_groups
<1>5. /\ req_state' \in [AsyncReqs -> Used \cup {"removed", "freed"}]
      /\ \A r \in AsyncReqs : (\A h \in gs : r \notin orph[h]) =>
           IF r = q THEN req_state'[r] = "removed" ELSE req_state'[r] = req_state[r]
  BY <1>1, <1>4 DEF DioTypes
<1>6. \A h \in AioGroups : q \notin orphans[h]
  BY OwnRequest
<1>7. ASSUME NEW h \in AioGroups, NEW r \in orph[h]
      PROVE  /\ r \in AsyncReqs /\ h \in ListedGroups /\ (r = q \/ req_state[r] = "removed")
             /\ \A k \in AioGroups : r \in orph[k] => k = h
  <2>1. r \in AsyncReqs
    BY <1>3, <1>7
  <2>2. CASE r = q
    <3>1. \A k \in AioGroups : r \in orph[k] => k = g
      BY <1>3, <1>6, <2>2
    <3>2. g \in ListedGroups
      BY DEF DioInv, ContextsSound
    <3> QED
      BY <1>7, <2>1, <2>2, <3>1, <3>2
  <2>3. CASE r # q
    <3>1. \A k \in AioGroups : r \in orph[k] => r \in orphans[k]
      BY <1>3, <2>3
    <3> QED
      BY <1>7, <2>1, <3>1 DEF DioInv, OrphansSound
  <2> QED
    BY <2>2, <2>3
\* A group that leaves has no other user.
<1>8. \A h \in gs : h = g /\ Users(h)' = {}
  <2>1. ASSUME gs = {g} PROVE Users(g)' = {}
    <3>1. /\ holders[g] = Cardinality(Users(g)) + Cardinality(orphans[g])
          /\ holders[g] <= AIO_GROUP_SIZE
      BY <1>1 DEF DioInv, PlacesSound
    <3>2. /\ IsFiniteSet(Users(g)) /\ IsFiniteSet(orphans[g]) /\ Cardinality(orphans[g]) \in Nat
      BY <1>1, Finite
    <3>3. Cardinality(orph[g]) = Cardinality(orphans[g]) + 1
      BY <1>1, <1>3, <1>6, <3>2, FS_AddElement
    <3>4. Cardinality(Users(g)) = 1
      BY <1>2, <2>1, <3>1, <3>2, <3>3, DioConstants
    <3>5. Cardinality(Users(g)') = 0
      BY <1>2, <3>4
    <3>6. IsFiniteSet(Users(g) \ {p})
      BY <3>2, FS_RemoveElement
    <3> QED
      BY <1>2, <3>5, <3>6, FS_EmptySet
  <2> QED
    BY <2>1
\* The request of a path that stays.
<1>9. ASSUME NEW o \in DioContexts, o # p
      PROVE  /\ dio_ct[o].grp \in AioGroups /\ dio_ct[o].grp \notin gs
             /\ dio_ct[o].req \in AsyncReqs /\ dio_ct[o].req # q
             /\ req_state'[dio_ct[o].req] = req_state[dio_ct[o].req]
  <2>1. /\ dio_ct[o].grp \in AioGroups /\ dio_ct[o].req \in AsyncReqs
        /\ dio_ct[o].req # q
    BY <1>1, <1>9, ContextOf DEF DioInv, ContextsSound
  <2>2. dio_ct[o].grp \notin gs
    <3>1. o \in Users(dio_ct[o].grp)
      BY DEF Users
    <3>2. dio_ct[o].grp = g => o \in Users(g)'
      BY <1>2, <1>9, <3>1
    <3> QED
      BY <1>8, <3>2
  <2>3. \A h \in AioGroups : dio_ct[o].req \notin orph[h]
    BY <1>3, <2>1, OwnRequest
  <2> QED
    BY <1>1, <1>5, <2>1, <2>2, <2>3
<1>10. \A h \in gs : h \in AioGroups
  BY <1>1
<1>11. \A h \in AioGroups : orphans'[h] = IF h \in gs THEN {} ELSE orph[h]
  BY <1>4
<1>12. DioTypes'
  <2>1. orphans' \in [AioGroups -> SUBSET AsyncReqs]
    BY <1>3, <1>4
  <2>2. holders' \in [AioGroups -> Nat]
    BY <1>1, <1>4 DEF DioTypes
  <2>3. inflight' \subseteq inflight /\ completed' \subseteq completed
    BY <1>4
  <2> QED
    BY <1>1, <1>2, <1>5, <2>1, <2>2, <2>3 DEF DioTypes
<1>13. ContextsSound'
  <2>1. ASSUME NEW o \in DioContexts, o # p
        PROVE  dio_ct[o].grp \in ListedGroups' /\ req_state'[dio_ct[o].req] \in Used
    BY <1>9, <2>1 DEF DioInv, ContextsSound
  <2> QED
    BY <1>2, <2>1 DEF DioInv, ContextsSound
<1>14. OrphansSound'
  <2>1. ASSUME NEW h \in AioGroups, NEW r \in orphans'[h]
        PROVE  /\ h \in ListedGroups' /\ req_state'[r] = "removed"
               /\ \A k \in AioGroups : r \in orphans'[k] => k = h
    <3>1. h \notin gs /\ r \in orph[h]
      BY <1>11, <2>1
    <3>2. /\ r \in AsyncReqs /\ h \in ListedGroups /\ (r = q \/ req_state[r] = "removed")
          /\ \A k \in AioGroups : r \in orph[k] => k = h
      BY <1>7, <3>1
    <3>3. \A k \in gs : r \notin orph[k]
      BY <1>10, <3>1, <3>2
    <3>4. req_state'[r] = "removed"
      BY <1>5, <3>2, <3>3
    <3> QED
      BY <1>11, <3>1, <3>2, <3>4
  <2> QED
    BY <2>1 DEF OrphansSound
<1>15. ASSUME NEW h \in AioGroups, NEW r \in AsyncReqs, h \notin gs, Owned(h, r)
       PROVE  Owned(h, r)'
  <2>1. h \in ListedGroups'
    BY <1>15 DEF Owned
  <2>2. CASE r \in orphans[h]
    BY <1>3, <1>11, <1>15, <2>1, <2>2 DEF Owned
  <2>3. CASE \E o \in DioContexts : /\ dio_ct[o].req = r /\ dio_ct[o].grp = h
                                   /\ dio_ct[o].running > 0 /\ req_state[r] = "pending"
    <3>1. PICK o \in DioContexts : /\ dio_ct[o].req = r /\ dio_ct[o].grp = h
                                  /\ dio_ct[o].running > 0 /\ req_state[r] = "pending"
      BY <2>3
    <3>2. CASE o = p
      BY <1>3, <1>11, <1>15, <2>1, <3>1, <3>2 DEF Owned
    <3>3. CASE o # p
      <4>1. dio_ct'[o] = dio_ct[o] /\ o \in DioContexts' /\ req_state'[r] = "pending"
        BY <1>2, <1>9, <3>1, <3>3
      <4> QED
        BY <2>1, <3>1, <4>1 DEF Owned
    <3> QED
      BY <3>2, <3>3
  <2> QED
    BY <1>15, <2>2, <2>3 DEF Owned
<1>16. ReadsSound'
  <2>1. /\ \A h \in AioGroups, r \in AsyncReqs : <<h, r>> \in inflight' =>
             <<h, r>> \in inflight /\ h \notin gs
        /\ \A h \in AioGroups, r \in AsyncReqs, ok \in BOOLEAN : <<h, r, ok>> \in completed' =>
             <<h, r, ok>> \in completed /\ h \notin gs
    BY <1>4
  <2> QED
    BY <1>15, <2>1 DEF DioInv, ReadsSound
<1>17. PlacesSound'
  <2>1. ASSUME NEW h \in AioGroups
        PROVE  /\ holders'[h] = Cardinality(Users(h)') + Cardinality(orphans'[h])
               /\ holders'[h] <= AIO_GROUP_SIZE
    <3>1. /\ holders[h] = Cardinality(Users(h)) + Cardinality(orphans[h])
          /\ holders[h] <= AIO_GROUP_SIZE /\ IsFiniteSet(orphans[h])
          /\ Cardinality(orphans[h]) \in Nat
      BY <1>1, Finite DEF DioInv, PlacesSound
    <3>2. CASE h \in gs
      <4>1. holders'[h] = 0 /\ orphans'[h] = {} /\ Users(h)' = {}
        BY <1>4, <1>8, <3>2
      <4> QED
        BY <4>1, FS_EmptySet, DioConstants
    <3>3. CASE h \notin gs /\ h = g
      <4>1. holders'[h] = holders[h] /\ orphans'[h] = orphans[h] \cup {q}
        BY <1>3, <1>4, <3>3
      <4>2. Cardinality(orphans[h] \cup {q}) = Cardinality(orphans[h]) + 1
        <5>1. q \notin orphans[h]
          BY <1>6
        <5> QED
          BY <3>1, <5>1, FS_AddElement
      <4>3. /\ Cardinality(Users(h)) \in Nat
            /\ Cardinality(Users(h)') = Cardinality(Users(h)) - 1
        BY <1>2, <3>3
      <4> QED
        BY <3>1, <4>1, <4>2, <4>3
    <3>4. CASE h \notin gs /\ h # g
      BY <1>2, <1>3, <1>4, <3>1, <3>4
    <3> QED
      BY <3>2, <3>3, <3>4
  <2> QED
    BY <2>1 DEF PlacesSound
<1> QED
  BY <1>2, <1>12, <1>13, <1>14, <1>16, <1>17 DEF DioInv

\* libcheck_free() of a path.
LEMMA DioFreeStep ==
  ASSUME DioInv, NEW p \in DioPaths, DioFree(p)
  PROVE  DioInv'
<1>0. PICK g, q : g = dio_ct[p].grp /\ q = dio_ct[p].req
  OBVIOUS
<1>1. /\ p \in DioContexts /\ dio_ct' = [dio_ct EXCEPT ![p] = NoDioContext]
      /\ cls_refcount' = cls_refcount - 1
  BY DEF DioFree, DioContexts
<1> DEFINE orph == [orphans EXCEPT ![g] = @ \cup {q}]
<1> DEFINE state == [req_state EXCEPT ![q] = "removed"]
<1>2. \/ /\ \/ dio_ct[p].running = 0 \/ req_state[q] # "pending"
            \/ <<g, q>> \in inflight
         /\ inflight' = inflight \ {<<g, q>>}
         /\ req_state' = [req_state EXCEPT ![q] = "freed"]
         /\ holders' = [holders EXCEPT ![g] = @ - 1]
         /\ UNCHANGED <<aio_grp_list, orphans, completed>>
      \/ /\ dio_ct[p].running > 0 /\ req_state[q] = "pending"
         /\ \/ remove_aio_groups({}, aio_grp_list, orph, state)
            \/ /\ ~(Cardinality(orph[g]) < AIO_GROUP_SIZE)
               /\ \E i \in DOMAIN aio_grp_list :
                    /\ aio_grp_list[i] = g
                    /\ remove_aio_groups({g}, RemoveAt(aio_grp_list, i), orph, state)
  BY <1>0 DEF DioFree
<1>3. CASE /\ \/ dio_ct[p].running = 0 \/ req_state[q] # "pending"
              \/ <<g, q>> \in inflight
           /\ inflight' = inflight \ {<<g, q>>}
           /\ req_state' = [req_state EXCEPT ![q] = "freed"]
           /\ holders' = [holders EXCEPT ![g] = @ - 1]
           /\ UNCHANGED <<aio_grp_list, orphans, completed>>
  BY <1>0, <1>1, <1>3, FreeStep
<1>4. PICK o : o = orph
  OBVIOUS
<1> HIDE DEF orph
<1>5. CASE /\ dio_ct[p].running > 0 /\ req_state[q] = "pending"
           /\ remove_aio_groups({}, aio_grp_list, orph, state)
  <2>1. aio_grp_list' = aio_grp_list
    BY <1>5 DEF remove_aio_groups
  <2>2. /\ aio_grp_list' \in Seq(AioGroups) /\ ListSound' /\ ListedGroups' = ListedGroups \ {}
        /\ {} # {g}
    BY <2>1 DEF DioInv, DioTypes, ListSound, ListedGroups
  <2>3. remove_aio_groups({}, aio_grp_list', o, state)
    BY <1>4, <1>5, <2>1
  <2> QED
    BY <1>0, <1>1, <1>4, <1>5, <2>2, <2>3, OrphanStep DEF orph
<1>6. CASE /\ dio_ct[p].running > 0 /\ req_state[q] = "pending"
           /\ ~(Cardinality(orph[g]) < AIO_GROUP_SIZE)
           /\ \E i \in DOMAIN aio_grp_list :
                /\ aio_grp_list[i] = g
                /\ remove_aio_groups({g}, RemoveAt(aio_grp_list, i), orph, state)
  <2>1. PICK i \in DOMAIN aio_grp_list :
          /\ aio_grp_list[i] = g
          /\ remove_aio_groups({g}, RemoveAt(aio_grp_list, i), orph, state)
    BY <1>6
  <2>2. aio_grp_list' = RemoveAt(aio_grp_list, i)
    BY <2>1 DEF remove_aio_groups
  <2>3. /\ aio_grp_list' \in Seq(AioGroups) /\ ListSound' /\ ListedGroups' = ListedGroups \ {g}
    BY <2>1, <2>2, Removed DEF DioInv
  <2>4. remove_aio_groups({g}, aio_grp_list', o, state)
    BY <1>4, <2>1, <2>2
  <2> QED
    BY <1>0, <1>1, <1>4, <1>6, <2>3, <2>4, OrphanStep DEF orph
<1> QED
  BY <1>2, <1>3, <1>5, <1>6

(***************************************************************************)
(* A path comes, all paths are gone, and the kernel                        *)
(***************************************************************************)

\* Nothing but the references change.
LEMMA FrameStep ==
  ASSUME DioInv, UNCHANGED <<aio_vars, dio_ct>>, cls_refcount' \in Nat,
         DioContexts = {} \/ cls_refcount' >= cls_refcount
  PROVE  DioInv'
<1>1. /\ DioContexts' = DioContexts /\ ListedGroups' = ListedGroups
      /\ \A g : Users(g)' = Users(g)
      /\ \A g, r : Owned(g, r)' = Owned(g, r)
  BY DEF DioContexts, ListedGroups, Users, Owned, aio_vars
<1>2. DioTypes'
  BY DEF DioInv, DioTypes, aio_vars
<1>3. ListSound' /\ ContextsSound' /\ OrphansSound'
  BY <1>1 DEF DioInv, ListSound, ContextsSound, OrphansSound, aio_vars
<1>4. ReadsSound' /\ PlacesSound'
  BY <1>1 DEF DioInv, ReadsSound, PlacesSound, aio_vars
<1>5. RefsSound'
  <2>1. cls_refcount \in Nat /\ Cardinality(DioContexts) \in Nat
    BY Finite DEF DioInv, DioTypes
  <2> QED
    BY <1>1, <2>1 DEF DioInv, RefsSound
<1> QED
  BY <1>2, <1>3, <1>4, <1>5 DEF DioInv

\* checker_get() counts one more reference than there are users.
LEMMA GetRefs ==
  ASSUME DioInv, checker_get
  PROVE  /\ cls_refcount' \in Nat /\ cls_refcount' >= 2 /\ cls_refcount' >= cls_refcount
         /\ cls_refcount' >= 1 + (Cardinality(DioContexts) + 1)
<1>1. cls_refcount \in Nat /\ Cardinality(DioContexts) \in Nat
  BY Finite DEF DioInv, DioTypes
<1>2. cls_refcount' = (IF cls_refcount = 0 THEN 1 ELSE cls_refcount) + 1
  BY DEF checker_get, add_checker_class
<1>3. CASE DioContexts = {}
  BY <1>1, <1>2, <1>3, FS_EmptySet
<1>4. CASE DioContexts # {}
  BY <1>1, <1>2, <1>4 DEF DioInv, RefsSound
<1> QED
  BY <1>3, <1>4

\* All paths are gone, and all groups go.
LEMMA ClearStep ==
  ASSUME DioInv, DioContexts = {}, remove_aio_groups(ListedGroups, <<>>, orphans, req_state),
         dio_ct' = dio_ct, cls_refcount' \in Nat
  PROVE  DioInv'
<1>1. DioTypes
  BY DEF DioInv
<1>2. /\ aio_grp_list' = <<>>
      /\ holders' = [g \in AioGroups |-> IF g \in ListedGroups THEN 0 ELSE holders[g]]
      /\ orphans' = [g \in AioGroups |-> IF g \in ListedGroups THEN {} ELSE orphans[g]]
      /\ req_state' = [r \in AsyncReqs |->
           IF \E g \in ListedGroups : r \in orphans[g] THEN "freed" ELSE req_state[r]]
      /\ inflight' = {i \in inflight : i[1] \notin ListedGroups}
      /\ completed' = {e \in completed : e[1] \notin ListedGroups}
  BY DEF remove_aio_groups
<1>3. DioContexts' = {} /\ ListedGroups' = {} /\ \A g : Users(g) = {} /\ Users(g)' = {}
  BY <1>2 DEF DioContexts, ListedGroups, Users
<1>4. \A g \in AioGroups : orphans'[g] = {}
  BY <1>2 DEF DioInv, OrphansSound
<1>5. \A g \in AioGroups : holders'[g] = 0
  <2>1. ASSUME NEW g \in AioGroups, g \notin ListedGroups PROVE holders[g] = 0
    <3>1. orphans[g] = {}
      BY <2>1 DEF DioInv, OrphansSound
    <3>2. holders[g] = Cardinality(Users(g)) + Cardinality(orphans[g])
      BY DEF DioInv, PlacesSound
    <3>3. Cardinality(Users(g)) = 0 /\ Cardinality(orphans[g]) = 0
      BY <1>3, <3>1, FS_EmptySet
    <3> QED
      BY <3>2, <3>3
  <2> QED
    BY <1>2, <2>1
<1>6. DioTypes'
  <2>1. req_state' \in [AsyncReqs -> Used \cup {"removed", "freed"}]
    BY <1>1, <1>2 DEF DioTypes
  <2>2. holders' \in [AioGroups -> Nat] /\ orphans' \in [AioGroups -> SUBSET AsyncReqs]
    BY <1>1, <1>2 DEF DioTypes
  <2>3. inflight' \subseteq inflight /\ completed' \subseteq completed
    BY <1>2
  <2>4. aio_grp_list' \in Seq(AioGroups)
    BY <1>2
  <2> QED
    BY <1>1, <2>1, <2>2, <2>3, <2>4 DEF DioTypes
<1>7. ListSound'
  BY <1>2 DEF ListSound
<1>8. ContextsSound' /\ OrphansSound' /\ RefsSound'
  BY <1>3, <1>4 DEF ContextsSound, OrphansSound, RefsSound
<1>9. ReadsSound'
  <2>1. ASSUME NEW g \in AioGroups, NEW r \in AsyncReqs
        PROVE  /\ <<g, r>> \notin inflight'
               /\ \A ok \in BOOLEAN : <<g, r, ok>> \notin completed'
    BY <1>2 DEF DioInv, ReadsSound, Owned
  <2> QED
    BY <2>1 DEF ReadsSound
<1>10. PlacesSound'
  <2>1. \A g \in AioGroups : Cardinality(Users(g)') = 0 /\ Cardinality(orphans'[g]) = 0
    BY <1>3, <1>4, FS_EmptySet
  <2> QED
    BY <1>5, <2>1, DioConstants DEF PlacesSound
<1> QED
  BY <1>6, <1>7, <1>8, <1>9, <1>10 DEF DioInv

\* The class gives up its own reference.
LEMMA CleanupStep ==
  ASSUME DioInv, cleanup_checkers
  PROVE  DioInv'
<1>1. /\ DioContexts = {} /\ cls_refcount > 0 /\ cls_refcount' = cls_refcount - 1
      /\ \/ remove_aio_groups(ListedGroups, <<>>, orphans, req_state)
         \/ UNCHANGED aio_vars
      /\ dio_ct' = dio_ct
  BY DEF cleanup_checkers
<1>2. cls_refcount' \in Nat
  BY <1>1 DEF DioInv, DioTypes
<1> QED
  BY <1>1, <1>2, ClearStep, FrameStep

\* The kernel ends a read.
LEMMA CompletesStep ==
  ASSUME DioInv, AioCompletes
  PROVE  DioInv'
<1>1. PICK i \in inflight, ok \in BOOLEAN :
        inflight' = inflight \ {i} /\ completed' = completed \cup {<<i[1], i[2], ok>>}
  BY DEF AioCompletes
<1>2. UNCHANGED <<aio_grp_list, holders, orphans, dio_ct, req_state, cls_refcount>>
  BY DEF AioCompletes
<1>3. PICK g \in AioGroups, r \in AsyncReqs : i = <<g, r>>
  BY DEF DioInv, DioTypes
<1>4. inflight' = inflight \ {<<g, r>>} /\ completed' = completed \cup {<<g, r, ok>>}
  BY <1>1, <1>3
<1>5. /\ DioContexts' = DioContexts /\ ListedGroups' = ListedGroups
      /\ \A h : Users(h)' = Users(h)
      /\ \A h, k : Owned(h, k)' = Owned(h, k)
  BY <1>2 DEF DioContexts, ListedGroups, Users, Owned
<1>6. DioTypes'
  <2>1. completed' \in SUBSET (AioGroups \X AsyncReqs \X BOOLEAN)
    BY <1>4 DEF DioInv, DioTypes
  <2> QED
    BY <1>2, <1>4, <2>1 DEF DioInv, DioTypes
<1>7. ListSound' /\ ContextsSound' /\ OrphansSound'
  BY <1>2, <1>5 DEF DioInv, ListSound, ContextsSound, OrphansSound
<1>8. ReadsSound'
  <2>1. Owned(g, r)
    BY <1>3 DEF DioInv, ReadsSound
  <2>2. \A h \in AioGroups, k \in AsyncReqs : <<h, k>> \in inflight' => Owned(h, k)
    BY <1>4 DEF DioInv, ReadsSound
  <2>3. ASSUME NEW h \in AioGroups, NEW k \in AsyncReqs, NEW b \in BOOLEAN,
               <<h, k, b>> \in completed'
        PROVE  Owned(h, k) /\ <<h, k>> \notin inflight'
    <3>1. CASE <<h, k, b>> \in completed
      BY <1>4, <3>1 DEF DioInv, ReadsSound
    <3>2. CASE <<h, k, b>> = <<g, r, ok>>
      BY <1>4, <2>1, <3>2
    <3> QED
      BY <1>4, <2>3, <3>1, <3>2
  <2> QED
    BY <1>5, <2>2, <2>3 DEF ReadsSound
<1>9. PlacesSound' /\ RefsSound'
  BY <1>2, <1>5 DEF DioInv, PlacesSound, RefsSound
<1> QED
  BY <1>6, <1>7, <1>8, <1>9 DEF DioInv

\* The group that add_aio_group() or set_aio_group() gives.
LEMMA GroupFacts ==
  ASSUME DioInv, NEW g \in AioGroups, set_aio_group(g, aio_grp_list')
  PROVE  /\ aio_grp_list' \in Seq(AioGroups) /\ ListSound'
         /\ ListedGroups' = ListedGroups \cup {g} /\ holders[g] < AIO_GROUP_SIZE
<1> DEFINE free == {i \in DOMAIN aio_grp_list : holders[aio_grp_list[i]] < AIO_GROUP_SIZE}
<1>1. DioTypes /\ ListSound
  BY DEF DioInv
<1>2. CASE free # {}
  <2>1. aio_grp_list' = aio_grp_list /\ \E i \in free : g = aio_grp_list[i]
    BY <1>2 DEF set_aio_group
  <2>2. g \in ListedGroups /\ holders[g] < AIO_GROUP_SIZE
    BY <2>1 DEF ListedGroups
  <2> QED
    BY <1>1, <2>1, <2>2 DEF DioTypes, ListSound, ListedGroups
<1>3. CASE free = {}
  <2>1. g \notin ListedGroups /\ aio_grp_list' = <<g>> \o aio_grp_list
    BY <1>3 DEF set_aio_group
  <2>2. holders[g] = 0
    <3>1. Users(g) = {} /\ orphans[g] = {}
      BY <2>1 DEF DioInv, ContextsSound, OrphansSound, Users
    <3>2. holders[g] = Cardinality(Users(g)) + Cardinality(orphans[g])
      BY DEF DioInv, PlacesSound
    <3> QED
      BY <3>1, <3>2, FS_EmptySet
  <2> QED
    BY <1>1, <2>1, <2>2, Prepended, DioConstants
<1> QED
  BY <1>2, <1>3

\* The checker of path p gets group g and may get request r.
LEMMA JoinStep ==
  ASSUME DioInv, NEW p \in DioPaths, dio_ct[p] = NoDioContext, checker_get,
         NEW g \in AioGroups, set_aio_group(g, aio_grp_list'),
         \/ \E r \in AsyncReqs :
              /\ req_state[r] = "freed" /\ req_state' = [req_state EXCEPT ![r] = "idle"]
              /\ dio_ct' = [dio_ct EXCEPT ![p] = [grp |-> g, req |-> r, running |-> 0]]
              /\ holders' = [holders EXCEPT ![g] = @ + 1]
         \/ UNCHANGED <<req_state, dio_ct, holders>>,
         UNCHANGED <<orphans, inflight, completed>>
  PROVE  DioInv'
<1>1. DioTypes
  BY DEF DioInv
<1>2. /\ aio_grp_list' \in Seq(AioGroups) /\ ListSound'
      /\ ListedGroups' = ListedGroups \cup {g} /\ holders[g] < AIO_GROUP_SIZE
  BY GroupFacts
<1>3. /\ cls_refcount' \in Nat /\ cls_refcount' >= 1 + (Cardinality(DioContexts) + 1)
      /\ Cardinality(DioContexts) \in Nat
  BY <1>1, GetRefs, Finite
<1>4. CASE UNCHANGED <<req_state, dio_ct, holders>>
  <2>1. /\ DioContexts' = DioContexts /\ \A h : Users(h)' = Users(h)
        /\ \A h, k : Owned(h, k) => Owned(h, k)'
    BY <1>2, <1>4 DEF DioContexts, Users, Owned
  <2>2. DioTypes'
    BY <1>1, <1>2, <1>3, <1>4 DEF DioTypes
  <2>3. ContextsSound' /\ OrphansSound'
    BY <1>2, <1>4, <2>1 DEF DioInv, ContextsSound, OrphansSound
  <2>4. ReadsSound'
    BY <2>1 DEF DioInv, ReadsSound
  <2>5. PlacesSound' /\ RefsSound'
    BY <1>3, <1>4, <2>1 DEF DioInv, PlacesSound, RefsSound
  <2> QED
    BY <1>2, <2>2, <2>3, <2>4, <2>5 DEF DioInv
<1>5. ASSUME NEW r \in AsyncReqs,
             req_state[r] = "freed", req_state' = [req_state EXCEPT ![r] = "idle"],
             dio_ct' = [dio_ct EXCEPT ![p] = [grp |-> g, req |-> r, running |-> 0]],
             holders' = [holders EXCEPT ![g] = @ + 1]
      PROVE  DioInv'
  <2>1. PICK c \in Context : /\ c = [grp |-> g, req |-> r, running |-> 0]
                            /\ c.grp = g /\ c.req = r /\ c.running = 0
    <3>1. [grp |-> g, req |-> r, running |-> 0] \in Context
      BY RunsFacts DEF Context
    <3> QED
      BY <3>1
  <2>2. dio_ct' = [dio_ct EXCEPT ![p] = c]
    BY <1>5, <2>1
  <2>3. /\ dio_ct' \in [DioPaths -> Context \cup {NoDioContext}]
        /\ dio_ct'[p] = c /\ \A o \in DioPaths : o # p => dio_ct'[o] = dio_ct[o]
    BY <1>1, <2>2 DEF DioTypes
  <2>4. /\ DioContexts' = DioContexts \cup {p} /\ p \notin DioContexts
        /\ \A o \in DioContexts : o # p /\ dio_ct'[o] = dio_ct[o]
    BY <2>1, <2>3, ContextFacts DEF DioContexts
  <2>5. /\ Users(g)' = Users(g) \cup {p} /\ p \notin Users(g)
        /\ \A h : h # g => Users(h)' = Users(h)
    BY <2>1, <2>3, <2>4 DEF Users
  <2>6. /\ req_state' \in [AsyncReqs -> Used \cup {"removed", "freed"}] /\ req_state'[r] = "idle"
        /\ \A k \in AsyncReqs : k # r => req_state'[k] = req_state[k]
    BY <1>1, <1>5 DEF DioTypes, Used
  \* Nobody has the request.
  <2>7. /\ \A o \in DioContexts : dio_ct[o].req \in AsyncReqs /\ dio_ct[o].req # r
        /\ \A h \in AioGroups : r \notin orphans[h] /\ ~Owned(h, r)
    <3>1. ASSUME NEW o \in DioContexts PROVE dio_ct[o].req \in AsyncReqs /\ dio_ct[o].req # r
      BY <1>1, <1>5, ContextOf DEF DioInv, ContextsSound, Used
    <3>2. ASSUME NEW h \in AioGroups PROVE r \notin orphans[h]
      BY <1>5 DEF DioInv, OrphansSound
    <3> QED
      BY <3>1, <3>2 DEF Owned
  <2>8. DioTypes'
    <3>1. holders' \in [AioGroups -> Nat]
      BY <1>1, <1>5 DEF DioTypes
    <3> QED
      BY <1>1, <1>2, <1>3, <2>3, <2>6, <3>1 DEF DioTypes
  <2>9. ContextsSound'
    <3>1. ASSUME NEW o \in DioContexts'
          PROVE  /\ dio_ct'[o].grp \in ListedGroups' /\ req_state'[dio_ct'[o].req] \in Used
                 /\ o # p => o \in DioContexts /\ dio_ct'[o] = dio_ct[o]
      <4>1. CASE o = p
        BY <1>2, <2>1, <2>3, <2>6, <4>1 DEF Used
      <4>2. CASE o # p
        BY <1>2, <2>4, <2>6, <2>7, <3>1, <4>2 DEF DioInv, ContextsSound
      <4> QED
        BY <4>1, <4>2
    <3>2. ASSUME NEW o \in DioContexts', NEW k \in DioContexts', dio_ct'[o].req = dio_ct'[k].req
          PROVE  o = k
      BY <2>1, <2>3, <2>7, <3>1, <3>2 DEF DioInv, ContextsSound
    <3> QED
      BY <3>1, <3>2 DEF ContextsSound
  <2>10. OrphansSound'
    <3>1. ASSUME NEW h \in AioGroups, NEW k \in orphans[h] PROVE req_state'[k] = "removed"
      <4>1. k \in AsyncReqs /\ k # r
        BY <1>1, <2>7 DEF DioTypes
      <4> QED
        BY <2>6, <4>1 DEF DioInv, OrphansSound
    <3> QED
      BY <1>2, <3>1 DEF DioInv, OrphansSound
  <2>11. ASSUME NEW h \in AioGroups, NEW k \in AsyncReqs, Owned(h, k) PROVE Owned(h, k)'
    <3>1. k # r
      BY <2>7, <2>11
    <3> QED
      BY <1>2, <2>4, <2>6, <2>11, <3>1 DEF Owned
  <2>12. ReadsSound'
    BY <2>11 DEF DioInv, ReadsSound
  <2>13. PlacesSound'
    <3>1. ASSUME NEW h \in AioGroups
          PROVE  /\ holders'[h] = Cardinality(Users(h)') + Cardinality(orphans[h])
                 /\ holders'[h] <= AIO_GROUP_SIZE
      <4>1. /\ holders[h] = Cardinality(Users(h)) + Cardinality(orphans[h])
            /\ holders[h] <= AIO_GROUP_SIZE /\ holders[h] \in Nat
            /\ IsFiniteSet(Users(h)) /\ Cardinality(Users(h)) \in Nat
            /\ Cardinality(orphans[h]) \in Nat
        BY <1>1, Finite DEF DioInv, PlacesSound, DioTypes
      <4>2. CASE h = g
        <5>1. Cardinality(Users(h) \cup {p}) = Cardinality(Users(h)) + 1
          BY <2>5, <4>1, <4>2, FS_AddElement
        <5>2. holders'[h] = holders[h] + 1 /\ Users(h)' = Users(h) \cup {p}
          BY <1>1, <1>5, <2>5, <4>2 DEF DioTypes
        <5> QED
          BY <1>2, <4>1, <4>2, <5>1, <5>2, DioConstants
      <4>3. CASE h # g
        BY <1>1, <1>5, <2>5, <4>1, <4>3 DEF DioTypes
      <4> QED
        BY <4>2, <4>3
    <3> QED
      BY <3>1 DEF PlacesSound
  <2>14. RefsSound'
    <3>1. Cardinality(DioContexts \cup {p}) = Cardinality(DioContexts) + 1
      BY <1>1, <2>4, Finite, FS_AddElement
    <3> QED
      BY <1>3, <2>4, <3>1 DEF RefsSound
  <2> QED
    BY <1>2, <2>8, <2>9, <2>10, <2>12, <2>13, <2>14 DEF DioInv
<1> QED
  BY <1>4, <1>5

(***************************************************************************)
(* The theorem                                                             *)
(***************************************************************************)

\* Nothing is there at first.
LEMMA InitInv == DioInit => DioInv
<1> SUFFICES ASSUME DioInit PROVE DioInv
  OBVIOUS
<1>1. DioContexts = {} /\ ListedGroups = {} /\ \A g : Users(g) = {}
  BY DEF DioInit, DioContexts, ListedGroups, Users
<1>2. DioTypes
  BY DEF DioInit, DioTypes, Used
<1>3. ListSound /\ ContextsSound /\ OrphansSound /\ RefsSound
  BY <1>1 DEF DioInit, ListSound, ContextsSound, OrphansSound, RefsSound
<1>4. ReadsSound
  BY DEF DioInit, ReadsSound
<1>5. PlacesSound
  <2>1. \A g \in AioGroups : holders[g] = 0 /\ orphans[g] = {}
    BY DEF DioInit
  <2>2. \A g \in AioGroups : Cardinality(Users(g)) = 0 /\ Cardinality(orphans[g]) = 0
    BY <1>1, <2>1, FS_EmptySet
  <2> QED
    BY <2>1, <2>2, DioConstants DEF PlacesSound
<1> QED
  BY <1>2, <1>3, <1>4, <1>5 DEF DioInv

\* Every step keeps the invariant.
LEMMA NextInv == DioInv /\ [DioNext]_dio_vars => DioInv'
<1> SUFFICES ASSUME DioInv, [DioNext]_dio_vars PROVE DioInv'
  OBVIOUS
<1>0. cls_refcount \in Nat
  BY DEF DioInv, DioTypes
<1>1. ASSUME NEW p \in DioPaths, libcheck_init(p) PROVE DioInv'
  <2>1. /\ dio_ct[p] = NoDioContext /\ checker_get
        /\ UNCHANGED <<orphans, inflight, completed>>
        /\ \E g \in AioGroups :
             /\ set_aio_group(g, aio_grp_list')
             /\ \/ \E r \in AsyncReqs :
                     /\ req_state[r] = "freed" /\ req_state' = [req_state EXCEPT ![r] = "idle"]
                     /\ dio_ct' = [dio_ct EXCEPT ![p] = [grp |-> g, req |-> r, running |-> 0]]
                     /\ holders' = [holders EXCEPT ![g] = @ + 1]
                \/ UNCHANGED <<req_state, dio_ct, holders>>
    BY <1>1 DEF libcheck_init
  <2> QED
    BY <2>1, JoinStep
<1>2. ASSUME NEW p \in DioPaths, libcheck_init_fails(p) PROVE DioInv'
  BY <1>2, GetRefs, FrameStep DEF libcheck_init_fails
<1>3. CASE libcheck_reset
  BY <1>0, <1>3, ClearStep DEF libcheck_reset
<1>4. CASE UNCHANGED dio_vars
  BY <1>0, <1>4, FrameStep DEF dio_vars, aio_vars
<1> QED
  BY <1>1, <1>2, <1>3, <1>4, DioFreeStep, CheckKnownStep, CheckSubmitFailsStep,
     CheckWaitsStep, CleanupStep, CompletesStep DEF DioNext

\* The invariant says what the property says.
LEMMA InvAccounted == DioInv => AioAccounted
<1> SUFFICES ASSUME DioInv PROVE AioAccounted
  OBVIOUS
<1>1. DioTypes
  BY DEF DioInv
<1>2. ASSUME NEW g \in AioGroups, NEW r \in AsyncReqs, Owned(g, r)
      PROVE  /\ g \in ListedGroups
             /\ \/ r \in orphans[g] /\ req_state[r] = "removed"
                \/ \E p \in DioContexts : /\ dio_ct[p].req = r /\ dio_ct[p].grp = g
                                         /\ dio_ct[p].running > 0 /\ req_state[r] = "pending"
  BY <1>2 DEF DioInv, OrphansSound, Owned
<1>3. ASSUME NEW k \in inflight \cup {<<e[1], e[2]>> : e \in completed}
      PROVE  \E g \in AioGroups, r \in AsyncReqs : k = <<g, r>> /\ Owned(g, r)
  <2>1. CASE k \in inflight
    <3>1. PICK g \in AioGroups, r \in AsyncReqs : k = <<g, r>>
      BY <1>1, <2>1 DEF DioTypes
    <3> QED
      BY <2>1, <3>1 DEF DioInv, ReadsSound
  <2>2. CASE k \in {<<e[1], e[2]>> : e \in completed}
    <3>1. PICK e \in completed : k = <<e[1], e[2]>>
      BY <2>2
    <3>2. PICK g \in AioGroups, r \in AsyncReqs, ok \in BOOLEAN : e = <<g, r, ok>>
      BY <1>1, <3>1, EventShape
    <3>3. Owned(g, r) /\ k = <<g, r>>
      BY <3>1, <3>2 DEF DioInv, ReadsSound
    <3> QED
      BY <3>3
  <2> QED
    BY <1>3, <2>1, <2>2
<1>4. ASSUME NEW g \in ListedGroups
      PROVE  /\ holders[g] = Cardinality({p \in DioContexts : dio_ct[p].grp = g})
                             + Cardinality(orphans[g])
             /\ holders[g] <= AIO_GROUP_SIZE
  <2>1. g \in AioGroups
    BY <1>1 DEF DioTypes, ListedGroups
  <2> QED
    BY <2>1 DEF DioInv, PlacesSound, Users
<1>5. DioContexts # {} => cls_refcount >= 2
  <2>1. /\ IsFiniteSet(DioContexts) /\ Cardinality(DioContexts) \in Nat /\ cls_refcount \in Nat
        /\ Cardinality(DioContexts) = 0 <=> DioContexts = {}
    BY <1>1, Finite, FS_EmptySet DEF DioTypes
  <2> QED
    BY <2>1 DEF DioInv, RefsSound
<1>6. \A k \in inflight \cup {<<e[1], e[2]>> : e \in completed} :
        /\ k[1] \in ListedGroups
        /\ \/ k[2] \in orphans[k[1]] /\ req_state[k[2]] = "removed"
           \/ \E p \in DioContexts : /\ dio_ct[p].req = k[2] /\ dio_ct[p].grp = k[1]
                                    /\ dio_ct[p].running > 0 /\ req_state[k[2]] = "pending"
  BY <1>2, <1>3
<1>7. \A p \in DioContexts : dio_ct[p].grp \in ListedGroups
  BY DEF DioInv, ContextsSound
<1> QED
  BY <1>4, <1>5, <1>6, <1>7 DEF AioAccounted

\* The kernel never works for a request that is gone, nor reports one nobody
\* waits for; no place of a group is lost or given out twice, and the class
\* stays loaded as long as a path uses it: libcheck_init(), check_state(),
\* libcheck_free() and libcheck_reset() in libmultipath/checkers/directio.c.
THEOREM AioAccountedTheorem == DioSpec => []AioAccounted
<1>1. DioSpec => []DioInv
  BY InitInv, NextInv, PTL DEF DioSpec
<1> QED
  BY <1>1, InvAccounted, PTL

USE TurAssumption DEF Threads, Contexts, Started, ct

(***************************************************************************)
(* TurChecker: the inductive invariant                                     *)
(***************************************************************************)
CheckerRecord ==
  [pc : {"none", "idle", "cancel", "free", "read", "swap", "start", "lock", "wait", "xchg"},
   ct : {0} \cup Contexts, old : {0} \cup Contexts, disable : BOOLEAN,
   then : {"result", "timeout", "free"}, status : Nat, down : BOOLEAN, started : 0..MaxThreads]

ContextRecord ==
  [mem : {"none", "live", "freed"}, running : BOOLEAN, holders : Nat, state : Nat,
   thread : {0} \cup Threads, late : BOOLEAN, locked : BOOLEAN]

ThreadRecord ==
  [pc : {"none", "check", "store", "xchg", "pause", "cleanup", "exit"},
   ctx : {0} \cup Contexts, canceled : BOOLEAN]

AnswerRecord == [by : Nat, for : Nat, again : BOOLEAN]

TurTypeOK ==
  /\ chk \in CheckerRecord /\ ctx \in [Contexts -> ContextRecord]
  /\ thr \in [Threads -> ThreadRecord] /\ answer \in AnswerRecord

\* A thread with context i; the checker's own hold on it
ByThread(i) == \E k \in Threads : Alive(k) /\ thr[k].ctx = i
Held(i) == i = chk.ct \/ i = chk.old

\* Threads are numbered in the order in which they are started. The checker has
\* a context while it is initialised, and a second one while it swaps them.
Places ==
  /\ \A k \in Threads : thr[k].pc = "none" <=> k > chk.started
  /\ chk.pc = "none" <=> chk.ct = 0
  /\ chk.pc = "swap" <=> chk.old # 0
  /\ chk.ct = chk.old => chk.ct = 0

\* Every context in use is live. No two threads have the same, and none has
\* the one that a thread is about to be started with.
InUse ==
  /\ \A k \in Threads : Alive(k) => thr[k].ctx \in Contexts /\ ctx[thr[k].ctx].mem = "live"
  /\ \A k, l \in Threads : Alive(k) /\ Alive(l) /\ thr[k].ctx = thr[l].ctx => k = l
  /\ chk.ct # 0 => ctx[chk.ct].mem = "live"
  /\ chk.old # 0 => ctx[chk.old].mem = "live"
  /\ chk.pc \in {"swap", "start"} => ~ByThread(chk.ct) /\ ct.thread = 0

\* holders counts the checker and the thread of a context.
HoldersCount ==
  \A i \in Contexts : ctx[i].mem = "live" =>
    \/ ctx[i].holders = 2 /\ Held(i) /\ ByThread(i)
    \/ ctx[i].holders = 1 /\ (Held(i) <=> ~ByThread(i))

\* What the checker and the thread k it waits for know of each other: who has
\* cleared the running flag, and whether the result is there.
Waits(k) ==
  /\ k = chk.started /\ answer.for < chk.started
  /\ ~thr[k].canceled
  /\ Alive(k) => thr[k].ctx = chk.ct
  /\ \A l \in Threads : Alive(l) /\ thr[l].ctx = chk.ct => l = k
  /\ \/ thr[k].pc \in {"check", "store"} /\ ct.state = Pending
     \/ thr[k].pc \in {"xchg", "pause", "cleanup", "exit"} /\ ct.state = k
  /\ ct.running => thr[k].pc \in {"check", "store", "xchg"} /\ chk.pc # "cancel"
  /\ ~ct.running => chk.pc = "cancel" \/ thr[k].pc \in {"cleanup", "exit"}
  /\ chk.pc = "cancel" => thr[k].pc \in {"check", "store", "xchg", "pause"}

WaitsForOne ==
  chk.ct # 0 =>
    /\ ct.thread # 0 => Waits(ct.thread)
    /\ ct.thread = 0 => ~ct.running
    /\ chk.pc \in {"lock", "wait", "xchg", "cancel"} => ct.thread # 0

\* A result that is about to be reported is that of the last thread and has
\* not been reported yet.
Reporting ==
  /\ answer.by = answer.for /\ answer.again = FALSE /\ answer.for <= chk.started
  /\ chk.pc = "read" =>
       /\ ct.state = chk.started /\ answer.for < chk.started
       /\ \A k \in Threads : Alive(k) /\ thr[k].ctx = chk.ct => thr[k].pc = "cleanup"
  /\ chk.pc = "xchg" => chk.status = chk.started
  /\ chk.pc = "cancel" /\ chk.then = "result" => chk.status = chk.started

TurInv == TurTypeOK /\ Places /\ InUse /\ HoldersCount /\ WaitsForOne /\ Reporting
-----------------------------------------------------------------------------
\* Nothing is allocated or started.
LEMMA TurInitInv == TurInit => TurInv
<1> SUFFICES ASSUME TurInit PROVE TurInv
  OBVIOUS
<1> USE DEF TurInit, NoContext, NewContext, Unchecked, Alive, ByThread, Held
<1>1. TurTypeOK
  <2>1. chk \in CheckerRecord BY DEF CheckerRecord
  <2>2. ctx \in [Contexts -> ContextRecord] BY DEF ContextRecord
  <2>3. thr \in [Threads -> ThreadRecord] /\ answer \in AnswerRecord
    BY DEF ThreadRecord, AnswerRecord
  <2> QED BY <2>1, <2>2, <2>3 DEF TurTypeOK
<1>2. Places BY DEF Places
<1>3. InUse /\ HoldersCount BY DEF InUse, HoldersCount
<1>4. WaitsForOne /\ Reporting BY DEF WaitsForOne, Reporting
<1> QED BY <1>1, <1>2, <1>3, <1>4 DEF TurInv

\* What the steps do to a context leaves its type.
LEMMA ContextTypes ==
  ASSUME NEW c \in ContextRecord
  PROVE  /\ NewContext \in ContextRecord
         /\ [c EXCEPT !.running = FALSE] \in ContextRecord
         /\ [c EXCEPT !.thread = 0] \in ContextRecord
         /\ [c EXCEPT !.late = TRUE] \in ContextRecord
         /\ [c EXCEPT !.locked = TRUE] \in ContextRecord
         /\ \A k \in Threads : [c EXCEPT !.state = k] \in ContextRecord
         /\ [c EXCEPT !.state = Pending, !.late = FALSE] \in ContextRecord
         /\ c.holders # 0 => Drop(c) \in ContextRecord
<1>1. NewContext \in ContextRecord BY DEF NewContext, ContextRecord, Unchecked
<1>2. /\ [c EXCEPT !.running = FALSE] \in ContextRecord
      /\ [c EXCEPT !.thread = 0] \in ContextRecord
  BY DEF ContextRecord
<1>3. /\ [c EXCEPT !.late = TRUE] \in ContextRecord
      /\ [c EXCEPT !.locked = TRUE] \in ContextRecord
  BY DEF ContextRecord
<1>4. ASSUME NEW k \in Threads PROVE [c EXCEPT !.state = k] \in ContextRecord
  BY DEF ContextRecord
<1>5. [c EXCEPT !.state = Pending, !.late = FALSE] \in ContextRecord
  <2>1. [c EXCEPT !.state = Pending] \in ContextRecord BY DEF ContextRecord, Pending
  <2> QED BY <2>1 DEF ContextRecord
<1>6. c.holders # 0 => Drop(c) \in ContextRecord
  <2>1. CASE c.holders = 1 BY <2>1 DEF Drop, NoContext, NewContext, ContextRecord, Unchecked
  <2>2. CASE c.holders \notin {0, 1} BY <2>2 DEF Drop, ContextRecord
  <2> QED BY <2>1, <2>2 DEF ContextRecord
<1> QED BY <1>1, <1>2, <1>3, <1>4, <1>5, <1>6

\* The context that a thread is started with.
LEMMA BegunIs ==
  ASSUME NEW c \in ContextRecord, NEW k \in Threads
  PROVE  LET b == Begun(c, k) IN
         /\ b \in ContextRecord
         /\ b.state = Pending /\ b.holders = c.holders + 1 /\ b.running = TRUE
         /\ b.thread = k /\ b.mem = c.mem
<1> DEFINE d == [c EXCEPT !.state = Pending, !.late = FALSE]
           e == [d EXCEPT !.holders = @ + 1]
           f == [e EXCEPT !.running = TRUE]
           g == [f EXCEPT !.thread = k]
<1>1. d \in ContextRecord /\ d.state = Pending /\ d.holders = c.holders /\ d.mem = c.mem
  BY ContextTypes DEF ContextRecord
<1> HIDE DEF d
<1>2. /\ e \in ContextRecord /\ e.holders = c.holders + 1
      /\ e.state = Pending /\ e.mem = c.mem
  BY <1>1 DEF ContextRecord
<1> HIDE DEF e
<1>3. /\ f \in ContextRecord /\ f.running = TRUE
      /\ f.holders = c.holders + 1 /\ f.state = Pending /\ f.mem = c.mem
  BY <1>2 DEF ContextRecord
<1> HIDE DEF f
<1>4. /\ g \in ContextRecord /\ g.thread = k /\ g.running = TRUE
      /\ g.holders = c.holders + 1 /\ g.state = Pending /\ g.mem = c.mem
  BY <1>3 DEF ContextRecord
<1>5. Begun(c, k) = g BY DEF Begun, d, e, f
<1> HIDE DEF g
<1> QED BY <1>4, <1>5

\* A context in use has a holder.
LEMMA HoldersPositive ==
  ASSUME TurInv
  PROVE  /\ chk.ct # 0 => ctx[chk.ct].holders # 0
         /\ chk.old # 0 => ctx[chk.old].holders # 0
         /\ \A k \in Threads : Alive(k) => ctx[thr[k].ctx].holders # 0
BY DEF TurInv, TurTypeOK, CheckerRecord, InUse, HoldersCount

\* Every step keeps the type of the checker, ...
LEMMA CheckerTypes == ASSUME TurInv, [TurNext]_tur_vars PROVE (chk \in CheckerRecord)'
<1> USE DEF TurTypeOK, TurInv, Places, CheckerRecord, Unchecked
<1>1. ASSUME NEW i \in Contexts, checker_init(i) PROVE (chk \in CheckerRecord)'
  BY <1>1 DEF checker_init, NewContext
<1>2. CASE checker_switch BY <1>2 DEF checker_switch
<1>3. CASE libcheck_free BY <1>3 DEF libcheck_free
<1>4. CASE libcheck_drop BY <1>4 DEF libcheck_drop, Drop, NoContext, NewContext, Return
<1>5. CASE check_late BY <1>5 DEF check_late, Checking
<1>6. CASE check_done BY <1>6 DEF check_done, Checking
<1>7. CASE check_read BY <1>7 DEF check_read, Report, Return
<1>8. CASE check_cancel BY <1>8 DEF check_cancel, Report, Return
<1>9. ASSUME NEW i \in Contexts, check_holders(i) PROVE (chk \in CheckerRecord)'
  <2>1. CASE ct.holders > 1
    <3> DEFINE d == [chk EXCEPT !.pc = "swap", !.ct = i]
    <3>1. d \in CheckerRecord /\ chk.ct \in {0} \cup Contexts
      OBVIOUS
    <3> HIDE DEF d
    <3>2. [d EXCEPT !.old = chk.ct] \in CheckerRecord BY <3>1
    <3> QED BY <1>9, <2>1, <3>2 DEF check_holders, d
  <2>2. CASE ~(ct.holders > 1)
    BY <1>9, <2>2 DEF check_holders
  <2> QED BY <2>1, <2>2
<1>10. CASE check_swap BY <1>10 DEF check_swap, Drop, NoContext, NewContext
<1>11. CASE check_started
  <2>1. chk.started + 1 \in 0..MaxThreads
    BY <1>11 DEF check_started
  <2>2. [chk EXCEPT !.pc = "lock"] \in CheckerRecord
    OBVIOUS
  <2> QED BY <1>11, <2>1, <2>2 DEF check_started
<1>12. CASE check_sync BY <1>12 DEF check_sync, Return
<1>13. CASE check_wait
  <2>1. ct.state \in Nat
    BY <1>13 DEF check_wait, ContextRecord
  <2>2. CASE chk' = [chk EXCEPT !.pc = "xchg", !.status = ct.state] BY <2>1, <2>2
  <2>3. CASE chk' = [chk EXCEPT !.pc = "wait"] BY <2>3
  <2>4. CASE chk' = Return("idle") BY <2>4 DEF Return
  <2> QED BY <1>13, <2>2, <2>3, <2>4 DEF check_wait
<1>14. CASE check_xchg
  <2>1. CASE chk' = [chk EXCEPT !.pc = "cancel", !.then = "result"] BY <2>1
  <2>2. CASE chk' = Return("idle") BY <2>2 DEF Return
  <2> QED BY <1>14, <2>1, <2>2 DEF check_xchg
<1>15. CASE caller_canceled BY <1>15 DEF caller_canceled
<1>16. CASE time_passes BY <1>16 DEF time_passes
<1>17. ASSUME NEW k \in Threads, tur_check(k) PROVE (chk \in CheckerRecord)'
  BY <1>17 DEF tur_check, Goto
<1>18. ASSUME NEW k \in Threads, tur_store(k) PROVE (chk \in CheckerRecord)'
  BY <1>18 DEF tur_store, Goto
<1>19. ASSUME NEW k \in Threads, tur_flag(k) PROVE (chk \in CheckerRecord)'
  BY <1>19 DEF tur_flag, Goto
<1>20. ASSUME NEW k \in Threads, tur_logs(k) PROVE (chk \in CheckerRecord)'
  BY <1>20 DEF tur_logs, Goto
<1>21. ASSUME NEW k \in Threads, tur_pause(k) PROVE (chk \in CheckerRecord)'
  BY <1>21 DEF tur_pause, Goto
<1>22. ASSUME NEW k \in Threads, tur_cleanup(k) PROVE (chk \in CheckerRecord)'
  BY <1>22 DEF tur_cleanup, Drop, NoContext, NewContext
<1>23. CASE UNCHANGED tur_vars BY <1>23 DEF tur_vars
<1> QED BY <1>1, <1>2, <1>3, <1>4, <1>5, <1>6, <1>7, <1>8, <1>9, <1>10, <1>11, <1>12,
     <1>13, <1>14, <1>15, <1>16, <1>17, <1>18, <1>19, <1>20, <1>21, <1>22, <1>23 DEF
     TurNext, checker_put, libcheck_check, check_start, tur_thread, tur_xchg

\* ... of the contexts, ...
LEMMA CtxTypes == ASSUME TurInv, [TurNext]_tur_vars PROVE (ctx \in [Contexts -> ContextRecord])'
<1> USE DEF TurTypeOK, TurInv, Places
<1>0. /\ chk.pc # "none" => chk.ct \in Contexts
      /\ chk.pc = "swap" => chk.old \in Contexts
  BY DEF CheckerRecord
<1>1. ASSUME NEW i \in Contexts, checker_init(i) PROVE (ctx \in [Contexts -> ContextRecord])'
  BY <1>1, <1>0, ContextTypes DEF checker_init, NewContext
<1>2. CASE checker_switch BY <1>2, <1>0, ContextTypes DEF checker_switch
<1>3. CASE libcheck_free BY <1>3, <1>0, ContextTypes DEF libcheck_free
<1>4. CASE libcheck_drop
  <2> DEFINE c == [ctx[chk.ct] EXCEPT !.thread = 0]
  <2>1. chk.ct \in Contexts BY <1>4, <1>0 DEF libcheck_drop
  <2>2. c \in ContextRecord BY <2>1, ContextTypes
  <2>3. c.holders # 0
    <3>1. ctx[chk.ct].holders # 0 BY <1>4, <2>1, HoldersPositive DEF libcheck_drop
    <3> QED BY <2>1, <3>1 DEF ContextRecord
  <2> HIDE DEF c
  <2>4. Drop(c) \in ContextRecord BY <2>2, <2>3, ContextTypes
  <2>5. ctx' = [ctx EXCEPT ![chk.ct] = Drop(c)]
    BY <1>4 DEF libcheck_drop, c
  <2> QED BY <2>1, <2>4, <2>5
<1>5. CASE check_late BY <1>5, <1>0, ContextTypes DEF check_late, Checking
<1>6. CASE check_done BY <1>6, <1>0, ContextTypes DEF check_done, Checking
<1>7. CASE check_read BY <1>7, <1>0, ContextTypes DEF check_read, Report, Return
<1>8. CASE check_cancel BY <1>8, <1>0, ContextTypes DEF check_cancel, Report, Return
<1>9. ASSUME NEW i \in Contexts, check_holders(i) PROVE (ctx \in [Contexts -> ContextRecord])'
  BY <1>9, <1>0, ContextTypes DEF check_holders, Checking, NewContext
<1>10. CASE check_swap
  <2>1. chk.old \in Contexts /\ ctx[chk.old].holders # 0
    BY <1>10, <1>0, HoldersPositive DEF check_swap
  <2> QED BY <1>10, <2>1, ContextTypes DEF check_swap
<1>11. CASE check_started
  <2>1. chk.ct \in Contexts BY <1>11, <1>0 DEF check_started
  <2>2. Started + 1 \in Threads BY <1>11 DEF check_started, CheckerRecord
  <2>3. ctx[chk.ct] \in ContextRecord BY <2>1
  <2> QED BY <1>11, <2>1, <2>2, <2>3, BegunIs DEF check_started
<1>12. CASE check_sync BY <1>12, <1>0, ContextTypes DEF check_sync, Return
<1>13. CASE check_wait BY <1>13, <1>0, ContextTypes DEF check_wait, Return
<1>14. CASE check_xchg
  <2>1. chk.ct \in Contexts BY <1>14, <1>0 DEF check_xchg
  <2>2. CASE ctx' = [ctx EXCEPT ![chk.ct].running = FALSE] BY <2>1, <2>2, ContextTypes
  <2>3. CASE ctx' = [ctx EXCEPT ![chk.ct].thread = 0] BY <2>1, <2>3, ContextTypes
  <2> QED BY <1>14, <2>2, <2>3 DEF check_xchg
<1>15. CASE caller_canceled BY <1>15, <1>0, ContextTypes DEF caller_canceled
<1>16. CASE time_passes BY <1>16, <1>0, ContextTypes DEF time_passes
<1>17. ASSUME NEW k \in Threads, tur_check(k) PROVE (ctx \in [Contexts -> ContextRecord])'
  BY <1>17, <1>0, ContextTypes DEF tur_check, Goto
<1>18. ASSUME NEW k \in Threads, tur_store(k) PROVE (ctx \in [Contexts -> ContextRecord])'
  BY <1>18, <1>0, ContextTypes DEF tur_store, Goto
<1>19. ASSUME NEW k \in Threads, tur_flag(k) PROVE (ctx \in [Contexts -> ContextRecord])'
  BY <1>19, <1>0, ContextTypes DEF tur_flag, Goto
<1>20. ASSUME NEW k \in Threads, tur_logs(k) PROVE (ctx \in [Contexts -> ContextRecord])'
  BY <1>20, <1>0, ContextTypes DEF tur_logs, Goto
<1>21. ASSUME NEW k \in Threads, tur_pause(k) PROVE (ctx \in [Contexts -> ContextRecord])'
  BY <1>21, <1>0, ContextTypes DEF tur_pause, Goto
<1>22. ASSUME NEW k \in Threads, tur_cleanup(k) PROVE (ctx \in [Contexts -> ContextRecord])'
  <2>1. thr[k].ctx \in Contexts /\ ctx[thr[k].ctx].holders # 0
    BY <1>22, HoldersPositive DEF tur_cleanup, InUse, Alive
  <2> QED BY <1>22, <2>1, ContextTypes DEF tur_cleanup
<1>23. CASE UNCHANGED tur_vars BY <1>23 DEF tur_vars
<1> QED BY <1>1, <1>2, <1>3, <1>4, <1>5, <1>6, <1>7, <1>8, <1>9, <1>10, <1>11, <1>12,
     <1>13, <1>14, <1>15, <1>16, <1>17, <1>18, <1>19, <1>20, <1>21, <1>22, <1>23 DEF
     TurNext, checker_put, libcheck_check, check_start, tur_thread, tur_xchg

\* ... of the threads ...
LEMMA ThreadTypes == ASSUME TurInv, [TurNext]_tur_vars PROVE (thr \in [Threads -> ThreadRecord])'
<1> USE DEF TurTypeOK, TurInv, Places, ThreadRecord, CheckerRecord
<1>1. ASSUME NEW i \in Contexts, checker_init(i) PROVE (thr \in [Threads -> ThreadRecord])'
  BY <1>1 DEF checker_init, NewContext
<1>2. CASE checker_switch BY <1>2 DEF checker_switch
<1>3. CASE libcheck_free BY <1>3 DEF libcheck_free
<1>4. CASE libcheck_drop BY <1>4 DEF libcheck_drop, Drop, NoContext, NewContext, Return
<1>5. CASE check_late BY <1>5 DEF check_late, Checking
<1>6. CASE check_done BY <1>6 DEF check_done, Checking
<1>7. CASE check_read BY <1>7 DEF check_read, Report, Return
<1>8. CASE check_cancel BY ZenonT(60), <1>8 DEF check_cancel, Report, Return
<1>9. ASSUME NEW i \in Contexts, check_holders(i) PROVE (thr \in [Threads -> ThreadRecord])'
  BY <1>9 DEF check_holders, Checking, NewContext
<1>10. CASE check_swap BY <1>10 DEF check_swap, Drop, NoContext, NewContext
<1>11. CASE check_started BY <1>11 DEF check_started
<1>12. CASE check_sync BY <1>12 DEF check_sync, Return
<1>13. CASE check_wait BY <1>13 DEF check_wait, Return
<1>14. CASE check_xchg BY <1>14 DEF check_xchg, Report, Return
<1>15. CASE caller_canceled BY <1>15 DEF caller_canceled
<1>16. CASE time_passes BY <1>16 DEF time_passes
<1>17. ASSUME NEW k \in Threads, tur_check(k) PROVE (thr \in [Threads -> ThreadRecord])'
  <2>1. CASE thr' = [thr EXCEPT ![k].pc = "cleanup"] BY <2>1
  <2>2. CASE thr' = [thr EXCEPT ![k].pc = "store"] BY <2>2
  <2> QED BY <1>17, <2>1, <2>2 DEF tur_check, Goto
<1>18. ASSUME NEW k \in Threads, tur_store(k) PROVE (thr \in [Threads -> ThreadRecord])'
  BY <1>18 DEF tur_store, Goto
<1>19. ASSUME NEW k \in Threads, tur_flag(k) PROVE (thr \in [Threads -> ThreadRecord])'
  BY <1>19 DEF tur_flag, Goto
<1>20. ASSUME NEW k \in Threads, tur_logs(k) PROVE (thr \in [Threads -> ThreadRecord])'
  BY ZenonT(60), <1>20 DEF tur_logs, Goto
<1>21. ASSUME NEW k \in Threads, tur_pause(k) PROVE (thr \in [Threads -> ThreadRecord])'
  BY ZenonT(60), <1>21 DEF tur_pause, Goto
<1>22. ASSUME NEW k \in Threads, tur_cleanup(k) PROVE (thr \in [Threads -> ThreadRecord])'
  BY <1>22 DEF tur_cleanup, Drop, NoContext, NewContext
<1>23. CASE UNCHANGED tur_vars BY <1>23 DEF tur_vars
<1> QED BY <1>1, <1>2, <1>3, <1>4, <1>5, <1>6, <1>7, <1>8, <1>9, <1>10, <1>11, <1>12,
     <1>13, <1>14, <1>15, <1>16, <1>17, <1>18, <1>19, <1>20, <1>21, <1>22, <1>23 DEF
     TurNext, checker_put, libcheck_check, check_start, tur_thread, tur_xchg

\* ... and of the answer.
LEMMA AnswerTypes == ASSUME TurInv, [TurNext]_tur_vars PROVE (answer \in AnswerRecord)'
<1> USE DEF TurTypeOK, TurInv, AnswerRecord, CheckerRecord, ContextRecord
<1>1. ASSUME NEW i \in Contexts, checker_init(i) PROVE (answer \in AnswerRecord)'
  BY <1>1 DEF checker_init, NewContext
<1>2. CASE checker_switch BY <1>2 DEF checker_switch
<1>3. CASE libcheck_free BY <1>3 DEF libcheck_free
<1>4. CASE libcheck_drop BY <1>4 DEF libcheck_drop, Drop, NoContext, NewContext, Return
<1>5. CASE check_late BY <1>5 DEF check_late, Checking
<1>6. CASE check_done BY <1>6 DEF check_done, Checking
<1>7. CASE check_read
  <2>1. chk.ct \in Contexts BY <1>7 DEF check_read, Places
  <2>2. ct.state \in Nat /\ chk.started \in Nat BY <2>1
  <2>3. Report(ct.state) \in AnswerRecord BY <2>2 DEF Report
  <2> QED BY <1>7, <2>3 DEF check_read
<1>8. CASE check_cancel BY <1>8 DEF check_cancel, Report, Return
<1>9. ASSUME NEW i \in Contexts, check_holders(i) PROVE (answer \in AnswerRecord)'
  BY <1>9 DEF check_holders, Checking, NewContext
<1>10. CASE check_swap BY <1>10 DEF check_swap, Drop, NoContext, NewContext
<1>11. CASE check_started BY <1>11 DEF check_started
<1>12. CASE check_sync BY <1>12 DEF check_sync, Return
<1>13. CASE check_wait BY <1>13 DEF check_wait, Return
<1>14. CASE check_xchg
  <2>1. Report(chk.status) \in AnswerRecord BY DEF Report
  <2> QED BY <1>14, <2>1 DEF check_xchg
<1>15. CASE caller_canceled BY <1>15 DEF caller_canceled
<1>16. CASE time_passes BY <1>16 DEF time_passes
<1>17. ASSUME NEW k \in Threads, tur_check(k) PROVE (answer \in AnswerRecord)'
  BY <1>17 DEF tur_check, Goto
<1>18. ASSUME NEW k \in Threads, tur_store(k) PROVE (answer \in AnswerRecord)'
  BY <1>18 DEF tur_store, Goto
<1>19. ASSUME NEW k \in Threads, tur_flag(k) PROVE (answer \in AnswerRecord)'
  BY <1>19 DEF tur_flag, Goto
<1>20. ASSUME NEW k \in Threads, tur_logs(k) PROVE (answer \in AnswerRecord)'
  BY <1>20 DEF tur_logs, Goto
<1>21. ASSUME NEW k \in Threads, tur_pause(k) PROVE (answer \in AnswerRecord)'
  BY <1>21 DEF tur_pause, Goto
<1>22. ASSUME NEW k \in Threads, tur_cleanup(k) PROVE (answer \in AnswerRecord)'
  BY <1>22 DEF tur_cleanup, Drop, NoContext, NewContext
<1>23. CASE UNCHANGED tur_vars BY <1>23 DEF tur_vars
<1> QED BY <1>1, <1>2, <1>3, <1>4, <1>5, <1>6, <1>7, <1>8, <1>9, <1>10, <1>11, <1>12,
     <1>13, <1>14, <1>15, <1>16, <1>17, <1>18, <1>19, <1>20, <1>21, <1>22, <1>23 DEF
     TurNext, checker_put, libcheck_check, check_start, tur_thread, tur_xchg

\* Every step keeps the types.
LEMMA TurTypes == ASSUME TurInv, [TurNext]_tur_vars PROVE TurTypeOK'
BY CheckerTypes, CtxTypes, ThreadTypes, AnswerTypes DEF TurTypeOK

\* A thread's number is the count when it was started.
LEMMA PlacesStep == ASSUME TurInv, [TurNext]_tur_vars PROVE Places'
<1> USE DEF TurInv, TurTypeOK, Places, CheckerRecord, ThreadRecord
<1>1. ASSUME NEW i \in Contexts, checker_init(i) PROVE Places'
  BY <1>1 DEF checker_init, NewContext
<1>2. CASE checker_switch BY <1>2 DEF checker_switch
<1>3. CASE libcheck_free BY <1>3 DEF libcheck_free
<1>4. CASE libcheck_drop BY <1>4 DEF libcheck_drop, Drop, NoContext, NewContext, Return
<1>5. CASE check_late BY <1>5 DEF check_late, Checking
<1>6. CASE check_done BY <1>6 DEF check_done, Checking
<1>7. CASE check_read BY <1>7 DEF check_read, Report, Return
<1>8. CASE check_cancel BY <1>8 DEF check_cancel, Report, Return
<1>9. ASSUME NEW i \in Contexts, check_holders(i) PROVE Places'
  <2>1. CASE ct.holders > 1
    <3>1. i # chk.ct /\ chk.ct # 0
      BY <1>9, <2>1 DEF check_holders, Checking, InUse
    <3>2. chk'.pc = "swap" /\ chk'.ct = i /\ chk'.old = chk.ct /\ chk'.started = chk.started
      BY <1>9, <2>1 DEF check_holders
    <3> QED BY <1>9, <3>1, <3>2 DEF check_holders
  <2>2. CASE ~(ct.holders > 1)
    BY <1>9, <2>2 DEF check_holders, Checking
  <2> QED BY <2>1, <2>2
<1>10. CASE check_swap BY <1>10 DEF check_swap, Drop, NoContext, NewContext
<1>11. CASE check_started BY <1>11 DEF check_started
<1>12. CASE check_sync BY <1>12 DEF check_sync, Return
<1>13. CASE check_wait BY <1>13 DEF check_wait, Return
<1>14. CASE check_xchg BY <1>14 DEF check_xchg, Report, Return
<1>15. CASE caller_canceled BY <1>15 DEF caller_canceled
<1>16. CASE time_passes BY <1>16 DEF time_passes
<1>17. ASSUME NEW k \in Threads, tur_check(k) PROVE Places'
  BY <1>17 DEF tur_check, Goto
<1>18. ASSUME NEW k \in Threads, tur_store(k) PROVE Places'
  BY <1>18 DEF tur_store, Goto
<1>19. ASSUME NEW k \in Threads, tur_flag(k) PROVE Places'
  BY <1>19 DEF tur_flag, Goto
<1>20. ASSUME NEW k \in Threads, tur_logs(k) PROVE Places'
  BY <1>20 DEF tur_logs, Goto
<1>21. ASSUME NEW k \in Threads, tur_pause(k) PROVE Places'
  BY <1>21 DEF tur_pause, Goto
<1>22. ASSUME NEW k \in Threads, tur_cleanup(k) PROVE Places'
  BY <1>22 DEF tur_cleanup, Drop, NoContext, NewContext
<1>23. CASE UNCHANGED tur_vars BY <1>23 DEF tur_vars
<1> QED BY <1>1, <1>2, <1>3, <1>4, <1>5, <1>6, <1>7, <1>8, <1>9, <1>10, <1>11, <1>12,
     <1>13, <1>14, <1>15, <1>16, <1>17, <1>18, <1>19, <1>20, <1>21, <1>22, <1>23 DEF
     TurNext, checker_put, libcheck_check, check_start, tur_thread, tur_xchg

\* A context that one of its holders gives up is freed, or has one holder less.
LEMMA DropIs ==
  ASSUME NEW c \in ContextRecord, c.holders # 0
  PROVE  \/ c.holders = 1 /\ Drop(c).mem = "freed"
         \/ /\ c.holders # 1 /\ Drop(c).holders = c.holders - 1
            /\ Drop(c).mem = c.mem /\ Drop(c).thread = c.thread
            /\ Drop(c).running = c.running /\ Drop(c).state = c.state
<1>1. CASE c.holders = 1 BY <1>1 DEF Drop, NoContext, NewContext
<1>2. CASE c.holders # 1 BY <1>2 DEF Drop, ContextRecord
<1> QED BY <1>1, <1>2

\* check_holders() with a context of its own that nobody else holds.
LEMMA HoldersFree ==
  ASSUME TurInv, NEW i \in Contexts, check_holders(i), ~(ct.holders > 1)
  PROVE  /\ chk.pc = "idle" /\ chk.ct \in Contexts /\ ct.thread = 0 /\ ~ByThread(chk.ct)
         /\ chk'.pc = "start" /\ chk'.ct = chk.ct /\ chk'.old = chk.old
         /\ chk'.started = chk.started
         /\ ctx' = ctx /\ thr' = thr /\ answer' = answer
<1>1. chk.pc = "idle" /\ chk.ct \in Contexts /\ ct.thread = 0
  BY DEF check_holders, Checking, TurInv, TurTypeOK, CheckerRecord, Places
<1>2. ~ByThread(chk.ct)
  <2>1. ct.mem = "live" /\ Held(chk.ct) BY <1>1 DEF TurInv, InUse, Held
  <2>2. ct.holders # 2 BY <1>1 DEF check_holders
  <2> QED BY <1>1, <2>1, <2>2 DEF TurInv, HoldersCount
<1>3. chk' = [chk EXCEPT !.pc = "start"] /\ ctx' = ctx /\ thr' = thr /\ answer' = answer
  BY DEF check_holders
<1> QED BY <1>1, <1>2, <1>3 DEF TurInv, TurTypeOK, CheckerRecord

\* check_holders() with a context that an earlier thread holds.
SwapsFor(i) ==
  /\ chk.pc = "idle" /\ chk.ct \in Contexts /\ i # chk.ct /\ ~ByThread(i) /\ chk.old = 0
  /\ chk'.pc = "swap" /\ chk'.ct = i /\ chk'.old = chk.ct /\ chk'.started = chk.started
  /\ ctx'[i] = NewContext /\ \A j \in Contexts : j # i => ctx'[j] = ctx[j]
  /\ thr' = thr /\ answer' = answer

LEMMA HoldersTaken ==
  ASSUME TurInv, NEW i \in Contexts, check_holders(i), ct.holders > 1
  PROVE  SwapsFor(i)
<1>1. chk.pc = "idle" /\ chk.ct \in Contexts /\ chk.old = 0
  BY DEF check_holders, Checking, TurInv, TurTypeOK, CheckerRecord, Places
<1>2. i # chk.ct /\ ~ByThread(i)
  BY <1>1 DEF check_holders, TurInv, InUse, ByThread
<1>3. ctx' = [ctx EXCEPT ![i] = NewContext] /\ thr' = thr /\ answer' = answer
  BY DEF check_holders
<1>4. chk' = [chk EXCEPT !.pc = "swap", !.ct = i, !.old = chk.ct]
  BY DEF check_holders
<1>5. /\ chk'.pc = "swap" /\ chk'.ct = i /\ chk'.old = chk.ct /\ chk'.started = chk.started
  BY <1>4 DEF TurInv, TurTypeOK, CheckerRecord
<1> QED BY <1>1, <1>2, <1>3, <1>5 DEF SwapsFor, TurInv, TurTypeOK

\* pthread_create() in terms of what changes.
StartedAs(n) ==
  /\ n = chk.started + 1 /\ ~Alive(n) /\ chk.ct \in Contexts /\ ~ByThread(chk.ct)
  /\ thr'[n] = [pc |-> "check", ctx |-> chk.ct, canceled |-> FALSE]
  /\ \A k \in Threads : k # n => thr'[k] = thr[k]
  /\ ctx'[chk.ct].mem = ct.mem /\ ctx'[chk.ct].holders = ct.holders + 1
  /\ ctx'[chk.ct].state = Pending /\ ctx'[chk.ct].running = TRUE
  /\ ctx'[chk.ct].thread = n
  /\ \A j \in Contexts : j # chk.ct => ctx'[j] = ctx[j]
  /\ chk'.pc = "lock" /\ chk'.ct = chk.ct /\ chk'.old = chk.old /\ chk'.started = n
  /\ answer' = answer

LEMMA StartedIs ==
  ASSUME TurInv, check_started
  PROVE  \E n \in Threads : StartedAs(n)
<1> DEFINE n == chk.started + 1
<1>1. n \in Threads /\ chk.ct \in Contexts
  BY DEF check_started, TurInv, TurTypeOK, CheckerRecord, Places
<1>2. ~Alive(n) /\ ~ByThread(chk.ct)
  BY <1>1 DEF check_started, TurInv, TurTypeOK, CheckerRecord, Places, InUse, Alive
<1>3. chk' = [chk EXCEPT !.pc = "lock", !.started = @ + 1]
  BY DEF check_started
<1>4. chk'.pc = "lock" /\ chk'.ct = chk.ct /\ chk'.old = chk.old /\ chk'.started = n
  BY <1>3 DEF TurInv, TurTypeOK, CheckerRecord
<1>5. ctx[chk.ct] \in ContextRecord BY <1>1 DEF TurInv, TurTypeOK
<1>6. ctx'[chk.ct] = Begun(ct, n) /\ \A j \in Contexts : j # chk.ct => ctx'[j] = ctx[j]
  BY <1>1 DEF check_started, TurInv, TurTypeOK
<1>7. /\ thr'[n] = [pc |-> "check", ctx |-> chk.ct, canceled |-> FALSE]
      /\ \A k \in Threads : k # n => thr'[k] = thr[k]
      /\ answer' = answer
  BY <1>1 DEF check_started, TurInv, TurTypeOK
<1> HIDE DEF n
<1>8. /\ Begun(ct, n).mem = ct.mem /\ Begun(ct, n).holders = ct.holders + 1
      /\ Begun(ct, n).state = Pending /\ Begun(ct, n).running = TRUE
      /\ Begun(ct, n).thread = n
  BY <1>1, <1>5, BegunIs
<1>9. n = chk.started + 1 BY DEF n
<1> QED BY <1>1, <1>2, <1>4, <1>6, <1>7, <1>8, <1>9 DEF StartedAs

\* The checker's exchange of the running flag in terms of what changes.
Xchanged ==
  /\ chk.pc = "xchg" /\ chk.ct \in Contexts
  /\ \A j \in Contexts : j # chk.ct => ctx'[j] = ctx[j]
  /\ ctx'[chk.ct].mem = ct.mem /\ ctx'[chk.ct].holders = ct.holders
  /\ ctx'[chk.ct].state = ct.state
  /\ chk'.ct = chk.ct /\ chk'.old = chk.old /\ chk'.started = chk.started /\ thr' = thr
  /\ \/ /\ ct.running /\ ctx'[chk.ct].running = FALSE /\ ctx'[chk.ct].thread = ct.thread
        /\ chk'.pc = "cancel" /\ chk'.status = chk.status /\ answer' = answer
     \/ /\ ~ct.running /\ ctx'[chk.ct].running = ct.running /\ ctx'[chk.ct].thread = 0
        /\ chk'.pc = "idle" /\ answer' = Report(chk.status)

LEMMA XchgIs ==
  ASSUME TurInv, check_xchg
  PROVE  Xchanged
<1>1. chk.pc = "xchg" /\ chk.ct \in Contexts
  BY DEF check_xchg, TurInv, TurTypeOK, CheckerRecord, Places
<1>2. CASE ct.running
  <2>1. /\ ctx' = [ctx EXCEPT ![chk.ct].running = FALSE] /\ thr' = thr
        /\ chk' = [chk EXCEPT !.pc = "cancel", !.then = "result"] /\ answer' = answer
    BY <1>2 DEF check_xchg
  <2> QED BY <1>1, <1>2, <2>1 DEF Xchanged, TurInv, TurTypeOK, CheckerRecord, ContextRecord
<1>3. CASE ~ct.running
  <2>1. /\ ctx' = [ctx EXCEPT ![chk.ct].thread = 0] /\ thr' = thr
        /\ chk' = Return("idle") /\ answer' = Report(chk.status)
    BY <1>3 DEF check_xchg
  <2> QED BY <1>1, <1>3, <2>1 DEF Xchanged, TurInv, TurTypeOK, CheckerRecord, ContextRecord, Return
<1> QED BY <1>2, <1>3

\* A thread stores its result.
StoredBy(k) ==
  /\ Alive(k) /\ thr[k].pc = "store" /\ thr[k].ctx \in Contexts
  /\ \A j \in Contexts : j # thr[k].ctx => ctx'[j] = ctx[j]
  /\ ctx'[thr[k].ctx].mem = ctx[thr[k].ctx].mem
  /\ ctx'[thr[k].ctx].holders = ctx[thr[k].ctx].holders
  /\ ctx'[thr[k].ctx].running = ctx[thr[k].ctx].running
  /\ ctx'[thr[k].ctx].thread = ctx[thr[k].ctx].thread
  /\ ctx'[thr[k].ctx].state = k
  /\ \A l \in Threads : l # k => thr'[l] = thr[l]
  /\ thr'[k].pc = "xchg" /\ thr'[k].ctx = thr[k].ctx /\ thr'[k].canceled = thr[k].canceled
  /\ chk' = chk /\ answer' = answer

LEMMA StoreIs ==
  ASSUME TurInv, NEW k \in Threads, tur_store(k)
  PROVE  StoredBy(k)
<1>1. Alive(k) /\ thr[k].ctx \in Contexts
  BY DEF tur_store, Alive, TurInv, InUse
<1> QED BY <1>1 DEF StoredBy, tur_store, Goto, TurInv, TurTypeOK, ContextRecord, ThreadRecord

\* A thread exchanges the running flag.
FlagTakenBy(k) ==
  /\ Alive(k) /\ thr[k].pc = "xchg" /\ thr[k].ctx \in Contexts
  /\ \A j \in Contexts : j # thr[k].ctx => ctx'[j] = ctx[j]
  /\ ctx'[thr[k].ctx].mem = ctx[thr[k].ctx].mem
  /\ ctx'[thr[k].ctx].holders = ctx[thr[k].ctx].holders
  /\ ctx'[thr[k].ctx].running = FALSE /\ ctx'[thr[k].ctx].thread = ctx[thr[k].ctx].thread
  /\ ctx'[thr[k].ctx].state = ctx[thr[k].ctx].state
  /\ \A l \in Threads : l # k => thr'[l] = thr[l]
  /\ thr'[k].pc = IF ctx[thr[k].ctx].running THEN "cleanup" ELSE "pause"
  /\ thr'[k].ctx = thr[k].ctx /\ thr'[k].canceled = thr[k].canceled
  /\ chk' = chk /\ answer' = answer

LEMMA FlagIs ==
  ASSUME TurInv, NEW k \in Threads, tur_flag(k)
  PROVE  FlagTakenBy(k)
<1>1. Alive(k) /\ thr[k].ctx \in Contexts
  BY DEF tur_flag, Alive, TurInv, InUse
<1> QED BY <1>1 DEF FlagTakenBy, tur_flag, Goto, TurInv, TurTypeOK, ContextRecord, ThreadRecord

\* A thread gives up its context.
LeftBy(k) ==
  /\ Alive(k) /\ thr[k].pc = "cleanup" /\ thr[k].ctx \in Contexts
  /\ \A j \in Contexts : j # thr[k].ctx => ctx'[j] = ctx[j]
  /\ ctx'[thr[k].ctx] = Drop(ctx[thr[k].ctx])
  /\ \A l \in Threads : l # k => thr'[l] = thr[l]
  /\ thr'[k] = [pc |-> "exit", ctx |-> 0, canceled |-> FALSE]
  /\ chk' = chk /\ answer' = answer

LEMMA CleanupIs ==
  ASSUME TurInv, NEW k \in Threads, tur_cleanup(k)
  PROVE  LeftBy(k)
<1>1. Alive(k) /\ thr[k].ctx \in Contexts
  BY DEF tur_cleanup, Alive, TurInv, InUse
<1> QED BY <1>1 DEF LeftBy, tur_cleanup, TurInv, TurTypeOK

\* If the checker goes on with that context, it finds it as it was.
KeptBy(k) ==
  chk.ct # 0 => /\ ctx'[chk.ct].thread = ctx[chk.ct].thread
                /\ ctx'[chk.ct].running = ctx[chk.ct].running
                /\ ctx'[chk.ct].state = ctx[chk.ct].state

LEMMA CleanupKeeps ==
  ASSUME TurInv, NEW k \in Threads, tur_cleanup(k)
  PROVE  KeptBy(k)
<1>1. LeftBy(k) BY CleanupIs
<1>2. CASE chk.ct # 0 /\ thr[k].ctx = chk.ct
  <2>1. ctx[chk.ct].holders = 2
    <3>1. ByThread(chk.ct) /\ Held(chk.ct) BY <1>1, <1>2 DEF LeftBy, ByThread, Held
    <3>2. ctx[chk.ct].mem = "live" BY <1>2 DEF TurInv, InUse
    <3> QED BY <1>1, <1>2, <3>1, <3>2 DEF LeftBy, TurInv, HoldersCount
  <2>2. ctx[chk.ct] \in ContextRecord
    BY <1>1, <1>2 DEF LeftBy, TurInv, TurTypeOK
  <2>3. ctx'[chk.ct] = Drop(ctx[chk.ct]) BY <1>1, <1>2 DEF LeftBy
  <2> QED BY <2>1, <2>2, <2>3, DropIs DEF KeptBy
<1>3. CASE chk.ct # 0 /\ thr[k].ctx # chk.ct
  BY <1>1, <1>3 DEF LeftBy, KeptBy, TurInv, TurTypeOK, CheckerRecord
<1> QED BY <1>2, <1>3 DEF KeptBy

\* A step that changes neither the contexts in use nor their holders ...
KeepsUse ==
  /\ \A i \in Contexts : ctx'[i].mem = ctx[i].mem /\ ctx'[i].holders = ctx[i].holders
  /\ \A k \in Threads : (Alive(k)' <=> Alive(k)) /\ thr'[k].ctx = thr[k].ctx
  /\ chk'.ct = chk.ct /\ chk'.old = chk.old
  /\ \/ chk'.pc \notin {"swap", "start"}
     \/ chk'.pc = chk.pc /\ \A i \in Contexts : ctx'[i].thread = ctx[i].thread

\* ... keeps the invariants about them.
LEMMA KeepUse ==
  ASSUME TurInv, KeepsUse
  PROVE  InUse' /\ HoldersCount'
<1>1. \A i : ByThread(i)' <=> ByThread(i) BY DEF ByThread, KeepsUse
<1>2. chk.ct \in {0} \cup Contexts /\ chk.old \in {0} \cup Contexts
  BY DEF TurInv, TurTypeOK, CheckerRecord
<1>3. InUse'
  BY <1>1, <1>2 DEF TurInv, Places, InUse, KeepsUse
<1>4. HoldersCount'
  BY <1>1 DEF TurInv, HoldersCount, Held, KeepsUse
<1> QED BY <1>3, <1>4

\* A thread that goes on without touching its context
MovedBy(k) ==
  /\ chk' = chk /\ ctx' = ctx /\ answer' = answer
  /\ thr[k].pc \in {"check", "xchg", "pause"} /\ (thr[k].pc # "check" => thr[k].canceled)
  /\ thr'[k].pc = IF thr[k].canceled THEN "cleanup" ELSE "store"
  /\ thr'[k].ctx = thr[k].ctx /\ thr'[k].canceled = thr[k].canceled
  /\ \A l \in Threads : l # k => thr'[l] = thr[l]

LEMMA MoveIs ==
  ASSUME thr \in [Threads -> ThreadRecord], NEW k \in Threads,
         tur_check(k) \/ tur_logs(k) \/ tur_pause(k)
  PROVE  MovedBy(k)
<1> DEFINE pc == IF thr[k].canceled THEN "cleanup" ELSE "store"
<1>1. /\ chk' = chk /\ ctx' = ctx /\ answer' = answer
      /\ thr[k].pc \in {"check", "xchg", "pause"} /\ (thr[k].pc # "check" => thr[k].canceled)
      /\ thr' = [thr EXCEPT ![k].pc = pc]
  BY DEF tur_check, tur_logs, tur_pause, Goto
<1> HIDE DEF pc
<1>2. /\ thr'[k].pc = pc /\ thr'[k].ctx = thr[k].ctx /\ thr'[k].canceled = thr[k].canceled
      /\ \A l \in Threads : l # k => thr'[l] = thr[l]
  BY <1>1 DEF ThreadRecord
<1> QED BY <1>1, <1>2 DEF MovedBy, pc

\* pthread_cancel() changes no holder.
LEMMA CancelKeeps ==
  ASSUME TurInv, check_cancel
  PROVE  KeepsUse
<1>1. /\ chk \in CheckerRecord /\ ctx \in [Contexts -> ContextRecord]
      /\ thr \in [Threads -> ThreadRecord]
  BY DEF TurInv, TurTypeOK
<1>2. \A i \in Contexts : ctx'[i].mem = ctx[i].mem /\ ctx'[i].holders = ctx[i].holders
  BY <1>1 DEF check_cancel, ContextRecord
<1>3. \A k \in Threads : thr'[k].pc = thr[k].pc /\ thr'[k].ctx = thr[k].ctx
  BY <1>1 DEF check_cancel, ThreadRecord
<1>4. /\ chk'.ct = chk.ct /\ chk'.old = chk.old /\ chk'.pc \in {"free", "idle"}
  <2>1. CASE chk.then = "free" BY <1>1, <2>1 DEF check_cancel, CheckerRecord
  <2>2. CASE chk.then # "free" BY <1>1, <2>2 DEF check_cancel, CheckerRecord, Return
  <2> QED BY <2>1, <2>2
<1> QED BY <1>2, <1>3, <1>4 DEF KeepsUse, Alive

\* A context is freed by the last of its holders only.
LEMMA InUseStep == ASSUME TurInv, [TurNext]_tur_vars PROVE InUse'
<1> USE DEF TurInv, TurTypeOK, Places, InUse, HoldersCount, Alive, ByThread, Held,
             CheckerRecord, ContextRecord, ThreadRecord
<1>1. ASSUME NEW i \in Contexts, checker_init(i) PROVE InUse'
  BY <1>1 DEF checker_init, NewContext
<1>2. CASE checker_switch BY <1>2 DEF checker_switch
<1>3. CASE libcheck_free BY <1>3 DEF libcheck_free
<1>4. CASE libcheck_drop BY <1>4 DEF libcheck_drop, Drop, NoContext, NewContext, Return
<1>5. CASE check_late BY <1>5 DEF check_late, Checking
<1>6. CASE check_done BY <1>6 DEF check_done, Checking
<1>7. CASE check_read BY SMTT(40), <1>7 DEF check_read, Report, Return
<1>8. CASE check_cancel
  <2> HIDE DEF InUse, HoldersCount
  <2>1. KeepsUse BY <1>8, CancelKeeps
  <2> QED BY <2>1, KeepUse
<1>9. ASSUME NEW i \in Contexts, check_holders(i) PROVE InUse'
  <2> HIDE DEF CheckerRecord, ContextRecord, ThreadRecord, TurTypeOK
  <2>1. CASE ct.holders > 1
    <3>1. NewContext.mem = "live" /\ NewContext.thread = 0
      BY DEF NewContext
    <3>2. SwapsFor(i) BY <1>9, <2>1, HoldersTaken
    <3> QED BY <3>1, <3>2 DEF SwapsFor
  <2>2. CASE ~(ct.holders > 1)
    BY <1>9, <2>2, HoldersFree
  <2> QED BY <2>1, <2>2
<1>10. CASE check_swap
  <2>1. /\ chk.old \in Contexts /\ ctx[chk.old].holders # 0 /\ ctx[chk.old] \in ContextRecord
        /\ chk.old # chk.ct
    BY <1>10, HoldersPositive DEF check_swap
  <2>2. /\ chk'.pc = "start" /\ chk'.ct = chk.ct /\ chk'.old = 0 /\ thr' = thr
        /\ ctx'[chk.old] = Drop(ctx[chk.old])
        /\ \A j \in Contexts : j # chk.old => ctx'[j] = ctx[j]
    BY <1>10, <2>1 DEF check_swap
  <2> HIDE DEF CheckerRecord, ContextRecord, ThreadRecord, TurTypeOK
  <2>3. ByThread(chk.old) => ctx'[chk.old].mem = "live"
    <3>1. ByThread(chk.old) => ctx[chk.old].mem = "live" /\ ctx[chk.old].holders = 2
      BY <2>1
    <3> HIDE DEF TurInv, ByThread
    <3> QED BY <2>1, <2>2, <3>1, DropIs
  <2> QED BY <1>10, <2>1, <2>2, <2>3 DEF check_swap
<1>11. CASE check_started
  <2> HIDE DEF CheckerRecord, ContextRecord, ThreadRecord, TurTypeOK
  <2>1. PICK n \in Threads : StartedAs(n)
    BY <1>11, StartedIs
  <2>2. \A j \in Contexts : ctx'[j].mem = ctx[j].mem
    BY <2>1 DEF StartedAs
  <2>3. ASSUME NEW k \in Threads, Alive(k)'
        PROVE  \/ k = n /\ thr'[k].ctx = chk.ct
               \/ Alive(k) /\ thr'[k].ctx = thr[k].ctx /\ thr[k].ctx # chk.ct
    <3>1. CASE k = n BY <2>1, <3>1 DEF StartedAs
    <3>2. CASE k # n BY <2>1, <2>3, <3>2 DEF StartedAs
    <3> QED BY <3>1, <3>2
  <2>4. /\ chk'.pc = "lock" /\ chk'.ct = chk.ct /\ chk'.old = chk.old /\ chk.ct \in Contexts
        /\ chk.old = 0
    BY <1>11, <2>1 DEF StartedAs, check_started
  <2> HIDE DEF Alive, ByThread
  <2> QED BY <2>2, <2>3, <2>4
<1>12. CASE check_sync BY <1>12 DEF check_sync, Return
<1>13. CASE check_wait
  <2> HIDE DEF InUse, HoldersCount
  <2>1. KeepsUse
    BY <1>13 DEF check_wait, Return, KeepsUse
  <2> QED BY <2>1, KeepUse
<1>14. CASE check_xchg
  <2> HIDE DEF CheckerRecord, ContextRecord, ThreadRecord, TurTypeOK
  <2>1. Xchanged
    BY <1>14, XchgIs
  <2>2. KeepsUse
    BY <2>1 DEF Xchanged, KeepsUse, Alive
  <2> HIDE DEF TurInv, InUse, HoldersCount
  <2> QED BY <2>2, KeepUse
<1>15. CASE caller_canceled BY <1>15 DEF caller_canceled
<1>16. CASE time_passes BY <1>16 DEF time_passes
<1>17. ASSUME NEW k \in Threads, tur_check(k) PROVE InUse'
  <2> HIDE DEF CheckerRecord, ContextRecord, ThreadRecord, TurTypeOK
  <2>1. thr \in [Threads -> ThreadRecord] BY DEF TurTypeOK
  <2>2. MovedBy(k) BY <1>17, <2>1, MoveIs
  <2>3. KeepsUse
    <3>1. \A l \in Threads : (Alive(l)' <=> Alive(l)) /\ thr'[l].ctx = thr[l].ctx
      BY <2>2 DEF MovedBy, Alive
    <3> QED BY <2>2, <3>1 DEF MovedBy, KeepsUse
  <2> HIDE DEF TurInv, InUse, HoldersCount
  <2> QED BY <2>3, KeepUse
<1>18. ASSUME NEW k \in Threads, tur_store(k) PROVE InUse'
  <2> HIDE DEF CheckerRecord, ContextRecord, ThreadRecord, TurTypeOK
  <2>1. StoredBy(k)
    BY <1>18, StoreIs
  <2>2. KeepsUse
    BY <2>1 DEF StoredBy, KeepsUse, Alive
  <2> HIDE DEF TurInv, InUse, HoldersCount
  <2> QED BY <2>2, KeepUse
<1>19. ASSUME NEW k \in Threads, tur_flag(k) PROVE InUse'
  <2> HIDE DEF CheckerRecord, ContextRecord, ThreadRecord, TurTypeOK
  <2>1. FlagTakenBy(k)
    BY <1>19, FlagIs
  <2>2. KeepsUse
    BY <2>1 DEF FlagTakenBy, KeepsUse, Alive
  <2> HIDE DEF TurInv, InUse, HoldersCount
  <2> QED BY <2>2, KeepUse
<1>20. ASSUME NEW k \in Threads, tur_logs(k) PROVE InUse'
  <2> HIDE DEF CheckerRecord, ContextRecord, ThreadRecord, TurTypeOK
  <2>1. thr \in [Threads -> ThreadRecord] BY DEF TurTypeOK
  <2>2. MovedBy(k) BY <1>20, <2>1, MoveIs
  <2>3. KeepsUse
    <3>1. \A l \in Threads : (Alive(l)' <=> Alive(l)) /\ thr'[l].ctx = thr[l].ctx
      BY <2>2 DEF MovedBy, Alive
    <3> QED BY <2>2, <3>1 DEF MovedBy, KeepsUse
  <2> HIDE DEF TurInv, InUse, HoldersCount
  <2> QED BY <2>3, KeepUse
<1>21. ASSUME NEW k \in Threads, tur_pause(k) PROVE InUse'
  <2> HIDE DEF CheckerRecord, ContextRecord, ThreadRecord, TurTypeOK
  <2>1. thr \in [Threads -> ThreadRecord] BY DEF TurTypeOK
  <2>2. MovedBy(k) BY <1>21, <2>1, MoveIs
  <2>3. KeepsUse
    <3>1. \A l \in Threads : (Alive(l)' <=> Alive(l)) /\ thr'[l].ctx = thr[l].ctx
      BY <2>2 DEF MovedBy, Alive
    <3> QED BY <2>2, <3>1 DEF MovedBy, KeepsUse
  <2> HIDE DEF TurInv, InUse, HoldersCount
  <2> QED BY <2>3, KeepUse
<1>22. ASSUME NEW k \in Threads, tur_cleanup(k) PROVE InUse'
  BY SMTT(40), <1>22 DEF tur_cleanup, Drop, NoContext, NewContext
<1>23. CASE UNCHANGED tur_vars BY <1>23 DEF tur_vars
<1> QED BY <1>1, <1>2, <1>3, <1>4, <1>5, <1>6, <1>7, <1>8, <1>9, <1>10, <1>11, <1>12,
     <1>13, <1>14, <1>15, <1>16, <1>17, <1>18, <1>19, <1>20, <1>21, <1>22, <1>23 DEF
     TurNext, checker_put, libcheck_check, check_start, tur_thread, tur_xchg

\* Every holder is counted.
LEMMA HoldersStep == ASSUME TurInv, [TurNext]_tur_vars PROVE HoldersCount'
<1> USE DEF TurInv, TurTypeOK, Places, InUse, HoldersCount, Alive, ByThread, Held,
             CheckerRecord, ContextRecord, ThreadRecord
<1>1. ASSUME NEW i \in Contexts, checker_init(i) PROVE HoldersCount'
  BY <1>1 DEF checker_init, NewContext
<1>2. CASE checker_switch BY <1>2 DEF checker_switch
<1>3. CASE libcheck_free BY <1>3 DEF libcheck_free
<1>4. CASE libcheck_drop BY <1>4 DEF libcheck_drop, Drop, NoContext, NewContext, Return
<1>5. CASE check_late BY <1>5 DEF check_late, Checking
<1>6. CASE check_done BY <1>6 DEF check_done, Checking
<1>7. CASE check_read BY <1>7 DEF check_read, Report, Return
<1>8. CASE check_cancel
  <2> HIDE DEF InUse, HoldersCount
  <2>1. KeepsUse BY <1>8, CancelKeeps
  <2> QED BY <2>1, KeepUse
<1>9. ASSUME NEW i \in Contexts, check_holders(i) PROVE HoldersCount'
  <2> HIDE DEF CheckerRecord, ContextRecord, ThreadRecord, TurTypeOK
  <2>1. CASE ct.holders > 1
    <3>1. NewContext.mem = "live" /\ NewContext.holders = 1
      BY DEF NewContext
    <3>2. SwapsFor(i) BY <1>9, <2>1, HoldersTaken
    <3> QED BY <3>1, <3>2 DEF SwapsFor
  <2>2. CASE ~(ct.holders > 1)
    BY <1>9, <2>2, HoldersFree
  <2> QED BY <2>1, <2>2
<1>10. CASE check_swap BY SMTT(40), <1>10 DEF check_swap, Drop, NoContext, NewContext
<1>11. CASE check_started
  <2> HIDE DEF CheckerRecord, ContextRecord, ThreadRecord, TurTypeOK
  <2>1. PICK n \in Threads : StartedAs(n)
    BY <1>11, StartedIs
  <2>2. ctx'[chk.ct].mem = "live" /\ ctx'[chk.ct].holders = 2
    BY <2>1 DEF StartedAs
  <2>3. ByThread(chk.ct)'
    BY <2>1 DEF StartedAs
  <2>4. \A j \in Contexts : j # chk.ct => (ByThread(j)' <=> ByThread(j))
    BY <2>1 DEF StartedAs
  <2> HIDE DEF ByThread, TurInv
  <2> QED BY <2>1, <2>2, <2>3, <2>4 DEF TurInv, StartedAs
<1>12. CASE check_sync BY <1>12 DEF check_sync, Return
<1>13. CASE check_wait
  <2> HIDE DEF InUse, HoldersCount
  <2>1. KeepsUse
    BY <1>13 DEF check_wait, Return, KeepsUse
  <2> QED BY <2>1, KeepUse
<1>14. CASE check_xchg
  <2> HIDE DEF CheckerRecord, ContextRecord, ThreadRecord, TurTypeOK
  <2>1. Xchanged
    BY <1>14, XchgIs
  <2>2. KeepsUse
    BY <2>1 DEF Xchanged, KeepsUse, Alive
  <2> HIDE DEF TurInv, InUse, HoldersCount
  <2> QED BY <2>2, KeepUse
<1>15. CASE caller_canceled BY <1>15 DEF caller_canceled
<1>16. CASE time_passes BY <1>16 DEF time_passes
<1>17. ASSUME NEW k \in Threads, tur_check(k) PROVE HoldersCount'
  <2> HIDE DEF CheckerRecord, ContextRecord, ThreadRecord, TurTypeOK
  <2>1. thr \in [Threads -> ThreadRecord] BY DEF TurTypeOK
  <2>2. MovedBy(k) BY <1>17, <2>1, MoveIs
  <2>3. KeepsUse
    <3>1. \A l \in Threads : (Alive(l)' <=> Alive(l)) /\ thr'[l].ctx = thr[l].ctx
      BY <2>2 DEF MovedBy, Alive
    <3> QED BY <2>2, <3>1 DEF MovedBy, KeepsUse
  <2> HIDE DEF TurInv, InUse, HoldersCount
  <2> QED BY <2>3, KeepUse
<1>18. ASSUME NEW k \in Threads, tur_store(k) PROVE HoldersCount'
  <2> HIDE DEF CheckerRecord, ContextRecord, ThreadRecord, TurTypeOK
  <2>1. StoredBy(k)
    BY <1>18, StoreIs
  <2>2. KeepsUse
    BY <2>1 DEF StoredBy, KeepsUse, Alive
  <2> HIDE DEF TurInv, InUse, HoldersCount
  <2> QED BY <2>2, KeepUse
<1>19. ASSUME NEW k \in Threads, tur_flag(k) PROVE HoldersCount'
  <2> HIDE DEF CheckerRecord, ContextRecord, ThreadRecord, TurTypeOK
  <2>1. FlagTakenBy(k)
    BY <1>19, FlagIs
  <2>2. KeepsUse
    BY <2>1 DEF FlagTakenBy, KeepsUse, Alive
  <2> HIDE DEF TurInv, InUse, HoldersCount
  <2> QED BY <2>2, KeepUse
<1>20. ASSUME NEW k \in Threads, tur_logs(k) PROVE HoldersCount'
  <2> HIDE DEF CheckerRecord, ContextRecord, ThreadRecord, TurTypeOK
  <2>1. thr \in [Threads -> ThreadRecord] BY DEF TurTypeOK
  <2>2. MovedBy(k) BY <1>20, <2>1, MoveIs
  <2>3. KeepsUse
    <3>1. \A l \in Threads : (Alive(l)' <=> Alive(l)) /\ thr'[l].ctx = thr[l].ctx
      BY <2>2 DEF MovedBy, Alive
    <3> QED BY <2>2, <3>1 DEF MovedBy, KeepsUse
  <2> HIDE DEF TurInv, InUse, HoldersCount
  <2> QED BY <2>3, KeepUse
<1>21. ASSUME NEW k \in Threads, tur_pause(k) PROVE HoldersCount'
  <2> HIDE DEF CheckerRecord, ContextRecord, ThreadRecord, TurTypeOK
  <2>1. thr \in [Threads -> ThreadRecord] BY DEF TurTypeOK
  <2>2. MovedBy(k) BY <1>21, <2>1, MoveIs
  <2>3. KeepsUse
    <3>1. \A l \in Threads : (Alive(l)' <=> Alive(l)) /\ thr'[l].ctx = thr[l].ctx
      BY <2>2 DEF MovedBy, Alive
    <3> QED BY <2>2, <3>1 DEF MovedBy, KeepsUse
  <2> HIDE DEF TurInv, InUse, HoldersCount
  <2> QED BY <2>3, KeepUse
<1>22. ASSUME NEW k \in Threads, tur_cleanup(k) PROVE HoldersCount'
  BY SMTT(40), <1>22 DEF tur_cleanup, Drop, NoContext, NewContext
<1>23. CASE UNCHANGED tur_vars BY <1>23 DEF tur_vars
<1> QED BY <1>1, <1>2, <1>3, <1>4, <1>5, <1>6, <1>7, <1>8, <1>9, <1>10, <1>11, <1>12,
     <1>13, <1>14, <1>15, <1>16, <1>17, <1>18, <1>19, <1>20, <1>21, <1>22, <1>23 DEF
     TurNext, checker_put, libcheck_check, check_start, tur_thread, tur_xchg

\* A thread that moves on alone keeps what the checker knows of it.
LEMMA MoveWaits ==
  ASSUME TurInv, NEW k \in Threads, tur_check(k) \/ tur_logs(k) \/ tur_pause(k)
  PROVE  WaitsForOne'
<1>1. thr \in [Threads -> ThreadRecord] /\ chk \in CheckerRecord /\ WaitsForOne
      /\ ctx \in [Contexts -> ContextRecord]
  BY DEF TurInv, TurTypeOK
<1>2. MovedBy(k) BY <1>1, MoveIs
<1>3. chk' = chk /\ ctx' = ctx /\ answer' = answer BY <1>2 DEF MovedBy
<1>4. ASSUME NEW t \in Threads, Waits(t) PROVE Waits(t)'
  <2>1. \A l \in Threads : (Alive(l)' <=> Alive(l)) /\ thr'[l].ctx = thr[l].ctx
                            /\ thr'[l].canceled = thr[l].canceled
    BY <1>2 DEF MovedBy, Alive
  <2>2. CASE k = t
    <3>1. thr[t].pc = "check" /\ ~thr[t].canceled /\ thr'[t].pc = "store"
      BY <1>2, <1>4, <2>2 DEF Waits, MovedBy
    <3> QED BY <1>3, <1>4, <2>1, <3>1 DEF Waits
  <2>3. CASE k # t
    <3>1. thr'[t] = thr[t] BY <1>2, <2>3 DEF MovedBy
    <3> QED BY <1>3, <1>4, <2>1, <3>1 DEF Waits
  <2> QED BY <2>2, <2>3
<1>5. chk.ct # 0 => ctx[chk.ct].thread \in {0} \cup Threads
  BY <1>1 DEF CheckerRecord, ContextRecord
<1> QED BY <1>1, <1>3, <1>4, <1>5 DEF WaitsForOne

\* The running flag decides between the checker and its thread.
LEMMA WaitsStep == ASSUME TurInv, [TurNext]_tur_vars PROVE WaitsForOne'
<1> USE DEF TurInv, TurTypeOK, Places, InUse, WaitsForOne, Waits, Reporting, Alive, ByThread,
             CheckerRecord, ContextRecord, ThreadRecord, AnswerRecord
<1>1. ASSUME NEW i \in Contexts, checker_init(i) PROVE WaitsForOne'
  BY <1>1 DEF checker_init, NewContext
<1>2. CASE checker_switch BY <1>2 DEF checker_switch
<1>3. CASE libcheck_free BY SMTT(40), <1>3 DEF libcheck_free
<1>4. CASE libcheck_drop BY <1>4 DEF libcheck_drop, Drop, NoContext, NewContext, Return
<1>5. CASE check_late BY SMTT(40), <1>5 DEF check_late, Checking
<1>6. CASE check_done BY <1>6 DEF check_done, Checking
<1>7. CASE check_read BY SMTT(40), <1>7 DEF check_read, Report, Return
<1>8. CASE check_cancel BY SMTT(40), <1>8 DEF check_cancel, Report, Return
<1>9. ASSUME NEW i \in Contexts, check_holders(i) PROVE WaitsForOne'
  <2> HIDE DEF CheckerRecord, ContextRecord, ThreadRecord, TurTypeOK, AnswerRecord
  <2>1. CASE ct.holders > 1
    <3>1. NewContext.thread = 0 /\ NewContext.running = FALSE
      BY DEF NewContext
    <3>2. SwapsFor(i) BY <1>9, <2>1, HoldersTaken
    <3> QED BY <3>1, <3>2 DEF SwapsFor
  <2>2. CASE ~(ct.holders > 1)
    BY <1>9, <2>2, HoldersFree
  <2> QED BY <2>1, <2>2
<1>10. CASE check_swap BY ZenonT(60), <1>10 DEF check_swap, Drop, NoContext, NewContext
<1>11. CASE check_started
  <2>1. PICK n \in Threads : StartedAs(n)
    BY <1>11, StartedIs
  <2>2. answer'.for < chk'.started
    BY <2>1 DEF StartedAs
  <2> HIDE DEF CheckerRecord, ContextRecord, ThreadRecord, TurTypeOK, AnswerRecord
  <2>3. ASSUME NEW l \in Threads, Alive(l)', thr'[l].ctx = chk.ct PROVE l = n
    BY SMTT(40), <2>1, <2>3 DEF StartedAs
  <2>4. thr'[n].pc = "check" /\ thr'[n].ctx = chk.ct /\ ~thr'[n].canceled
    BY SMTT(40), <2>1 DEF StartedAs
  <2>5. Waits(n)'
    BY SMTT(40), <2>1, <2>2, <2>3, <2>4 DEF StartedAs
  <2> HIDE DEF Waits
  <2> QED BY <2>1, <2>5 DEF StartedAs
<1>12. CASE check_sync BY SMTT(40), <1>12 DEF check_sync, Return
<1>13. CASE check_wait
  <2>1. /\ chk'.ct = chk.ct /\ chk'.started = chk.started /\ chk.ct # 0
        /\ chk'.pc # "cancel" /\ chk.pc \in {"lock", "wait"}
    BY ZenonT(60), <1>13 DEF check_wait, Return
  <2>2. ctx' = ctx /\ thr' = thr /\ answer' = answer
    BY <1>13 DEF check_wait
  <2> HIDE DEF CheckerRecord, ContextRecord, ThreadRecord, TurTypeOK, AnswerRecord
  <2> QED BY SMTT(40), <2>1, <2>2
<1>14. CASE check_xchg
  <2> HIDE DEF CheckerRecord, ContextRecord, ThreadRecord, TurTypeOK, AnswerRecord
  <2>1. Xchanged BY <1>14, XchgIs
  <2> QED BY SMTT(40), <2>1 DEF Xchanged
<1>15. CASE caller_canceled
  <2>1. /\ chk'.ct = chk.ct /\ chk'.started = chk.started /\ (chk'.pc = chk.pc \/ chk'.pc = "idle")
        /\ chk.pc # "cancel" /\ thr' = thr /\ answer' = answer
    BY <1>15 DEF caller_canceled
  <2>2. chk.ct # 0 => /\ chk.ct \in Contexts /\ ctx'[chk.ct].thread = ctx[chk.ct].thread
                      /\ ctx'[chk.ct].running = ctx[chk.ct].running
                      /\ ctx'[chk.ct].state = ctx[chk.ct].state
    BY <1>15 DEF caller_canceled
  <2> HIDE DEF CheckerRecord, ContextRecord, ThreadRecord, TurTypeOK, AnswerRecord
  <2> QED BY <2>1, <2>2
<1>16. CASE time_passes BY SMTT(40), <1>16 DEF time_passes
<1>17. ASSUME NEW k \in Threads, tur_check(k) PROVE WaitsForOne'
  <2> HIDE DEF TurInv, WaitsForOne
  <2> QED BY <1>17, MoveWaits
<1>18. ASSUME NEW k \in Threads, tur_store(k) PROVE WaitsForOne'
  <2>1. StoredBy(k) BY <1>18, StoreIs
  <2>2. chk' = chk /\ answer' = answer /\ chk.ct \in {0} \cup Contexts
    BY <2>1 DEF StoredBy
  <2>3. chk.ct # 0 => /\ ctx[chk.ct].thread \in {0} \cup Threads
                      /\ ctx'[chk.ct].thread = ctx[chk.ct].thread
    BY ZenonT(60), <2>1, <2>2 DEF StoredBy
  <2> HIDE DEF CheckerRecord, ContextRecord, ThreadRecord, TurTypeOK, AnswerRecord
  <2>4. ASSUME chk.ct # 0, ct.thread = 0 PROVE ~ctx'[chk.ct].running
    <3>1. ~ct.running BY <2>4
    <3>2. CASE thr[k].ctx = chk.ct BY <2>1, <2>4, <3>1, <3>2 DEF StoredBy
    <3>3. CASE thr[k].ctx # chk.ct BY <2>1, <2>2, <2>4, <3>1, <3>3 DEF StoredBy
    <3> QED BY <3>2, <3>3
  <2>5. ASSUME NEW t \in Threads, chk.ct # 0, t = ct.thread, Waits(t) PROVE Waits(t)'
    <3>1. CASE k = t BY SMTT(40), <2>1, <2>2, <2>5, <3>1 DEF StoredBy
    <3>2. CASE k # t BY <2>1, <2>2, <2>5, <3>2 DEF StoredBy
    <3> QED BY <3>1, <3>2
  <2> HIDE DEF Waits
  <2> QED BY <2>2, <2>3, <2>4, <2>5
<1>19. ASSUME NEW k \in Threads, tur_flag(k) PROVE WaitsForOne'
  <2>1. FlagTakenBy(k) BY <1>19, FlagIs
  <2>2. chk' = chk /\ answer' = answer /\ chk.ct \in {0} \cup Contexts
    BY <2>1 DEF FlagTakenBy
  <2>3. chk.ct # 0 => /\ ctx[chk.ct].thread \in {0} \cup Threads
                      /\ ctx'[chk.ct].thread = ctx[chk.ct].thread
    <3>1. CASE thr[k].ctx = chk.ct BY <2>1, <2>2, <3>1 DEF FlagTakenBy
    <3>2. CASE thr[k].ctx # chk.ct BY <2>1, <2>2, <3>2 DEF FlagTakenBy
    <3> QED BY <3>1, <3>2
  <2> HIDE DEF CheckerRecord, ContextRecord, ThreadRecord, TurTypeOK, AnswerRecord
  <2>4. ASSUME chk.ct # 0, ct.thread = 0 PROVE ~ctx'[chk.ct].running
    <3>1. ~ct.running BY <2>4
    <3>2. CASE thr[k].ctx = chk.ct BY <2>1, <2>4, <3>1, <3>2 DEF FlagTakenBy
    <3>3. CASE thr[k].ctx # chk.ct BY <2>1, <2>2, <2>4, <3>1, <3>3 DEF FlagTakenBy
    <3> QED BY <3>2, <3>3
  <2>5. ASSUME NEW t \in Threads, chk.ct # 0, t = ct.thread, Waits(t) PROVE Waits(t)'
    <3>1. CASE k = t BY SMTT(40), <2>1, <2>2, <2>5, <3>1 DEF FlagTakenBy
    <3>2. CASE k # t BY <2>1, <2>2, <2>5, <3>2 DEF FlagTakenBy
    <3> QED BY <3>1, <3>2
  <2> HIDE DEF Waits
  <2> QED BY <2>2, <2>3, <2>4, <2>5
<1>20. ASSUME NEW k \in Threads, tur_logs(k) PROVE WaitsForOne'
  <2> HIDE DEF TurInv, WaitsForOne
  <2> QED BY <1>20, MoveWaits
<1>21. ASSUME NEW k \in Threads, tur_pause(k) PROVE WaitsForOne'
  <2> HIDE DEF TurInv, WaitsForOne
  <2> QED BY <1>21, MoveWaits
<1>22. ASSUME NEW k \in Threads, tur_cleanup(k) PROVE WaitsForOne'
  <2>1. LeftBy(k) /\ KeptBy(k) BY <1>22, CleanupIs, CleanupKeeps
  <2>2. chk' = chk /\ answer' = answer /\ chk.ct \in {0} \cup Contexts
    BY <2>1 DEF LeftBy, KeptBy
  <2>3. chk.ct # 0 => /\ ctx[chk.ct].thread \in {0} \cup Threads
                      /\ ctx'[chk.ct].thread = ctx[chk.ct].thread
    BY <2>1, <2>2 DEF LeftBy, KeptBy
  <2> HIDE DEF CheckerRecord, ContextRecord, ThreadRecord, TurTypeOK, AnswerRecord
  <2>4. ASSUME chk.ct # 0, ct.thread = 0 PROVE ~ctx'[chk.ct].running
    <3>1. ~ct.running BY <2>4
    <3>2. CASE thr[k].ctx = chk.ct BY <2>1, <2>4, <3>1, <3>2 DEF LeftBy, KeptBy
    <3>3. CASE thr[k].ctx # chk.ct BY <2>1, <2>2, <2>4, <3>1, <3>3 DEF LeftBy, KeptBy
    <3> QED BY <3>2, <3>3
  <2>5. ASSUME NEW t \in Threads, chk.ct # 0, t = ct.thread, Waits(t) PROVE Waits(t)'
    <3>1. CASE k = t BY <2>1, <2>2, <2>5, <3>1 DEF LeftBy, KeptBy
    <3>2. CASE k # t BY <2>1, <2>2, <2>5, <3>2 DEF LeftBy, KeptBy
    <3> QED BY <3>1, <3>2
  <2> HIDE DEF Waits
  <2> QED BY <2>2, <2>3, <2>4, <2>5
<1>23. CASE UNCHANGED tur_vars BY <1>23 DEF tur_vars
<1> QED BY <1>1, <1>2, <1>3, <1>4, <1>5, <1>6, <1>7, <1>8, <1>9, <1>10, <1>11, <1>12,
     <1>13, <1>14, <1>15, <1>16, <1>17, <1>18, <1>19, <1>20, <1>21, <1>22, <1>23 DEF
     TurNext, checker_put, libcheck_check, check_start, tur_thread, tur_xchg

\* Only the thread waited for is reported on, and once.
LEMMA ReportStep == ASSUME TurInv, [TurNext]_tur_vars PROVE Reporting'
<1> USE DEF TurInv, TurTypeOK, Places, InUse, WaitsForOne, Waits, Reporting, Alive, ByThread,
             CheckerRecord, ContextRecord, ThreadRecord, AnswerRecord
<1>1. ASSUME NEW i \in Contexts, checker_init(i) PROVE Reporting'
  BY <1>1 DEF checker_init, NewContext
<1>2. CASE checker_switch BY <1>2 DEF checker_switch
<1>3. CASE libcheck_free BY <1>3 DEF libcheck_free
<1>4. CASE libcheck_drop BY <1>4 DEF libcheck_drop, Drop, NoContext, NewContext, Return
<1>5. CASE check_late BY <1>5 DEF check_late, Checking
<1>6. CASE check_done BY <1>6 DEF check_done, Checking
<1>7. CASE check_read BY <1>7 DEF check_read, Report, Return
<1>8. CASE check_cancel BY <1>8 DEF check_cancel, Report, Return
<1>9. ASSUME NEW i \in Contexts, check_holders(i) PROVE Reporting'
  <2> HIDE DEF CheckerRecord, ContextRecord, ThreadRecord, TurTypeOK, AnswerRecord
  <2>1. CASE ct.holders > 1
    <3>1. SwapsFor(i) BY <1>9, <2>1, HoldersTaken
    <3> QED BY <3>1 DEF SwapsFor
  <2>2. CASE ~(ct.holders > 1)
    BY <1>9, <2>2, HoldersFree
  <2> QED BY <2>1, <2>2
<1>10. CASE check_swap BY <1>10 DEF check_swap, Drop, NoContext, NewContext
<1>11. CASE check_started BY <1>11 DEF check_started
<1>12. CASE check_sync BY <1>12 DEF check_sync, Return
<1>13. CASE check_wait
  <2>1. ct.thread # 0 /\ Waits(ct.thread) /\ chk.ct \in Contexts
    BY <1>13 DEF check_wait
  <2>2. ct.state # Pending => ct.state = chk.started
    BY <2>1
  <2>3. /\ answer' = answer /\ chk'.started = chk.started /\ chk'.pc \in {"xchg", "wait", "idle"}
        /\ chk'.pc = "xchg" => ct.state # Pending /\ chk'.status = ct.state
    <3>1. CASE ct.state # Pending /\ chk' = [chk EXCEPT !.pc = "xchg", !.status = ct.state]
      BY <1>13, <3>1 DEF check_wait
    <3>2. CASE chk' = [chk EXCEPT !.pc = "wait"] BY <1>13, <3>2 DEF check_wait
    <3>3. CASE chk' = Return("idle") BY <1>13, <3>3 DEF check_wait, Return
    <3> QED BY <1>13, <3>1, <3>2, <3>3 DEF check_wait
  <2> HIDE DEF CheckerRecord, ContextRecord, ThreadRecord, TurTypeOK, AnswerRecord
  <2> HIDE DEF Waits
  <2> QED BY <2>2, <2>3
<1>14. CASE check_xchg
  <2>1. Xchanged BY <1>14, XchgIs
  <2>2. ct.thread # 0 /\ Waits(ct.thread) /\ chk.started \in Nat
    BY <2>1 DEF Xchanged
  <2>3. answer.for < chk.started /\ chk.status = chk.started
    BY <2>1, <2>2 DEF Xchanged
  <2>4. /\ Report(chk.status).by = chk.started /\ Report(chk.status).for = chk.started
        /\ Report(chk.status).again = FALSE
    BY <2>2, <2>3 DEF Report
  <2> HIDE DEF CheckerRecord, ContextRecord, ThreadRecord, TurTypeOK, AnswerRecord
  <2> HIDE DEF Waits
  <2> QED BY <2>1, <2>2, <2>3, <2>4 DEF Xchanged
<1>15. CASE caller_canceled BY <1>15 DEF caller_canceled
<1>16. CASE time_passes BY SMTT(40), <1>16 DEF time_passes
<1>17. ASSUME NEW k \in Threads, tur_check(k) PROVE Reporting'
  BY <1>17 DEF tur_check, Goto
<1>18. ASSUME NEW k \in Threads, tur_store(k) PROVE Reporting'
  <2>1. StoredBy(k) BY <1>18, StoreIs
  <2>2. chk.pc = "read" => chk.ct \in Contexts /\ thr[k].ctx # chk.ct
    BY <2>1 DEF StoredBy
  <2>3. chk.pc = "read" => ctx'[chk.ct] = ctx[chk.ct]
    BY SMTT(40), <2>1, <2>2 DEF StoredBy
  <2> HIDE DEF CheckerRecord, ContextRecord, ThreadRecord, TurTypeOK, AnswerRecord
  <2> QED BY SMTT(40), <2>1, <2>2, <2>3 DEF StoredBy
<1>19. ASSUME NEW k \in Threads, tur_flag(k) PROVE Reporting'
  BY SMTT(40), <1>19 DEF tur_flag, Goto
<1>20. ASSUME NEW k \in Threads, tur_logs(k) PROVE Reporting'
  BY <1>20 DEF tur_logs, Goto
<1>21. ASSUME NEW k \in Threads, tur_pause(k) PROVE Reporting'
  BY <1>21 DEF tur_pause, Goto
<1>22. ASSUME NEW k \in Threads, tur_cleanup(k) PROVE Reporting'
  <2>1. LeftBy(k) /\ KeptBy(k) BY <1>22, CleanupIs, CleanupKeeps
  <2> HIDE DEF CheckerRecord, ContextRecord, ThreadRecord, TurTypeOK, AnswerRecord
  <2> QED BY <2>1 DEF LeftBy, KeptBy
<1>23. CASE UNCHANGED tur_vars BY <1>23 DEF tur_vars
<1> QED BY <1>1, <1>2, <1>3, <1>4, <1>5, <1>6, <1>7, <1>8, <1>9, <1>10, <1>11, <1>12,
     <1>13, <1>14, <1>15, <1>16, <1>17, <1>18, <1>19, <1>20, <1>21, <1>22, <1>23 DEF
     TurNext, checker_put, libcheck_check, check_start, tur_thread, tur_xchg

\* Every step keeps the invariant.
LEMMA TurInvariant == TurSpec => []TurInv
<1>1. ASSUME TurInv, [TurNext]_tur_vars PROVE TurInv'
  BY <1>1, TurTypes, PlacesStep, InUseStep, HoldersStep, WaitsStep, ReportStep DEF TurInv
<1> QED BY <1>1, TurInitInv, PTL DEF TurSpec

\* For any number of threads and contexts, however long threads hang: the
\* checker and its threads use a context as long as it is live, the last one
\* frees it, pthread_cancel() is called for threads that have not ended, and a
\* check is answered once, with the result of its own thread.
THEOREM CheckerSoundTheorem == TurSpec => []CheckerSound
<1>1. TurInv => ContextLifetime
  <2> SUFFICES ASSUME TurInv PROVE ContextLifetime
    OBVIOUS
  <2> USE DEF TurInv, TurTypeOK, CheckerRecord
  <2>1. \A i \in {chk.ct, chk.old} \ {0} : ctx[i].mem = "live" BY DEF InUse
  <2>2. \A k \in Threads : Alive(k) => ctx[thr[k].ctx].mem = "live" BY DEF InUse
  <2>3. ASSUME NEW i \in Contexts, ctx[i].mem = "live"
        PROVE  i \in {chk.ct, chk.old} \/ \E k \in Threads : Alive(k) /\ thr[k].ctx = i
    BY <2>3 DEF HoldersCount, ByThread, Held
  <2> QED BY <2>1, <2>2, <2>3 DEF ContextLifetime
<1>2. TurInv => CancelsAlive
  BY DEF TurInv, WaitsForOne, Waits, CancelsAlive, Alive, Places
<1>3. TurInv => AnswersFresh
  BY DEF TurInv, Reporting, AnswersFresh
<1> QED BY <1>1, <1>2, <1>3, TurInvariant, PTL DEF CheckerSound
================================================================================
