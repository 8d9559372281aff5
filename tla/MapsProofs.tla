------------------------------ MODULE MapsProofs ------------------------------
(***************************************************************************)
(* Proofs about Maps, for any number of devices and LUNs: pointers between *)
(* paths and maps, the LUNs a device is connected with, and what the       *)
(* daemon loads into the kernel's tables.                                  *)
(*                                                                         *)
(* A handler composes operators on w = [pv, mp, tab, broken]. What each    *)
(* operator computes is stated once (its Post), then what it preserves     *)
(* (Keeps), and a handler's proof follows its operators by transitivity.   *)
(***************************************************************************)
EXTENDS Maps, TLAPS

(***************************************************************************)
(* The state and its updates                                               *)
(***************************************************************************)
\* The types of the operators' state. A table that is there is a set of devices.
WN == Wwids \cup {None}
PathRec == [init : Inits \cup {None}, wwid : WN, mpp : WN]
MpRec == [known : BOOLEAN, paths : SUBSET Devs, pg : SUBSET Devs, wait : 0..2]
TabRec == {NoTab} \cup SUBSET Devs
StateRec == [pv : [Devs -> PathRec], mp : [Wwids -> MpRec], tab : [Wwids -> TabRec],
             broken : {None, "twice", "freed"}]

\* The updates of the state that the operators make, as functions of their parts
WithPv(w, f) == [w EXCEPT !.pv = f]
WithMp(w, m, x) == [w EXCEPT !.mp[m] = x]
WithPaths(w, m, P) == [w EXCEPT !.mp[m].paths = P]
WithPathsPv(w, m, P, f) == [w EXCEPT !.mp[m].paths = P, !.pv = f]
WithTabWait(w, m, Q, k) == [w EXCEPT !.tab[m] = Q, !.mp[m].wait = k]
WithPgPv(w, m, P, f) == [w EXCEPT !.mp[m].pg = P, !.pv = f]

\* What each of these updates changes and what it leaves, free_path(),
\* orphan_path() and set_path_removed() among them
LEMMA SetPaths ==
  ASSUME NEW w \in StateRec, NEW m \in Wwids, NEW P, P \subseteq Devs,
         NEW r, r = WithPaths(w, m, P)
  PROVE  /\ r \in StateRec /\ r.pv = w.pv /\ r.tab = w.tab /\ r.broken = w.broken
         /\ \A n \in Wwids \ {m} : r.mp[n] = w.mp[n]
         /\ r.mp[m].paths = P /\ r.mp[m].pg = w.mp[m].pg /\ r.mp[m].known = w.mp[m].known
         /\ r.mp[m].wait = w.mp[m].wait
BY DEF WithPaths, StateRec, MpRec

LEMMA SetPv ==
  ASSUME NEW w \in StateRec, NEW f \in [Devs -> PathRec],
         NEW r, r = WithPv(w, f)
  PROVE  /\ r \in StateRec /\ r.pv = f /\ r.tab = w.tab /\ r.broken = w.broken
         /\ r.mp = w.mp
BY DEF WithPv, StateRec

LEMMA SetPathsPv ==
  ASSUME NEW w \in StateRec, NEW m \in Wwids, NEW P, P \subseteq Devs,
         NEW f \in [Devs -> PathRec],
         NEW r, r = WithPathsPv(w, m, P, f)
  PROVE  /\ r \in StateRec /\ r.pv = f /\ r.tab = w.tab /\ r.broken = w.broken
         /\ \A n \in Wwids \ {m} : r.mp[n] = w.mp[n]
         /\ r.mp[m].paths = P /\ r.mp[m].pg = w.mp[m].pg /\ r.mp[m].known = w.mp[m].known
         /\ r.mp[m].wait = w.mp[m].wait
BY DEF WithPathsPv, StateRec, MpRec

LEMMA SetPgPv ==
  ASSUME NEW w \in StateRec, NEW m \in Wwids, NEW P, P \subseteq Devs,
         NEW f \in [Devs -> PathRec],
         NEW r, r = WithPgPv(w, m, P, f)
  PROVE  /\ r \in StateRec /\ r.pv = f /\ r.tab = w.tab /\ r.broken = w.broken
         /\ \A n \in Wwids \ {m} : r.mp[n] = w.mp[n]
         /\ r.mp[m].paths = w.mp[m].paths /\ r.mp[m].pg = P /\ r.mp[m].known = w.mp[m].known
         /\ r.mp[m].wait = w.mp[m].wait
BY DEF WithPgPv, StateRec, MpRec

LEMMA SetTabWait ==
  ASSUME NEW w \in StateRec, NEW m \in Wwids, NEW Q \in TabRec, NEW k \in 0..2,
         NEW r, r = WithTabWait(w, m, Q, k)
  PROVE  /\ r \in StateRec /\ r.pv = w.pv /\ r.broken = w.broken
         /\ \A n \in Wwids \ {m} : r.mp[n] = w.mp[n]
         /\ \A n \in Wwids \ {m} : r.tab[n] = w.tab[n]
         /\ r.tab[m] = Q
         /\ r.mp[m].paths = w.mp[m].paths /\ r.mp[m].pg = w.mp[m].pg
         /\ r.mp[m].known = w.mp[m].known /\ r.mp[m].wait = k
BY DEF WithTabWait, StateRec, MpRec

LEMMA FreeIs ==
  ASSUME NEW w \in StateRec, NEW D, NEW r, r = free_path(w, D)
  PROVE  /\ r \in StateRec /\ r.mp = w.mp /\ r.tab = w.tab /\ r.broken = w.broken
         /\ \A d \in Devs : r.pv[d] = IF d \in D THEN NoPath ELSE w.pv[d]
BY DEF StateRec, PathRec, free_path, NoPath, WN, Inits

LEMMA OrphanIs ==
  ASSUME NEW w \in StateRec, NEW D, NEW r, r = orphan_path(w, D)
  PROVE  /\ r \in StateRec /\ r.mp = w.mp /\ r.tab = w.tab /\ r.broken = w.broken
         /\ \A d \in Devs : r.pv[d] = IF d \in D THEN [w.pv[d] EXCEPT !.mpp = None] ELSE w.pv[d]
BY ZenonT(60) DEF StateRec, PathRec, orphan_path, WN, Inits

LEMMA RemovedIs ==
  ASSUME NEW w \in StateRec, NEW D, NEW r, r = set_path_removed(w, D)
  PROVE  /\ r \in StateRec /\ r.mp = w.mp /\ r.tab = w.tab /\ r.broken = w.broken
         /\ \A d \in Devs : r.pv[d] = IF d \in D /\ w.pv[d].mpp # None
                                      THEN [w.pv[d] EXCEPT !.init = "REMOVED"] ELSE w.pv[d]
<1> DEFINE f == [d \in Devs |-> IF d \in D /\ w.pv[d].mpp # None
                                   THEN [w.pv[d] EXCEPT !.init = "REMOVED"] ELSE w.pv[d]]
<1>1. f \in [Devs -> PathRec]  BY DEF StateRec, PathRec, Inits
<1>2. r = WithPv(w, f)  BY DEF set_path_removed, WithPv
<1>3. \A d \in Devs : f[d] = IF d \in D /\ w.pv[d].mpp # None
                                      THEN [w.pv[d] EXCEPT !.init = "REMOVED"] ELSE w.pv[d]
  OBVIOUS
<1> HIDE DEF f
<1>4. /\ r \in StateRec /\ r.pv = f /\ r.tab = w.tab /\ r.broken = w.broken
      /\ r.mp = w.mp
  BY <1>1, <1>2, SetPv
<1>5. QED  BY <1>3, <1>4

(***************************************************************************)
(* What each operator does to the state: r is the result                   *)
(***************************************************************************)

\* An operator on the map m leaves the other maps, the tables and wait_for_udev.
Frame(w, r, m) ==
  /\ r.tab = w.tab /\ r.broken = w.broken
  /\ \A n \in Wwids \ {m} : r.mp[n] = w.mp[n]
  /\ r.mp[m].known = w.mp[m].known /\ r.mp[m].wait = w.mp[m].wait

\* update_mpp_paths(): paths of the path groups that are not removed come back.
UpdatePathsPost(w, r, m) ==
  /\ Frame(w, r, m) /\ r.pv = w.pv /\ r.mp[m].pg = w.mp[m].pg
  /\ r.mp[m].paths = w.mp[m].paths
                     \cup {d \in w.mp[m].pg \cap In(w) : w.pv[d].init # "REMOVED"}

\* adopt_paths(): paths with the map's WWID are its own.
AdoptPost(w, r, m) ==
  LET A == {d \in In(w) : w.pv[d].wwid = m /\ w.pv[d].init # "REMOVED"}
      B == {d \in w.mp[m].pg \cap In(w) : w.pv[d].init # "REMOVED"}
  IN  /\ Frame(w, r, m) /\ r.mp[m].pg = w.mp[m].pg
      /\ r.mp[m].paths = w.mp[m].paths \cup A \cup B
      /\ \A d \in Devs : IF d \in A
            THEN /\ r.pv[d].init = w.pv[d].init /\ r.pv[d].mpp = m
                 /\ r.pv[d].wwid \in {m, None}
                 /\ dev[d] # None => r.pv[d].wwid = m
            ELSE r.pv[d] = w.pv[d]

\* verify_paths(): paths without a device leave mpp->paths as removed ones.
VerifyPost(w, r, m) ==
  /\ Frame(w, r, m) /\ r.mp[m].pg = w.mp[m].pg
  /\ r.mp[m].paths = {d \in w.mp[m].paths : dev[d] # None}
  /\ \A d \in Devs :
       r.pv[d] = IF d \in w.mp[m].paths /\ dev[d] = None /\ w.pv[d].mpp # None
                 THEN [w.pv[d] EXCEPT !.init = "REMOVED"] ELSE w.pv[d]

\* remove_map(): no path has the map any more, and removed paths of it are freed.
RemoveMapPost(w, r, m) ==
  /\ r.tab = w.tab /\ r.broken = w.broken
  /\ \A n \in Wwids \ {m} : r.mp[n] = w.mp[n]
  /\ r.mp[m] = NoMp
  /\ \A d \in Devs : r.pv[d] = IF w.pv[d].mpp # m THEN w.pv[d]
                                ELSE IF w.pv[d].init = "REMOVED" THEN NoPath
                                ELSE [w.pv[d] EXCEPT !.mpp = None]

\* setup_map(): the paths are in the path groups.
SetupMapPost(w, r, m) ==
  /\ Frame(w, r, m) /\ r.pv = w.pv
  /\ r.mp[m].paths = {} /\ r.mp[m].pg = w.mp[m].paths

\* domap(): the kernel has the path groups.
DomapPost(w, r, m) ==
  /\ r.pv = w.pv /\ r.broken = w.broken
  /\ \A n \in Wwids \ {m} : r.mp[n] = w.mp[n]
  /\ \A n \in Wwids \ {m} : r.tab[n] = w.tab[n]
  /\ r.mp[m].paths = w.mp[m].paths /\ r.mp[m].pg = w.mp[m].pg
  /\ r.mp[m].known = w.mp[m].known /\ r.tab[m] = w.mp[m].pg

\* update_pathvec_from_dm(): mine are the devices of the table that the map may
\* have, wrong those of them that have the WWID of another map.
FromDmPost(w, r, m, mine, wrong) ==
  /\ wrong \subseteq mine /\ mine \subseteq w.tab[m]
  /\ \A d \in mine : IF w.pv[d].init = None THEN dev[d] # None
                      ELSE w.pv[d].mpp \in {None, m}
  /\ Frame(w, r, m)
  /\ r.mp[m].pg = mine \ wrong /\ r.mp[m].paths = w.mp[m].paths
  /\ \A d \in Devs \ mine : r.pv[d] = w.pv[d]
  /\ \A d \in mine \ wrong :
       /\ r.pv[d].mpp = m /\ r.pv[d].wwid = m
       /\ IF w.pv[d].init = None THEN r.pv[d].init \in {"NEW", "MISSING"}
          ELSE r.pv[d].init = w.pv[d].init /\ w.pv[d].wwid \in {m, None}
  /\ \A d \in wrong :
       /\ r.pv[d].mpp = None
       /\ IF w.pv[d].init = None THEN /\ r.pv[d].init \in {"NEW", "MISSING"}
                                      /\ r.pv[d].wwid \in {dev[d], None}
          ELSE /\ r.pv[d].init = w.pv[d].init /\ r.pv[d].wwid = w.pv[d].wwid
               /\ w.pv[d].wwid \notin {m, None}

\* sync_paths(): mpp->paths is what the table has; paths that left it are
\* orphaned, removed ones freed.
SyncPost(w, r, m) ==
  LET P == w.mp[m].paths
      pg == w.mp[m].pg
  IN  /\ Frame(w, r, m) /\ r.mp[m].pg = pg
      /\ r.mp[m].paths = (P \cap pg) \cup {d \in pg : w.pv[d].init # "REMOVED"}
      /\ \A d \in Devs : r.pv[d] =
            IF d \in r.mp[m].paths THEN [w.pv[d] EXCEPT !.mpp = m]
            ELSE IF d \in pg THEN w.pv[d]
            ELSE IF d \in P THEN [w.pv[d] EXCEPT !.mpp = None]
            ELSE IF w.pv[d].init = "REMOVED" /\ w.pv[d].mpp = m THEN NoPath
            ELSE w.pv[d]

\* The operators do what these say.
LEMMA UpdatePathsIs ==
  ASSUME NEW w \in StateRec, NEW m \in Wwids, NEW r, r = update_mpp_paths(w, m)
  PROVE  r \in StateRec /\ UpdatePathsPost(w, r, m)
<1> DEFINE P == w.mp[m].paths \cup {d \in w.mp[m].pg \cap In(w) : w.pv[d].init # "REMOVED"}
<1>1. P \subseteq Devs  BY DEF StateRec, MpRec
<1>2. r = WithPaths(w, m, P)  BY DEF update_mpp_paths, WithPaths
<1> HIDE DEF P
<1>3. /\ r \in StateRec /\ r.pv = w.pv /\ r.tab = w.tab /\ r.broken = w.broken
      /\ \A n \in Wwids \ {m} : r.mp[n] = w.mp[n]
      /\ r.mp[m].paths = P /\ r.mp[m].pg = w.mp[m].pg /\ r.mp[m].known = w.mp[m].known
      /\ r.mp[m].wait = w.mp[m].wait
  BY <1>1, <1>2, SetPaths
<1>4. QED  BY <1>3 DEF P, UpdatePathsPost, Frame

LEMMA AdoptIs ==
  ASSUME NEW w \in StateRec, NEW m \in Wwids, NEW r, r = adopt_paths(w, m)
  PROVE  r \in StateRec /\ AdoptPost(w, r, m)
<1> DEFINE v == update_mpp_paths(w, m)
           A == {d \in In(w) : w.pv[d].wwid = m /\ w.pv[d].init # "REMOVED"}
           A2 == {d \in In(v) : v.pv[d].wwid = m /\ v.pv[d].init # "REMOVED"}
           blank(d) == dev[d] = None /\ v.pv[d].init \in {"NEW", "FAILED"}
           f == [d \in Devs |->
                   IF d \in A2 THEN [v.pv[d] EXCEPT !.mpp = m,
                                                   !.wwid = IF blank(d) THEN None ELSE @]
                   ELSE v.pv[d]]
           P == v.mp[m].paths \cup A2
<1>1. /\ v \in StateRec /\ v.pv = w.pv /\ v.tab = w.tab /\ v.broken = w.broken
      /\ \A n \in Wwids \ {m} : v.mp[n] = w.mp[n]
      /\ v.mp[m].paths = w.mp[m].paths \cup {d \in w.mp[m].pg \cap In(w) : w.pv[d].init # "REMOVED"}
      /\ v.mp[m].pg = w.mp[m].pg /\ v.mp[m].known = w.mp[m].known
      /\ v.mp[m].wait = w.mp[m].wait
  BY UpdatePathsIs DEF UpdatePathsPost, Frame
<1>2. r = WithPathsPv(v, m, P, f)  BY DEF adopt_paths, WithPathsPv
<1> HIDE DEF v
<1>3. A2 = A  BY <1>1 DEF In
<1>4. f \in [Devs -> PathRec]
  <2>1. ASSUME NEW d \in Devs
        PROVE  f[d] \in PathRec
    <3>1. v.pv[d] \in PathRec  BY <1>1 DEF StateRec
    <3>2. f[d] = IF d \in A2 THEN [v.pv[d] EXCEPT !.mpp = m,
                                    !.wwid = IF blank(d) THEN None ELSE @]
                 ELSE v.pv[d]
      OBVIOUS
    <3> HIDE DEF f, A2, blank
    <3>3. QED  BY <3>1, <3>2 DEF PathRec, WN
  <2>2. QED  BY <2>1
<1>5. P \subseteq Devs  BY <1>1 DEF StateRec, MpRec, In
<1>6. \A d \in Devs : IF d \in A
               THEN /\ f[d].init = w.pv[d].init /\ f[d].mpp = m
                    /\ f[d].wwid \in {m, None}
                    /\ dev[d] # None => f[d].wwid = m
               ELSE f[d] = w.pv[d]
  BY <1>1, <1>3 DEF StateRec, PathRec
<1> HIDE DEF P, f
<1>7. /\ r \in StateRec /\ r.pv = f /\ r.tab = v.tab /\ r.broken = v.broken
      /\ \A n \in Wwids \ {m} : r.mp[n] = v.mp[n]
      /\ r.mp[m].paths = P /\ r.mp[m].pg = v.mp[m].pg /\ r.mp[m].known = v.mp[m].known
      /\ r.mp[m].wait = v.mp[m].wait
  <2>1. v \in StateRec  BY <1>1
  <2>2. QED  BY <2>1, <1>2, <1>4, <1>5, SetPathsPv
<1>8. P = w.mp[m].paths \cup A \cup {d \in w.mp[m].pg \cap In(w) : w.pv[d].init # "REMOVED"}
  BY <1>1, <1>3 DEF P
<1>9. QED  BY <1>1, <1>6, <1>7, <1>8 DEF AdoptPost, Frame

LEMMA VerifyIs ==
  ASSUME NEW w \in StateRec, NEW m \in Wwids, NEW r, r = verify_paths(w, m)
  PROVE  r \in StateRec /\ VerifyPost(w, r, m)
<1> DEFINE lost == {d \in w.mp[m].paths : dev[d] = None}
           P == w.mp[m].paths \ lost
           v == WithPaths(w, m, P)
<1>1. r = set_path_removed(v, lost)  BY DEF verify_paths, WithPaths
<1>2. P \subseteq Devs /\ P = {d \in w.mp[m].paths : dev[d] # None}  BY DEF StateRec, MpRec
<1>3. \A d \in Devs : d \in lost <=> d \in w.mp[m].paths /\ dev[d] = None  OBVIOUS
<1> HIDE DEF P, lost
<1>4. v \in StateRec  BY <1>2, SetPaths
<1>5. /\ v.pv = w.pv /\ v.tab = w.tab /\ v.broken = w.broken
      /\ \A n \in Wwids \ {m} : v.mp[n] = w.mp[n]
      /\ v.mp[m].paths = P /\ v.mp[m].pg = w.mp[m].pg /\ v.mp[m].known = w.mp[m].known
      /\ v.mp[m].wait = w.mp[m].wait
  BY <1>2, SetPaths
<1> HIDE DEF v
<1>6. /\ r \in StateRec /\ r.mp = v.mp /\ r.tab = v.tab /\ r.broken = v.broken
      /\ \A d \in Devs : r.pv[d] = IF d \in lost /\ v.pv[d].mpp # None
                                   THEN [v.pv[d] EXCEPT !.init = "REMOVED"] ELSE v.pv[d]
  BY <1>1, <1>4, RemovedIs
<1>7. QED  BY <1>2, <1>3, <1>5, <1>6 DEF VerifyPost, Frame

LEMMA RemoveMapIs ==
  ASSUME NEW w \in StateRec, NEW m \in Wwids, NEW r, r = remove_map(w, m),
         \A d \in Devs : w.pv[d].init = None => w.pv[d] = NoPath
  PROVE  r \in StateRec /\ RemoveMapPost(w, r, m)
<1> DEFINE mine == {d \in In(w) : w.pv[d].mpp = m}
           gone == {d \in mine : w.pv[d].init = "REMOVED"}
           v == free_path(w, gone)
           u == orphan_path(v, mine \ gone)
<1>1. r = [u EXCEPT !.mp[m] = NoMp]  BY DEF remove_map, orphan_paths
<1>2. \A d \in Devs : d \in mine <=> w.pv[d].mpp = m
  BY MapsAssumption DEF In, NoPath
<1>3. \A d \in Devs : d \in gone <=> w.pv[d].mpp = m /\ w.pv[d].init = "REMOVED"
  BY <1>2
<1> HIDE DEF mine, gone
<1>4. v \in StateRec  BY FreeIs
<1>5. /\ v.mp = w.mp /\ v.tab = w.tab /\ v.broken = w.broken
      /\ \A d \in Devs : v.pv[d] = IF d \in gone THEN NoPath ELSE w.pv[d]
  BY FreeIs
<1> HIDE DEF v
<1>6. u \in StateRec  BY <1>4, OrphanIs
<1>7. /\ u.mp = v.mp /\ u.tab = v.tab /\ u.broken = v.broken
      /\ \A d \in Devs : u.pv[d] = IF d \in mine \ gone THEN [v.pv[d] EXCEPT !.mpp = None]
                                   ELSE v.pv[d]
  BY <1>4, OrphanIs
<1> HIDE DEF u
<1>8. NoMp \in MpRec  BY DEF NoMp, MpRec
<1>9. /\ r \in StateRec /\ r.pv = u.pv /\ r.tab = u.tab /\ r.broken = u.broken
      /\ \A n \in Wwids \ {m} : r.mp[n] = u.mp[n]
      /\ r.mp[m] = NoMp
  BY <1>1, <1>6, <1>8 DEF StateRec
<1>10. \A d \in Devs : r.pv[d] =
              IF w.pv[d].mpp # m THEN w.pv[d]
              ELSE IF w.pv[d].init = "REMOVED" THEN NoPath
              ELSE [w.pv[d] EXCEPT !.mpp = None]
  BY <1>2, <1>3, <1>5, <1>7, <1>9
<1>11. QED  BY <1>5, <1>7, <1>9, <1>10 DEF RemoveMapPost

LEMMA SetupMapIs ==
  ASSUME NEW w \in StateRec, NEW m \in Wwids, NEW r, r = setup_map(w, m)
  PROVE  r \in StateRec /\ SetupMapPost(w, r, m)
BY DEF SetupMapPost, Frame, StateRec, MpRec, setup_map

LEMMA DomapIs ==
  ASSUME NEW w \in StateRec, NEW m \in Wwids, NEW r, r = domap(w, m)
  PROVE  r \in StateRec /\ DomapPost(w, r, m)
<1> DEFINE k == IF w.tab[m] = NoTab THEN 1 ELSE w.mp[m].wait
           Q == w.mp[m].pg
<1>1. r = WithTabWait(w, m, Q, k)  BY DEF domap, WithTabWait
<1>2. k \in 0..2 /\ Q \in TabRec  BY DEF StateRec, MpRec, TabRec
<1> HIDE DEF k, Q
<1>3. Q = w.mp[m].pg  BY DEF Q
<1>4. /\ r \in StateRec /\ r.pv = w.pv /\ r.broken = w.broken
      /\ \A n \in Wwids \ {m} : r.mp[n] = w.mp[n]
      /\ \A n \in Wwids \ {m} : r.tab[n] = w.tab[n]
      /\ r.tab[m] = Q
      /\ r.mp[m].paths = w.mp[m].paths /\ r.mp[m].pg = w.mp[m].pg
      /\ r.mp[m].known = w.mp[m].known
  <2>1. k \in 0..2  BY <1>2
  <2>2. Q \in TabRec  BY <1>2
  <2>3. r \in StateRec  BY <1>1, <2>1, <2>2, SetTabWait
  <2>4. r.pv = w.pv /\ r.broken = w.broken  BY <1>1, <2>1, <2>2, SetTabWait
  <2>5. \A n \in Wwids \ {m} : r.mp[n] = w.mp[n]
    BY <1>1, <2>1, <2>2 DEF WithTabWait, StateRec, MpRec
  <2>6. \A n \in Wwids \ {m} : r.tab[n] = w.tab[n]
    BY <1>1, <2>1, <2>2 DEF WithTabWait, StateRec, MpRec
  <2>7. r.tab[m] = Q /\ r.mp[m].paths = w.mp[m].paths /\ r.mp[m].pg = w.mp[m].pg
        /\ r.mp[m].known = w.mp[m].known
    BY <1>1, <2>1, <2>2, <2>3, SetTabWait
  <2>8. QED  BY <2>4, <2>3, <2>5, <2>6, <2>7
<1>5. QED  BY <1>3, <1>4 DEF DomapPost

LEMMA FromDmIs ==
  ASSUME NEW w \in StateRec, NEW m \in Wwids, NEW o \in Outcomes,
         dev \in [Devs -> WN], w.tab[m] # NoTab,
         NEW r, r = update_pathvec_from_dm(w, m, o)
  PROVE  r \in StateRec /\ \E mine, wrong \in SUBSET Devs : FromDmPost(w, r, m, mine, wrong)
<1> DEFINE T     == w.tab[m]
           other == {d \in T \cap In(w) : w.pv[d].mpp \notin {None, m}}
           new   == {d \in T \ In(w) : dev[d] # None /\ o.fail # "info"}
           found(d) == IF d \in new
                  THEN [init |-> IF o.uid = "no" THEN "MISSING" ELSE "NEW", mpp |-> m,
                        wwid |-> IF o.uid = "yes" THEN dev[d] ELSE None]
                  ELSE [w.pv[d] EXCEPT !.mpp = m]
           mine  == ((T \cap In(w)) \ other) \cup new
           wrong == {d \in mine : found(d).wwid \notin {None, m}}
           f == [d \in Devs |->
                   IF d \in wrong THEN [found(d) EXCEPT !.mpp = None]
                   ELSE IF d \in mine THEN [found(d) EXCEPT !.wwid = m]
                   ELSE w.pv[d]]
<1>1. r = WithPgPv(w, m, mine \ wrong, f)
  BY DEF update_pathvec_from_dm, WithPgPv
<1>2. T \subseteq Devs  BY DEF StateRec, TabRec
<1>3. mine \subseteq T /\ wrong \subseteq mine /\ mine \subseteq Devs
  BY <1>2 DEF In
<1>4. \A d \in mine : IF w.pv[d].init = None THEN d \in new
                      ELSE d \notin new /\ w.pv[d].mpp \in {None, m}
  BY <1>2 DEF In
<1>5. \A d \in new : dev[d] # None /\ dev[d] \in WN /\ d \in Devs  BY <1>2
<1>6. ASSUME NEW d \in Devs
      PROVE  /\ f[d] \in PathRec
             /\ d \notin mine => f[d] = w.pv[d]
             /\ d \in mine \ wrong => /\ f[d].mpp = m /\ f[d].wwid = m
                                      /\ IF w.pv[d].init = None
                                         THEN f[d].init \in {"NEW", "MISSING"}
                                         ELSE /\ f[d].init = w.pv[d].init
                                              /\ w.pv[d].wwid \in {m, None}
             /\ d \in wrong => /\ f[d].mpp = None
                               /\ IF w.pv[d].init = None
                                  THEN /\ f[d].init \in {"NEW", "MISSING"}
                                       /\ f[d].wwid \in {dev[d], None}
                                  ELSE /\ f[d].init = w.pv[d].init
                                       /\ f[d].wwid = w.pv[d].wwid
                                       /\ w.pv[d].wwid \notin {m, None}
  <2>1. w.pv[d] \in PathRec  BY DEF StateRec
  <2>2. CASE d \in mine /\ d \in new
    <3>1. found(d) = [init |-> IF o.uid = "no" THEN "MISSING" ELSE "NEW", mpp |-> m,
                      wwid |-> IF o.uid = "yes" THEN dev[d] ELSE None]
      BY <2>2
    <3>2. f[d] = IF d \in wrong THEN [found(d) EXCEPT !.mpp = None]
                 ELSE [found(d) EXCEPT !.wwid = m]
      BY <2>2
    <3>3. w.pv[d].init = None  BY <2>2 DEF In
    <3>4. dev[d] \in WN  BY <1>5, <2>2
    <3>5. wrong \subseteq mine  BY <1>3
    <3> HIDE DEF found, f, wrong, mine
    <3>6. QED  BY <2>2, <3>1, <3>2, <3>3, <3>4, <3>5 DEF PathRec, Inits, WN
  <2>3. CASE d \in mine /\ d \notin new
    <3>1. found(d) = [w.pv[d] EXCEPT !.mpp = m]  BY <2>3
    <3>2. f[d] = IF d \in wrong THEN [found(d) EXCEPT !.mpp = None]
                 ELSE [found(d) EXCEPT !.wwid = m]
      BY <2>3
    <3>3. d \in wrong <=> found(d).wwid \notin {None, m}  BY <2>3
    <3>4. w.pv[d].init # None  BY <1>4, <2>3
    <3> HIDE DEF found, f, wrong, mine
    <3>5. QED  BY <2>1, <2>3, <3>1, <3>2, <3>3, <3>4, ZenonT(60) DEF PathRec, WN
  <2>4. CASE d \notin mine
    <3>1. f[d] = w.pv[d] /\ d \notin wrong  BY <2>4
    <3>2. QED  BY <2>1, <2>4, <3>1
  <2>5. QED  BY <2>2, <2>3, <2>4
<1>7. f \in [Devs -> PathRec]
  <2>1. \A d \in Devs : f[d] \in PathRec  BY <1>6
  <2>2. QED  BY <2>1
<1>8. mine \ wrong \subseteq Devs  BY <1>3
<1>9. \A d \in mine : IF w.pv[d].init = None THEN dev[d] # None
                      ELSE w.pv[d].mpp \in {None, m}
  BY <1>4, <1>5
<1> HIDE DEF f, wrong, mine, new, other, found
<1>10. /\ r \in StateRec /\ r.pv = f /\ r.tab = w.tab /\ r.broken = w.broken
       /\ \A n \in Wwids \ {m} : r.mp[n] = w.mp[n]
       /\ r.mp[m].paths = w.mp[m].paths /\ r.mp[m].pg = mine \ wrong
       /\ r.mp[m].known = w.mp[m].known /\ r.mp[m].wait = w.mp[m].wait
  BY <1>1, <1>7, <1>8, SetPgPv
<1>11. FromDmPost(w, r, m, mine, wrong)  BY <1>3, <1>6, <1>9, <1>10 DEF FromDmPost, Frame
<1>12. QED  BY <1>3, <1>10, <1>11

LEMMA SyncIs ==
  ASSUME NEW w \in StateRec, NEW m \in Wwids, NEW r, r = sync_paths(w, m),
         w.mp[m].pg \subseteq In(w)
  PROVE  r \in StateRec /\ SyncPost(w, r, m)
<1> DEFINE P    == w.mp[m].paths
           pg   == w.mp[m].pg
           v    == orphan_path(w, P \ pg)
           gone == {d \in In(v) : v.pv[d].init = "REMOVED" /\ v.pv[d].mpp = m /\ d \notin pg}
           x    == free_path(v, gone)
           y    == WithPaths(x, m, x.mp[m].paths \cap pg)
           u    == update_mpp_paths(y, m)
           f    == [d \in Devs |-> IF d \in u.mp[m].paths
                                   THEN [u.pv[d] EXCEPT !.mpp = m] ELSE u.pv[d]]
<1>1. r = WithPv(u, f)  BY DEF sync_paths, WithPv, WithPaths
<1>2. v \in StateRec  BY OrphanIs
<1>3. /\ v.mp = w.mp /\ v.tab = w.tab /\ v.broken = w.broken
      /\ \A d \in Devs : v.pv[d] = IF d \in P \ pg THEN [w.pv[d] EXCEPT !.mpp = None]
                                   ELSE w.pv[d]
  BY OrphanIs
<1> HIDE DEF v
<1>4. x \in StateRec  BY <1>2, FreeIs
<1>5. /\ x.mp = v.mp /\ x.tab = v.tab /\ x.broken = v.broken
      /\ \A d \in Devs : x.pv[d] = IF d \in gone THEN NoPath ELSE v.pv[d]
  BY <1>2, FreeIs
<1>6. \A d \in Devs : w.pv[d] \in PathRec /\ v.pv[d] \in PathRec
  BY <1>2 DEF StateRec
<1>7. \A d \in Devs : d \in gone <=> /\ d \notin pg /\ d \notin P
                                     /\ w.pv[d].init = "REMOVED" /\ w.pv[d].mpp = m
  <2> TAKE d \in Devs
  <2>1. d \in gone <=> v.pv[d].init = "REMOVED" /\ v.pv[d].mpp = m /\ d \notin pg
    BY DEF In, None
  <2>2. w.pv[d] \in PathRec  BY <1>6
  <2>3. v.pv[d] = IF d \in P \ pg THEN [w.pv[d] EXCEPT !.mpp = None] ELSE w.pv[d]  BY <1>3
  <2> HIDE DEF gone, P, pg
  <2>4. QED  BY <2>1, <2>2, <2>3, MapsAssumption DEF PathRec
<1> HIDE DEF x, gone
<1>8. P \subseteq Devs /\ pg \subseteq Devs  BY DEF StateRec, MpRec
<1>9. y \in StateRec
  <2>1. x.mp[m].paths \cap pg \subseteq Devs  BY <1>8
  <2>2. QED  BY <1>4, <2>1, SetPaths
<1>10. /\ y.pv = x.pv /\ y.tab = x.tab /\ y.broken = x.broken
       /\ \A n \in Wwids \ {m} : y.mp[n] = x.mp[n]
       /\ y.mp[m].paths = x.mp[m].paths \cap pg /\ y.mp[m].pg = x.mp[m].pg
       /\ y.mp[m].known = x.mp[m].known /\ y.mp[m].wait = x.mp[m].wait
  <2>1. x.mp[m].paths \cap pg \subseteq Devs  BY <1>8
  <2>2. QED  BY <1>4, <2>1, SetPaths
<1> HIDE DEF y
<1>11. u \in StateRec  BY <1>9, UpdatePathsIs DEF UpdatePathsPost, Frame
<1>12. /\ u.pv = y.pv /\ u.tab = y.tab /\ u.broken = y.broken
       /\ \A n \in Wwids \ {m} : u.mp[n] = y.mp[n]
       /\ u.mp[m].paths =
            y.mp[m].paths \cup {d \in y.mp[m].pg \cap In(y) : y.pv[d].init # "REMOVED"}
       /\ u.mp[m].pg = y.mp[m].pg /\ u.mp[m].known = y.mp[m].known
       /\ u.mp[m].wait = y.mp[m].wait
  BY <1>9, UpdatePathsIs DEF UpdatePathsPost, Frame
<1> HIDE DEF u
<1>13. f \in [Devs -> PathRec]
  <2>1. ASSUME NEW d \in Devs
        PROVE  f[d] \in PathRec
    <3>1. u.pv[d] \in PathRec  BY <1>11 DEF StateRec
    <3>2. QED  BY <3>1 DEF PathRec, WN
  <2>2. QED  BY <2>1
<1>14. \A d \in Devs : f[d] = IF d \in u.mp[m].paths
                              THEN [u.pv[d] EXCEPT !.mpp = m] ELSE u.pv[d]
  OBVIOUS
<1> HIDE DEF f
<1>15. /\ r \in StateRec /\ r.pv = f /\ r.tab = u.tab /\ r.broken = u.broken
       /\ r.mp = u.mp
  BY <1>1, <1>11, <1>13, SetPv
<1>16. /\ y.mp[m].paths = P \cap pg /\ y.mp[m].pg = pg
  BY <1>3, <1>5, <1>10
<1>17. \A d \in Devs : d \in pg => /\ y.pv[d] = w.pv[d] /\ d \in In(y)
  <2> TAKE d \in Devs
  <2>1. d \in pg => y.pv[d] = w.pv[d]  BY <1>3, <1>5, <1>7, <1>10, ZenonT(60)
  <2>2. d \in pg => w.pv[d].init # None  BY DEF In
  <2>3. QED  BY <2>1, <2>2 DEF In
<1>18. u.mp[m].paths = (P \cap pg) \cup {d \in pg : w.pv[d].init # "REMOVED"}
  BY <1>8, <1>12, <1>16, <1>17
<1>19. \A d \in Devs : y.pv[d] =
              IF d \in pg THEN w.pv[d]
              ELSE IF d \in P THEN [w.pv[d] EXCEPT !.mpp = None]
              ELSE IF w.pv[d].init = "REMOVED" /\ w.pv[d].mpp = m THEN NoPath
              ELSE w.pv[d]
  BY <1>3, <1>5, <1>7, <1>10
<1>20. \A d \in Devs : d \in u.mp[m].paths => d \in pg  BY <1>18
<1>21. \A d \in Devs : r.pv[d] =
              IF d \in u.mp[m].paths THEN [w.pv[d] EXCEPT !.mpp = m]
              ELSE IF d \in pg THEN w.pv[d]
              ELSE IF d \in P THEN [w.pv[d] EXCEPT !.mpp = None]
              ELSE IF w.pv[d].init = "REMOVED" /\ w.pv[d].mpp = m THEN NoPath
              ELSE w.pv[d]
  <2> TAKE d \in Devs
  <2>1. r.pv[d] = IF d \in u.mp[m].paths THEN [y.pv[d] EXCEPT !.mpp = m] ELSE y.pv[d]
    BY <1>12, <1>14, <1>15
  <2>2. CASE d \in u.mp[m].paths
    <3>1. y.pv[d] = w.pv[d]  BY <2>2, <1>19, <1>20
    <3>2. QED  BY <2>1, <2>2, <3>1
  <2>3. CASE d \notin u.mp[m].paths
    BY <2>1, <2>3, <1>19
  <2>4. QED  BY <2>2, <2>3
<1>22. \A n \in Wwids \ {m} : r.mp[n] = w.mp[n]
  BY <1>3, <1>5, <1>10, <1>12, <1>15
<1>23. r.tab = w.tab /\ r.broken = w.broken
  BY <1>3, <1>5, <1>10, <1>12, <1>15
<1>24. r.mp[m].known = w.mp[m].known /\ r.mp[m].wait = w.mp[m].wait
  BY <1>3, <1>5, <1>10, <1>12, <1>15
<1>25. r.mp[m].pg = pg  BY <1>12, <1>15, <1>16
<1>26. QED  BY <1>15, <1>18, <1>21, <1>22, <1>23, <1>24, <1>25 DEF SyncPost, Frame

(***************************************************************************)
(* The inductive invariant and what operators preserve                     *)
(***************************************************************************)
\* The tables, as far as types and the pointers from paths to maps go: a slot of
\* pathvec without a path is empty, the map of a path is in mpvec, and a WWID
\* without a map has no remains of one.
Good(w) ==
  /\ w \in StateRec
  /\ \A d \in Devs : w.pv[d].init = None => w.pv[d] = NoPath
  /\ \A d \in Devs : w.pv[d].mpp # None => w.mp[w.pv[d].mpp].known
  /\ \A m \in Wwids : ~w.mp[m].known => w.mp[m] = NoMp

\* The paths and path groups of a map hold its own paths, of its own WWID or a
\* WWID that is not known yet, and mpp->paths no removed path. This is what
\* TablesSound needs to be inductive: a path that is in a path group only can
\* become a member of mpp->paths again.
Own(w) == \A m \in Wwids : \A d \in w.mp[m].paths \cup w.mp[m].pg : w.pv[d].mpp = m
Named(w) == \A m \in Wwids : \A d \in w.mp[m].paths \cup w.mp[m].pg :
               w.pv[d].init # "REMOVED" => w.pv[d].wwid \in {m, None}
Here(w) == \A m \in Wwids : \A d \in w.mp[m].paths : w.pv[d].init # "REMOVED"
Sound(w) == Own(w) /\ Named(w) /\ Here(w)

\* A path that is there and has a WWID keeps its state and its WWID.
LiveKept(w, r) ==
  \A d \in Devs : /\ dev[d] # None /\ w.pv[d].init \notin {None, "REMOVED"}
                  /\ w.pv[d].wwid # None
                  => r.pv[d].init = w.pv[d].init /\ r.pv[d].wwid = w.pv[d].wwid

\* An operator on the map m changes no other map or table, and gives no path to
\* another map.
Local(w, r, m) ==
  /\ r.broken = w.broken
  /\ \A n \in Wwids \ {m} : r.mp[n] = w.mp[n]
  /\ \A n \in Wwids \ {m} : r.tab[n] = w.tab[n]
  /\ \A d \in Devs : r.pv[d].mpp \in {None, m, w.pv[d].mpp}

Touches(w, r, m) == Local(w, r, m) /\ LiveKept(w, r)

\* Paths of other maps stay as they are, unless they have the WWID of m.
OthersKept(w, r, m) ==
  \A d \in Devs : \/ r.pv[d] = w.pv[d]
                  \/ w.pv[d].mpp \in {m, None}
                  \/ w.pv[d].init # "REMOVED" /\ w.pv[d].wwid = m

\* The LUNs that something connects a device with, in the state w (Luns)
LunsOf(w, d) ==
  ({dev[d], w.pv[d].wwid, w.pv[d].mpp} \ {None})
  \cup {m \in Wwids : d \in w.tab[m] \cup w.mp[m].paths \cup w.mp[m].pg}

\* No device is connected with another LUN than before.
NoNew(w, r) == \A d \in Devs : LunsOf(r, d) \subseteq LunsOf(w, d)

\* The operator on m leaves the devices alone that nothing connects with m.
Kin(w, r, m) == NoNew(w, r) /\ \A d \in Devs : m \notin LunsOf(w, d) => r.pv[d] = w.pv[d]

\* What every operator on the map m preserves
Keeps(w, r, m) ==
  /\ Good(r) /\ Touches(w, r, m) /\ Kin(w, r, m)
  /\ Sound(w) => Sound(r) /\ OthersKept(w, r, m)

\* These relations compose.
LEMMA KinTrans ==
  ASSUME NEW w, NEW r, NEW q, NEW m, Kin(w, r, m), Kin(r, q, m)
  PROVE  Kin(w, q, m)
<1>1. NoNew(w, q)  BY DEF Kin, NoNew
<1>2. ASSUME NEW d \in Devs, m \notin LunsOf(w, d)
      PROVE  q.pv[d] = w.pv[d]
  <2>1. m \notin LunsOf(r, d)  BY <1>2 DEF Kin, NoNew
  <2>2. QED  BY <1>2, <2>1 DEF Kin
<1>3. QED  BY <1>1, <1>2 DEF Kin

LEMMA KinSelf == ASSUME NEW w, NEW m PROVE Kin(w, w, m)
BY DEF Kin, NoNew

\* What is enough for an operator on the map m
LEMMA KinKept ==
  ASSUME NEW w, NEW r, NEW m \in Wwids,
         \A n \in Wwids \ {m} : r.mp[n] = w.mp[n],
         \A n \in Wwids \ {m} : r.tab[n] = w.tab[n],
         \A d \in Devs : d \in r.tab[m] \cup r.mp[m].paths \cup r.mp[m].pg
                         => m \in LunsOf(w, d),
         \A d \in Devs : \/ r.pv[d] = w.pv[d]
                         \/ /\ m \in LunsOf(w, d)
                            /\ r.pv[d].wwid \in LunsOf(w, d) \cup {None}
                            /\ r.pv[d].mpp \in LunsOf(w, d) \cup {None}
  PROVE  Kin(w, r, m)
<1>1. ASSUME NEW d \in Devs PROVE LunsOf(r, d) \subseteq LunsOf(w, d)
  <2> SUFFICES ASSUME NEW a \in LunsOf(r, d) PROVE a \in LunsOf(w, d)  OBVIOUS
  <2>1. CASE a = dev[d] /\ a # None  BY <2>1 DEF LunsOf
  <2>2. CASE a \in {r.pv[d].wwid, r.pv[d].mpp} /\ a # None
    <3>1. CASE r.pv[d] = w.pv[d]  BY <2>2, <3>1 DEF LunsOf
    <3>2. CASE r.pv[d] # w.pv[d]  BY <2>2, <3>2
    <3>3. QED  BY <3>1, <3>2
  <2>3. CASE a \in Wwids /\ d \in r.tab[a] \cup r.mp[a].paths \cup r.mp[a].pg
    <3>1. CASE a = m  BY <2>3, <3>1
    <3>2. CASE a # m
      <4>1. r.mp[a] = w.mp[a] /\ r.tab[a] = w.tab[a]  BY <2>3, <3>2
      <4>2. QED  BY <2>3, <4>1 DEF LunsOf
    <3>3. QED  BY <3>1, <3>2
  <2>4. QED  BY <2>1, <2>2, <2>3 DEF LunsOf
<1>2. QED  BY <1>1 DEF Kin, NoNew

\* What is enough for a change of struct paths
LEMMA PathsNoNew ==
  ASSUME NEW w, NEW r, r.mp = w.mp, r.tab = w.tab,
         \A d \in Devs : \/ r.pv[d] = w.pv[d]
                         \/ /\ r.pv[d].wwid \in LunsOf(w, d) \cup {None}
                            /\ r.pv[d].mpp \in LunsOf(w, d) \cup {None}
  PROVE  NoNew(w, r)
<1>1. ASSUME NEW d \in Devs, NEW a \in LunsOf(r, d) PROVE a \in LunsOf(w, d)
  <2>1. \/ a = dev[d] /\ a # None
        \/ a \in {r.pv[d].wwid, r.pv[d].mpp} /\ a # None
        \/ a \in Wwids /\ d \in w.tab[a] \cup w.mp[a].paths \cup w.mp[a].pg
    BY <1>1 DEF LunsOf
  <2>2. CASE a \in {r.pv[d].wwid, r.pv[d].mpp} /\ a # None
    <3>1. CASE r.pv[d] = w.pv[d]  BY <2>2, <3>1 DEF LunsOf
    <3>2. CASE r.pv[d] # w.pv[d]  BY <2>2, <3>2
    <3>3. QED  BY <3>1, <3>2
  <2>3. QED  BY <2>1, <2>2 DEF LunsOf
<1>2. QED  BY <1>1 DEF NoNew

LEMMA NoNewTrans ==
  ASSUME NEW w, NEW r, NEW q, NoNew(w, r), NoNew(r, q)
  PROVE  NoNew(w, q)
BY DEF NoNew

\* What connects a device with a LUN
LEMMA LunsHas ==
  ASSUME NEW w, NEW d
  PROVE  /\ w.pv[d].wwid \in LunsOf(w, d) \cup {None}
         /\ w.pv[d].mpp \in LunsOf(w, d) \cup {None}
         /\ dev[d] \in LunsOf(w, d) \cup {None}
         /\ \A m \in Wwids : d \in w.tab[m] \cup w.mp[m].paths \cup w.mp[m].pg
                             => m \in LunsOf(w, d)
BY DEF LunsOf

LEMMA TouchesTrans ==
  ASSUME NEW w, NEW r, NEW q, NEW m, Touches(w, r, m), Touches(r, q, m)
  PROVE  Touches(w, q, m)
BY DEF Touches, Local, LiveKept

LEMMA TouchesSelf == ASSUME NEW w, NEW m PROVE Touches(w, w, m)
BY DEF Touches, Local, LiveKept

LEMMA KeepsTrans ==
  ASSUME NEW w, NEW r, NEW q, NEW m, Keeps(w, r, m), Keeps(r, q, m)
  PROVE  Keeps(w, q, m)
BY TouchesTrans, KinTrans DEF Keeps, OthersKept

LEMMA KeepsSelf == ASSUME NEW w, Good(w), NEW m PROVE Keeps(w, w, m)
BY TouchesSelf, KinSelf DEF Keeps, OthersKept

\* What Good says of the parts of the state
LEMMA GoodFacts ==
  ASSUME NEW w, Good(w)
  PROVE  /\ w \in StateRec
         /\ \A d \in Devs : w.pv[d] \in PathRec
         /\ \A m \in Wwids : w.mp[m] \in MpRec /\ w.tab[m] \in TabRec
         /\ \A d \in Devs : w.pv[d].init = None => w.pv[d] = NoPath
         /\ \A d \in Devs : w.pv[d].mpp # None => w.pv[d].mpp \in Wwids /\ w.mp[w.pv[d].mpp].known
         /\ \A m \in Wwids : ~w.mp[m].known => w.mp[m] = NoMp
BY DEF Good, StateRec, PathRec, WN

\* A change of the map m and of paths of m that keeps Good
GoodChange(w, r, m) ==
  /\ w.mp[m].known /\ r.mp[m].known
  /\ \A n \in Wwids \ {m} : r.mp[n] = w.mp[n]
  /\ \A d \in Devs : r.pv[d].init = None => r.pv[d] = NoPath
  /\ \A d \in Devs : r.pv[d].mpp \in {None, m, w.pv[d].mpp}

LEMMA GoodKept ==
  ASSUME NEW w, Good(w), NEW m \in Wwids, NEW r, r \in StateRec, GoodChange(w, r, m)
  PROVE  Good(r)
<1>1. \A n \in Wwids : w.mp[n].known => r.mp[n].known  BY DEF GoodChange
<1>2. \A d \in Devs : r.pv[d].mpp # None => r.mp[r.pv[d].mpp].known
  BY <1>1, GoodFacts DEF GoodChange
<1>3. \A n \in Wwids : ~r.mp[n].known => r.mp[n] = NoMp  BY GoodFacts DEF GoodChange
<1>4. QED  BY <1>2, <1>3 DEF Good, GoodChange

\* Sound, for the map m
MineSound(r, m) ==
  /\ \A d \in r.mp[m].paths \cup r.mp[m].pg :
        r.pv[d].mpp = m /\ (r.pv[d].init # "REMOVED" => r.pv[d].wwid \in {m, None})
  /\ \A d \in r.mp[m].paths : r.pv[d].init # "REMOVED"

LEMMA SoundIs ==
  ASSUME NEW w
  PROVE  Sound(w) <=> \A m \in Wwids : MineSound(w, m)
BY DEF Sound, Own, Named, Here, MineSound

LEMMA SoundKept ==
  ASSUME NEW w, w \in StateRec, Sound(w), NEW m \in Wwids, NEW r,
         \A n \in Wwids \ {m} : r.mp[n] = w.mp[n],
         OthersKept(w, r, m), MineSound(r, m)
  PROVE  Sound(r)
<1> SUFFICES ASSUME NEW n \in Wwids, n # m
             PROVE  MineSound(r, n)
  BY SoundIs
<1>1. MineSound(w, n)  BY SoundIs
<1>2. r.mp[n] = w.mp[n]  OBVIOUS
<1>3. ASSUME NEW d \in w.mp[n].paths \cup w.mp[n].pg
      PROVE  r.pv[d] = w.pv[d]
  <2>1. w.mp[n] \in MpRec  BY DEF StateRec
  <2>2. d \in Devs  BY <2>1 DEF MpRec
  <2>3. w.pv[d].mpp = n /\ (w.pv[d].init # "REMOVED" => w.pv[d].wwid \in {n, None})
    BY <1>1 DEF MineSound
  <2>4. QED  BY <2>2, <2>3, MapsAssumption DEF OthersKept
<1>4. QED  BY <1>1, <1>2, <1>3 DEF MineSound

LEMMA MineFacts ==
  ASSUME NEW w, Good(w), Sound(w), NEW m \in Wwids
  PROVE  /\ MineSound(w, m)
         /\ w.mp[m].paths \subseteq Devs /\ w.mp[m].pg \subseteq Devs
         /\ w.mp[m].paths \cup w.mp[m].pg \subseteq In(w)
<1>1. MineSound(w, m)  BY SoundIs
<1>2. w.mp[m].paths \subseteq Devs /\ w.mp[m].pg \subseteq Devs  BY GoodFacts DEF MpRec
<1>3. w.mp[m].paths \cup w.mp[m].pg \subseteq In(w)
  BY <1>1, <1>2, GoodFacts, MapsAssumption DEF MineSound, In, NoPath
<1>4. QED  BY <1>1, <1>2, <1>3

\* The paths that are there stay in their state
Clean(w, r) ==
  \A d \in Devs : w.pv[d].init \notin {None, "REMOVED"} => r.pv[d].init = w.pv[d].init

\* What is loaded into a table has not been removed
Loads(w, r) ==
  \A m \in Wwids, d \in Devs :
     d \in r.tab[m] /\ d \notin w.tab[m] => r.pv[d].init \notin {None, "REMOVED"}

\* Paths that stay so twice stay so.
LEMMA CleanTrans ==
  ASSUME NEW w, NEW r, NEW q, Clean(w, r), Clean(r, q)
  PROVE  Clean(w, q)
BY DEF Clean

(***************************************************************************)
(* The operators                                                           *)
(***************************************************************************)
\* What the operators of structs_vec.c and configure.c preserve: update_mpp_paths(),
\* adopt_paths(), verify_paths(), remove_map(), setup_map() and domap()
LEMMA UpdatePathsKeeps ==
  ASSUME NEW w, Good(w), NEW m \in Wwids, w.mp[m].known,
         NEW r, r = update_mpp_paths(w, m)
  PROVE  /\ Keeps(w, r, m) /\ r.mp[m].known /\ r.tab = w.tab /\ r.pv = w.pv
<1>1. w \in StateRec  BY DEF Good
<1>2. r \in StateRec /\ UpdatePathsPost(w, r, m)  BY <1>1, UpdatePathsIs
<1>3. Good(r)
  <2>1. GoodChange(w, r, m)  BY <1>2, GoodFacts DEF GoodChange, UpdatePathsPost, Frame
  <2>2. QED  BY <1>2, <2>1, GoodKept
<1>4. Touches(w, r, m)  BY <1>2 DEF Touches, Local, LiveKept, UpdatePathsPost, Frame
<1>5. Sound(w) => Sound(r) /\ OthersKept(w, r, m)
  <2>1. OthersKept(w, r, m)  BY <1>2 DEF OthersKept, UpdatePathsPost, Frame
  <2>2. QED  BY <1>1, <1>2, <2>1, SoundKept, SoundIs DEF MineSound, UpdatePathsPost, Frame
<1>6. Kin(w, r, m)  BY <1>2, KinKept, LunsHas DEF UpdatePathsPost, Frame
<1>7. QED  BY <1>6, <1>2, <1>3, <1>4, <1>5 DEF Keeps, UpdatePathsPost, Frame

LEMMA AdoptKeeps ==
  ASSUME NEW w, Good(w), NEW m \in Wwids, w.mp[m].known,
         NEW r, r = adopt_paths(w, m)
  PROVE  /\ Keeps(w, r, m) /\ r.mp[m].known /\ r.tab = w.tab
<1>1. w \in StateRec  BY DEF Good
<1>2. r \in StateRec /\ AdoptPost(w, r, m)  BY <1>1, AdoptIs
<1>3. \A d \in Devs : r.pv[d].init = None => r.pv[d] = NoPath
  BY <1>2, GoodFacts DEF In, AdoptPost
<1>4. Good(r)
  <2>1. GoodChange(w, r, m)  BY <1>2, <1>3 DEF GoodChange, AdoptPost, Frame
  <2>2. QED  BY <1>2, <2>1, GoodKept
<1>5. Touches(w, r, m)  BY <1>2 DEF Touches, Local, LiveKept, In, AdoptPost, Frame
<1>6. ASSUME Sound(w) PROVE Sound(r) /\ OthersKept(w, r, m)
  <2>1. MineSound(r, m)
    BY <1>1, <1>2, <1>6, MineFacts DEF MineSound, In, AdoptPost, Frame
  <2>2. OthersKept(w, r, m)  BY <1>2 DEF OthersKept, AdoptPost
  <2>3. QED  BY <1>1, <1>2, <1>6, <2>1, <2>2, SoundKept DEF AdoptPost, Frame
<1>7. Kin(w, r, m)
  <2>1. \A d \in Devs : d \in r.mp[m].paths \cup r.mp[m].pg => m \in LunsOf(w, d)
    BY <1>2, LunsHas, MapsAssumption DEF AdoptPost
  <2>2. \A d \in Devs : \/ r.pv[d] = w.pv[d]
                        \/ /\ m \in LunsOf(w, d)
                           /\ r.pv[d].wwid \in LunsOf(w, d) \cup {None}
                           /\ r.pv[d].mpp \in LunsOf(w, d) \cup {None}
    <3> TAKE d \in Devs
    <3>1. \/ r.pv[d] = w.pv[d]
          \/ w.pv[d].wwid = m /\ r.pv[d].mpp = m /\ r.pv[d].wwid \in {m, None}
      BY <1>2 DEF AdoptPost
    <3>2. w.pv[d].wwid = m => m \in LunsOf(w, d)  BY LunsHas, MapsAssumption
    <3>3. QED  BY <3>1, <3>2
  <2>3. QED  BY <1>2, <2>1, <2>2, KinKept, LunsHas DEF AdoptPost, Frame
<1>8. QED  BY <1>7, <1>2, <1>4, <1>5, <1>6 DEF Keeps, AdoptPost, Frame

LEMMA VerifyKeeps ==
  ASSUME NEW w, Good(w), NEW m \in Wwids, w.mp[m].known,
         NEW r, r = verify_paths(w, m)
  PROVE  /\ Keeps(w, r, m) /\ r.mp[m].known /\ r.tab = w.tab
<1>1. w \in StateRec  BY DEF Good
<1>2. r \in StateRec /\ VerifyPost(w, r, m)  BY <1>1, VerifyIs
<1> DEFINE lost(d) == d \in w.mp[m].paths /\ dev[d] = None /\ w.pv[d].mpp # None
<1>3. \A d \in Devs : /\ ~lost(d) => r.pv[d] = w.pv[d]
                      /\ lost(d) => /\ r.pv[d].init = "REMOVED"
                                    /\ r.pv[d].mpp = w.pv[d].mpp
                                    /\ r.pv[d].wwid = w.pv[d].wwid
  <2> TAKE d \in Devs
  <2>1. w.pv[d] \in PathRec  BY GoodFacts
  <2>2. r.pv[d] = IF lost(d) THEN [w.pv[d] EXCEPT !.init = "REMOVED"] ELSE w.pv[d]
    BY <1>2 DEF VerifyPost
  <2>3. QED  BY <2>1, <2>2 DEF PathRec
<1>4. \A d \in Devs : lost(d) => d \in w.mp[m].paths /\ dev[d] = None /\ w.pv[d].mpp # None
  OBVIOUS
<1> HIDE DEF lost
<1>5. \A d \in Devs : r.pv[d].init = None => r.pv[d] = NoPath
  BY <1>3, GoodFacts DEF None
<1>6. Good(r)
  <2>1. GoodChange(w, r, m)  BY <1>2, <1>5, <1>3 DEF GoodChange, VerifyPost, Frame
  <2>2. QED  BY <1>2, <2>1, GoodKept
<1>7. Touches(w, r, m)  BY <1>2, <1>3, <1>4 DEF Touches, Local, LiveKept, VerifyPost, Frame
<1>8. ASSUME Sound(w) PROVE Sound(r) /\ OthersKept(w, r, m)
  <2>1. MineSound(r, m)
    <3>1. MineSound(w, m)  BY <1>8, MineFacts
    <3>2. r.mp[m].paths = {d \in w.mp[m].paths : dev[d] # None} /\ r.mp[m].pg = w.mp[m].pg
      BY <1>2 DEF VerifyPost
    <3>3. w.mp[m].paths \subseteq Devs /\ w.mp[m].pg \subseteq Devs  BY <1>8, MineFacts
    <3>4. QED  BY <1>3, <1>4, <3>1, <3>2, <3>3 DEF MineSound
  <2>2. OthersKept(w, r, m)
    BY <1>3, <1>4, <1>8, MineFacts DEF OthersKept, MineSound
  <2>3. QED  BY <1>1, <1>2, <1>8, <2>1, <2>2, SoundKept DEF VerifyPost, Frame
<1>9. Kin(w, r, m)
  <2>1. r.mp[m].paths \subseteq w.mp[m].paths /\ r.mp[m].pg = w.mp[m].pg
    BY <1>2 DEF VerifyPost
  <2>2. \A d \in Devs : \/ r.pv[d] = w.pv[d]
                        \/ /\ m \in LunsOf(w, d)
                           /\ r.pv[d].wwid \in LunsOf(w, d) \cup {None}
                           /\ r.pv[d].mpp \in LunsOf(w, d) \cup {None}
    BY <1>3, <1>4, LunsHas
  <2>3. QED  BY <1>2, <2>1, <2>2, KinKept, LunsHas DEF VerifyPost, Frame
<1>10. QED  BY <1>9, <1>2, <1>6, <1>7, <1>8 DEF Keeps, VerifyPost, Frame

LEMMA RemoveMapKeeps ==
  ASSUME NEW w, Good(w), NEW m \in Wwids,
         NEW r, r = remove_map(w, m)
  PROVE  /\ Keeps(w, r, m) /\ r.mp[m] = NoMp /\ r.tab = w.tab
         /\ \A d \in Devs : r.pv[d].mpp # m
         /\ Clean(w, r)
<1>1. w \in StateRec  BY DEF Good
<1>2. r \in StateRec /\ RemoveMapPost(w, r, m)  BY <1>1, GoodFacts, RemoveMapIs
<1>3. \A d \in Devs :
         \/ w.pv[d].mpp # m /\ r.pv[d] = w.pv[d]
         \/ w.pv[d].mpp = m /\ w.pv[d].init = "REMOVED" /\ r.pv[d] = NoPath
         \/ /\ w.pv[d].mpp = m /\ r.pv[d].mpp = None
            /\ r.pv[d].init = w.pv[d].init /\ r.pv[d].wwid = w.pv[d].wwid
  <2> TAKE d \in Devs
  <2>1. w.pv[d] \in PathRec  BY GoodFacts
  <2>2. r.pv[d] = IF w.pv[d].mpp # m THEN w.pv[d]
                  ELSE IF w.pv[d].init = "REMOVED" THEN NoPath
                  ELSE [w.pv[d] EXCEPT !.mpp = None]
    BY <1>2 DEF RemoveMapPost
  <2>3. QED  BY <2>1, <2>2 DEF PathRec
<1>4. NoPath.mpp = None  BY DEF NoPath
<1>5. \A d \in Devs : r.pv[d].init = None => r.pv[d] = NoPath
  BY <1>3, <1>4, GoodFacts, MapsAssumption
<1>6. \A d \in Devs : r.pv[d].mpp # m /\ r.pv[d].mpp \in {None, w.pv[d].mpp}
  BY <1>3, <1>4, MapsAssumption
<1>7. Good(r)
  <2>1. \A n \in Wwids : n # m /\ w.mp[n].known => r.mp[n].known
    BY <1>2 DEF RemoveMapPost
  <2>2. \A d \in Devs : r.pv[d].mpp # None => r.mp[r.pv[d].mpp].known
    BY <1>6, <2>1, GoodFacts
  <2>3. \A n \in Wwids : ~r.mp[n].known => r.mp[n] = NoMp
    BY <1>2, GoodFacts DEF RemoveMapPost
  <2>4. QED  BY <1>2, <1>5, <2>2, <2>3 DEF Good
<1>8. Touches(w, r, m)
  BY <1>2, <1>6, <1>3 DEF Touches, Local, LiveKept, RemoveMapPost
<1>9. ASSUME Sound(w) PROVE Sound(r) /\ OthersKept(w, r, m)
  <2>1. MineSound(r, m)  BY <1>2 DEF MineSound, RemoveMapPost, NoMp
  <2>2. OthersKept(w, r, m)  BY <1>3 DEF OthersKept
  <2>3. QED  BY <1>1, <1>2, <1>9, <2>1, <2>2, SoundKept DEF RemoveMapPost
<1>10. Kin(w, r, m)
  <2>1. \A d \in Devs : \/ r.pv[d] = w.pv[d]
                        \/ /\ m \in LunsOf(w, d)
                           /\ r.pv[d].wwid \in LunsOf(w, d) \cup {None}
                           /\ r.pv[d].mpp \in LunsOf(w, d) \cup {None}
    <3> TAKE d \in Devs
    <3>1. w.pv[d].mpp = m => m \in LunsOf(w, d)  BY LunsHas, MapsAssumption
    <3>2. NoPath.wwid = None  BY DEF NoPath
    <3>3. QED  BY <1>3, <1>4, <3>1, <3>2, LunsHas
  <2>2. r.mp[m].paths = {} /\ r.mp[m].pg = {}  BY <1>2 DEF RemoveMapPost, NoMp
  <2>3. QED  BY <1>2, <2>1, <2>2, KinKept, LunsHas DEF RemoveMapPost
<1>11. Clean(w, r)  BY <1>3 DEF Clean
<1>12. QED  BY <1>10, <1>2, <1>6, <1>7, <1>8, <1>9, <1>11 DEF Keeps, RemoveMapPost

LEMMA SetupMapKeeps ==
  ASSUME NEW w, Good(w), NEW m \in Wwids, w.mp[m].known,
         NEW r, r = setup_map(w, m)
  PROVE  /\ Keeps(w, r, m) /\ r.mp[m].known /\ r.tab = w.tab /\ r.pv = w.pv
<1>1. w \in StateRec  BY DEF Good
<1>2. r \in StateRec /\ SetupMapPost(w, r, m)  BY <1>1, SetupMapIs
<1>3. Good(r)
  <2>1. GoodChange(w, r, m)  BY <1>2, GoodFacts DEF GoodChange, SetupMapPost, Frame
  <2>2. QED  BY <1>2, <2>1, GoodKept
<1>4. Touches(w, r, m)  BY <1>2 DEF Touches, Local, LiveKept, SetupMapPost, Frame
<1>5. Sound(w) => Sound(r) /\ OthersKept(w, r, m)
  <2>1. OthersKept(w, r, m)  BY <1>2 DEF OthersKept, SetupMapPost, Frame
  <2>2. QED  BY <1>1, <1>2, <2>1, SoundKept, SoundIs DEF MineSound, SetupMapPost, Frame
<1>6. Kin(w, r, m)  BY <1>2, KinKept, LunsHas DEF SetupMapPost, Frame
<1>7. QED  BY <1>6, <1>2, <1>3, <1>4, <1>5 DEF Keeps, SetupMapPost, Frame

LEMMA DomapKeeps ==
  ASSUME NEW w, Good(w), NEW m \in Wwids, w.mp[m].known,
         NEW r, r = domap(w, m)
  PROVE  /\ Keeps(w, r, m) /\ r.mp[m].known /\ r.tab[m] # NoTab /\ r.pv = w.pv
<1>1. w \in StateRec  BY DEF Good
<1>2. r \in StateRec /\ DomapPost(w, r, m)  BY <1>1, DomapIs
<1>3. Good(r)
  <2>1. GoodChange(w, r, m)  BY <1>2, GoodFacts DEF GoodChange, DomapPost
  <2>2. QED  BY <1>2, <2>1, GoodKept
<1>4. Touches(w, r, m)  BY <1>2 DEF Touches, Local, LiveKept, DomapPost
<1>5. Sound(w) => Sound(r) /\ OthersKept(w, r, m)
  <2>1. OthersKept(w, r, m)  BY <1>2 DEF OthersKept, DomapPost
  <2>2. QED  BY <1>1, <1>2, <2>1, SoundKept, SoundIs, SMTT(40) DEF MineSound, DomapPost
<1>6. w.mp[m].pg \subseteq Devs  BY <1>1 DEF StateRec, MpRec
<1>7. r.tab[m] # NoTab  BY <1>2, <1>6, MapsAssumption DEF DomapPost, NoTab
<1>8. Kin(w, r, m)  BY <1>2, KinKept, LunsHas DEF DomapPost
<1>9. QED  BY <1>8, <1>2, <1>3, <1>4, <1>5, <1>7 DEF Keeps, DomapPost

\* update_pathvec_from_dm() after disassemble_map(): no path of another map or WWID
\* is in the path groups, and all paths in them are in pathvec.
LEMMA FromDmKeeps ==
  ASSUME NEW w, Good(w), NEW m \in Wwids, w.mp[m].known, NEW o \in Outcomes,
         dev \in [Devs -> WN], w.tab[m] # NoTab,
         NEW r, r = update_pathvec_from_dm(w, m, o)
  PROVE  /\ Keeps(w, r, m) /\ r.mp[m].known /\ r.tab = w.tab
         /\ r.mp[m].pg \subseteq In(r) /\ Clean(w, r)
<1>1. w \in StateRec  BY DEF Good
<1>2. r \in StateRec  BY <1>1, FromDmIs
<1>3. PICK mine, wrong \in SUBSET Devs : FromDmPost(w, r, m, mine, wrong)
  BY <1>1, FromDmIs
<1>4. \A d \in Devs :
         \/ d \notin mine /\ r.pv[d] = w.pv[d]
         \/ /\ d \in mine \ wrong /\ r.pv[d].mpp = m /\ r.pv[d].wwid = m
            /\ r.pv[d].init # None
            /\ w.pv[d].mpp \in {None, m}
            /\ w.pv[d].init # None => r.pv[d].init = w.pv[d].init /\ w.pv[d].wwid \in {m, None}
         \/ /\ d \in wrong /\ r.pv[d].mpp = None
            /\ r.pv[d].init # None
            /\ w.pv[d].mpp \in {None, m}
            /\ w.pv[d].init # None => /\ r.pv[d].init = w.pv[d].init
                                      /\ r.pv[d].wwid = w.pv[d].wwid
                                      /\ w.pv[d].wwid \notin {m, None}
  <2> TAKE d \in Devs
  <2>1. w.pv[d].init = None => w.pv[d].mpp = None  BY GoodFacts DEF NoPath
  <2>2. QED  BY <1>3, <2>1 DEF FromDmPost, None
<1>5. \A d \in Devs : r.pv[d].init = None => r.pv[d] = NoPath  BY <1>4, GoodFacts
<1>6. Good(r)
  <2>1. GoodChange(w, r, m)  BY <1>3, <1>4, <1>5 DEF GoodChange, FromDmPost, Frame
  <2>2. QED  BY <1>2, <2>1, GoodKept
<1>7. Touches(w, r, m)
  <2>1. LiveKept(w, r)  BY <1>4 DEF LiveKept
  <2>2. QED  BY <1>3, <2>1 DEF Touches, Local, FromDmPost, Frame
<1>8. r.mp[m].pg \subseteq In(r)
  <2>1. r.mp[m].pg = mine \ wrong  BY <1>3 DEF FromDmPost
  <2>2. QED  BY <1>4, <2>1 DEF In
<1>9. ASSUME Sound(w) PROVE Sound(r) /\ OthersKept(w, r, m)
  <2>1. MineSound(r, m)
    <3>1. MineSound(w, m)  BY <1>9, MineFacts
    <3>2. r.mp[m].paths = w.mp[m].paths /\ r.mp[m].pg = mine \ wrong
      BY <1>3 DEF FromDmPost
    <3>3. w.mp[m].paths \subseteq Devs /\ w.mp[m].paths \subseteq In(w)  BY <1>9, MineFacts
    <3>4. \A d \in w.mp[m].paths : /\ r.pv[d].mpp = m /\ r.pv[d].wwid \in {m, None}
                                   /\ r.pv[d].init # "REMOVED"
      <4> TAKE d \in w.mp[m].paths
      <4>1. d \in Devs /\ w.pv[d].init # None  BY <3>3 DEF In
      <4>2. w.pv[d].mpp = m /\ w.pv[d].init # "REMOVED" /\ w.pv[d].wwid \in {m, None}
        BY <3>1 DEF MineSound
      <4>3. QED  BY <1>4, <4>1, <4>2
    <3>5. \A d \in mine \ wrong : r.pv[d].mpp = m /\ r.pv[d].wwid = m  BY <1>4, <1>3 DEF FromDmPost
    <3>6. QED  BY <3>2, <3>4, <3>5 DEF MineSound
  <2>2. OthersKept(w, r, m)  BY <1>4 DEF OthersKept
  <2>3. QED  BY <1>1, <1>3, <1>9, <2>1, <2>2, SoundKept DEF FromDmPost, Frame
<1>10. Kin(w, r, m)
  <2>1. mine \subseteq w.tab[m] /\ wrong \subseteq mine  BY <1>3 DEF FromDmPost
  <2>2. \A d \in mine : m \in LunsOf(w, d)  BY <2>1, LunsHas
  <2>3. \A d \in Devs : \/ r.pv[d] = w.pv[d]
                        \/ /\ m \in LunsOf(w, d)
                           /\ r.pv[d].wwid \in LunsOf(w, d) \cup {None}
                           /\ r.pv[d].mpp \in LunsOf(w, d) \cup {None}
    <3> TAKE d \in Devs
    <3>1. CASE d \notin mine  BY <1>4, <2>1, <3>1
    <3>2. CASE d \in mine \ wrong  BY <1>4, <2>2, <3>2
    <3>3. CASE d \in wrong
      <4>1. r.pv[d].wwid \in {dev[d], None, w.pv[d].wwid}  BY <1>3, <3>3 DEF FromDmPost
      <4>2. r.pv[d].mpp = None  BY <1>3, <3>3 DEF FromDmPost
      <4>3. QED  BY <2>1, <2>2, <3>3, <4>1, <4>2, LunsHas
    <3>4. QED  BY <3>1, <3>2, <3>3
  <2>4. r.mp[m].paths = w.mp[m].paths /\ r.mp[m].pg \subseteq mine /\ r.tab = w.tab
    BY <1>3 DEF FromDmPost, Frame
  <2>5. \A n \in Wwids \ {m} : r.mp[n] = w.mp[n]  BY <1>3 DEF FromDmPost, Frame
  <2>6. \A d \in Devs : d \in r.tab[m] \cup r.mp[m].paths \cup r.mp[m].pg => m \in LunsOf(w, d)
    BY <2>2, <2>4, LunsHas
  <2>7. QED  BY <2>3, <2>4, <2>5, <2>6, KinKept
<1>11. Clean(w, r)  BY <1>4 DEF Clean
<1>12. QED  BY <1>10, <1>3, <1>6, <1>7, <1>8, <1>9, <1>11 DEF Keeps, FromDmPost, Frame

\* sync_paths() keeps and drops paths of this map only.
LEMMA SyncKeeps ==
  ASSUME NEW w, Good(w), NEW m \in Wwids, w.mp[m].known, w.mp[m].pg \subseteq In(w),
         NEW r, r = sync_paths(w, m)
  PROVE  /\ Keeps(w, r, m) /\ r.mp[m].known /\ r.tab = w.tab /\ Clean(w, r)
<1>1. w \in StateRec  BY DEF Good
<1>2. r \in StateRec /\ SyncPost(w, r, m)  BY <1>1, SyncIs
<1> DEFINE P == w.mp[m].paths
           pg == w.mp[m].pg
           Q == r.mp[m].paths
<1>3. Q = (P \cap pg) \cup {d \in pg : w.pv[d].init # "REMOVED"} /\ r.mp[m].pg = pg
  BY <1>2 DEF SyncPost
<1>4. \A d \in Devs :
         \/ r.pv[d] = w.pv[d] /\ d \notin Q /\ (d \notin P \/ d \in pg)
         \/ /\ d \in Q \/ d \in P \ pg
            /\ r.pv[d].mpp = IF d \in Q THEN m ELSE None
            /\ r.pv[d].init = w.pv[d].init /\ r.pv[d].wwid = w.pv[d].wwid
         \/ /\ d \notin P \cup pg /\ w.pv[d].init = "REMOVED" /\ w.pv[d].mpp = m
            /\ r.pv[d] = NoPath
  <2> TAKE d \in Devs
  <2>1. w.pv[d] \in PathRec  BY GoodFacts
  <2>2. r.pv[d] = IF d \in Q THEN [w.pv[d] EXCEPT !.mpp = m]
            ELSE IF d \in pg THEN w.pv[d]
            ELSE IF d \in P THEN [w.pv[d] EXCEPT !.mpp = None]
            ELSE IF w.pv[d].init = "REMOVED" /\ w.pv[d].mpp = m THEN NoPath
            ELSE w.pv[d]
    BY <1>2 DEF SyncPost
  <2>3. d \in Q => d \in pg  BY <1>3
  <2> HIDE DEF P, pg, Q
  <2>4. QED  BY <2>1, <2>2, <2>3 DEF PathRec
<1> HIDE DEF P, pg, Q
<1>5. \A d \in Devs : r.pv[d].init = None => r.pv[d] = NoPath
  <2> TAKE d \in Devs
  <2>1. w.pv[d].init = None => w.pv[d] = NoPath /\ d \notin pg  BY GoodFacts DEF In, pg
  <2>2. d \in Q => d \in pg  BY <1>3
  <2>3. r.pv[d] \in PathRec /\ w.pv[d] \in PathRec  BY <1>1, <1>2 DEF StateRec
  <2>4. QED  BY <1>4, <2>1, <2>2, <2>3 DEF NoPath, PathRec
<1>6. Good(r)
  <2>1. \A d \in Devs : r.pv[d].mpp \in {None, m, w.pv[d].mpp}
    BY <1>4 DEF NoPath
  <2>2. GoodChange(w, r, m)  BY <1>2, <1>5, <2>1 DEF GoodChange, SyncPost, Frame
  <2>3. QED  BY <1>2, <2>2, GoodKept
<1>7. Touches(w, r, m)
  <2>1. LiveKept(w, r)  BY <1>4 DEF LiveKept
  <2>2. \A d \in Devs : r.pv[d].mpp \in {None, m, w.pv[d].mpp}  BY <1>4 DEF NoPath
  <2>3. QED  BY <1>2, <2>1, <2>2 DEF Touches, Local, SyncPost, Frame
<1>8. ASSUME Sound(w) PROVE Sound(r) /\ OthersKept(w, r, m)
  <2>1. MineSound(w, m) /\ P \subseteq Devs /\ pg \subseteq Devs
    BY <1>8, MineFacts DEF P, pg
  <2>2. MineSound(r, m)
    <3>1. \A d \in P \cup pg :
            w.pv[d].mpp = m /\ (w.pv[d].init # "REMOVED" => w.pv[d].wwid \in {m, None})
      BY <2>1 DEF MineSound, P, pg
    <3>2. \A d \in P : w.pv[d].init # "REMOVED"  BY <2>1 DEF MineSound, P
    <3>3. Q \subseteq pg /\ \A d \in Q : w.pv[d].init # "REMOVED"  BY <1>3, <3>2
    <3>4. \A d \in pg : /\ r.pv[d].mpp = m
                        /\ r.pv[d].init = w.pv[d].init /\ r.pv[d].wwid = w.pv[d].wwid
      <4> TAKE d \in pg
      <4>1. d \in Devs /\ w.pv[d].mpp = m  BY <2>1, <3>1
      <4>2. QED  BY <1>4, <4>1
    <3>5. QED  BY <1>3, <3>1, <3>3, <3>4 DEF MineSound, Q
  <2>3. OthersKept(w, r, m)
    <3>1. \A d \in P \cup pg : w.pv[d].mpp = m  BY <2>1 DEF MineSound, P, pg
    <3>2. Q \subseteq pg  BY <1>3
    <3>3. QED  BY <1>4, <3>1, <3>2 DEF OthersKept
  <2>4. QED  BY <1>1, <1>2, <1>8, <2>2, <2>3, SoundKept DEF SyncPost, Frame
<1>9. Kin(w, r, m)
  <2>1. \A d \in Devs : \/ r.pv[d] = w.pv[d]
                        \/ /\ m \in LunsOf(w, d)
                           /\ r.pv[d].wwid \in LunsOf(w, d) \cup {None}
                           /\ r.pv[d].mpp \in LunsOf(w, d) \cup {None}
    <3> TAKE d \in Devs
    <3>1. d \in P \cup pg => m \in LunsOf(w, d)  BY LunsHas DEF P, pg
    <3>2. w.pv[d].mpp = m => m \in LunsOf(w, d)  BY LunsHas, MapsAssumption
    <3>3. Q \subseteq pg  BY <1>3
    <3>4. NoPath.wwid = None /\ NoPath.mpp = None  BY DEF NoPath
    <3>5. QED  BY <1>4, <3>1, <3>2, <3>3, <3>4, LunsHas
  <2>2. r.mp[m].paths \subseteq pg /\ r.mp[m].pg = pg  BY <1>3 DEF Q
  <2>3. QED  BY <1>2, <2>1, <2>2, KinKept, LunsHas DEF SyncPost, Frame, pg
<1>10. Clean(w, r)  BY <1>4 DEF Clean
<1>11. QED  BY <1>9, <1>2, <1>6, <1>7, <1>8, <1>10 DEF Keeps, SyncPost, Frame

\* update_multipath_strings() clears the path groups first.
LEMMA ClearPgKeeps ==
  ASSUME NEW w, Good(w), NEW m \in Wwids, w.mp[m].known,
         NEW r, r = [w EXCEPT !.mp[m].pg = {}]
  PROVE  Keeps(w, r, m) /\ r.mp[m].known /\ r.tab = w.tab /\ r.pv = w.pv
<1>1. w \in StateRec  BY DEF Good
<1>2. r \in StateRec  BY <1>1, ZenonT(60) DEF StateRec, MpRec
<1>3. /\ r.pv = w.pv /\ r.tab = w.tab /\ r.broken = w.broken
      /\ \A n \in Wwids \ {m} : r.mp[n] = w.mp[n]
      /\ r.mp[m].pg = {} /\ r.mp[m].paths = w.mp[m].paths
      /\ r.mp[m].known = w.mp[m].known
  BY <1>1 DEF StateRec, MpRec
<1>4. Good(r)
  <2>1. GoodChange(w, r, m)  BY <1>3, GoodFacts DEF GoodChange
  <2>2. QED  BY <1>2, <2>1, GoodKept
<1>5. Touches(w, r, m)  BY <1>3 DEF Touches, Local, LiveKept
<1>6. ASSUME Sound(w) PROVE Sound(r) /\ OthersKept(w, r, m)
  <2>1. MineSound(r, m)
    <3>1. MineSound(w, m)  BY <1>6, SoundIs
    <3>2. QED  BY <1>3, <3>1 DEF MineSound
  <2>2. OthersKept(w, r, m)  BY <1>3 DEF OthersKept
  <2>3. QED  BY <1>1, <1>3, <1>6, <2>1, <2>2, SoundKept, ZenonT(60)
<1>7. Kin(w, r, m)  BY <1>3, KinKept, LunsHas
<1>8. QED  BY <1>7, <1>3, <1>4, <1>5, <1>6 DEF Keeps

\* update_multipath_strings(), whether the table can be read or not
LEMMA StringsKeeps ==
  ASSUME NEW w, Good(w), NEW m \in Wwids, w.mp[m].known, NEW o \in Outcomes,
         dev \in [Devs -> WN],
         NEW r, r = update_multipath_strings(w, m, o)
  PROVE  Keeps(w, r, m) /\ r.mp[m].known /\ r.tab = w.tab /\ Clean(w, r)
<1> DEFINE u == update_mpp_paths(w, m)
           v == [u EXCEPT !.mp[m].pg = {}]
           x == update_pathvec_from_dm(v, m, o)
           y == sync_paths(x, m)
<1>1. r = IF w.tab[m] = NoTab \/ o.fail = "table" THEN v ELSE y
  BY DEF update_multipath_strings
<1>2. Keeps(w, u, m) /\ u.mp[m].known /\ u.tab = w.tab /\ u.pv = w.pv
  BY UpdatePathsKeeps
<1>3. Good(u)  BY <1>2 DEF Keeps
<1> HIDE DEF u
<1>4. Keeps(u, v, m) /\ v.mp[m].known /\ v.tab = u.tab /\ v.pv = u.pv
  BY <1>2, <1>3, ClearPgKeeps
<1>5. Good(v)  BY <1>4 DEF Keeps
<1>6. Keeps(w, v, m)  BY <1>2, <1>4, KeepsTrans
<1>7. Clean(w, v)  BY <1>2, <1>4 DEF Clean
<1> HIDE DEF v
<1>8. CASE w.tab[m] = NoTab \/ o.fail = "table"
  BY <1>1, <1>2, <1>4, <1>6, <1>8, <1>7
<1>9. CASE ~(w.tab[m] = NoTab \/ o.fail = "table")
  <2>1. v.tab[m] # NoTab  BY <1>2, <1>4, <1>9
  <2>2. /\ Keeps(v, x, m) /\ x.mp[m].known /\ x.tab = v.tab /\ x.mp[m].pg \subseteq In(x)
        /\ Clean(v, x)
    BY <1>4, <1>5, <2>1, FromDmKeeps
  <2>3. Good(x)  BY <2>2 DEF Keeps
  <2> HIDE DEF x
  <2>4. Keeps(x, y, m) /\ y.mp[m].known /\ y.tab = x.tab /\ Clean(x, y)
    BY <2>2, <2>3, SyncKeeps
  <2>5. Keeps(w, y, m)  BY <1>6, <2>2, <2>4, KeepsTrans
  <2> HIDE DEF y
  <2>6. Clean(w, y)  BY <1>7, <2>2, <2>4, CleanTrans
  <2>7. QED  BY <1>1, <1>2, <1>4, <1>9, <2>2, <2>4, <2>5, <2>6
<1>10. QED  BY <1>8, <1>9

\* setup_multipath(): a map that cannot be read is dropped with all pointers to it.
LEMMA SetupKeeps ==
  ASSUME NEW w, Good(w), NEW m \in Wwids, w.mp[m].known, NEW o \in Outcomes,
         dev \in [Devs -> WN],
         NEW r, r = setup_multipath(w, m, o)
  PROVE  /\ Keeps(w, r, m) /\ r.tab = w.tab
         /\ Rc(w, m, o) = "OK" => r.mp[m].known
         /\ Rc(w, m, o) # "OK" => r.mp[m] = NoMp /\ \A d \in Devs : r.pv[d].mpp # m
         /\ Clean(w, r)
<1> DEFINE u == update_multipath_strings(w, m, o)
           v == IF w.tab[m] = NoTab THEN w ELSE u
<1>1. Keeps(w, u, m) /\ u.mp[m].known /\ u.tab = w.tab /\ Clean(w, u)  BY StringsKeeps
<1>2. Keeps(w, v, m) /\ v.tab = w.tab /\ Clean(w, v)  BY <1>1, KeepsSelf DEF Clean
<1>3. Good(v)  BY <1>2 DEF Keeps
<1>4. r = IF Rc(w, m, o) # "OK" THEN remove_map(v, m) ELSE u  BY DEF setup_multipath
<1> HIDE DEF u, v
<1>5. CASE Rc(w, m, o) # "OK"
  <2>1. r = remove_map(v, m)  BY <1>4, <1>5
  <2>2. /\ Keeps(v, r, m) /\ r.mp[m] = NoMp /\ r.tab = v.tab /\ \A d \in Devs : r.pv[d].mpp # m
        /\ Clean(v, r)
    BY <1>3, <2>1, RemoveMapKeeps
  <2>3. QED  BY <1>2, <1>5, <2>2, KeepsTrans, CleanTrans
<1>6. CASE Rc(w, m, o) = "OK"
  BY <1>1, <1>4, <1>6
<1>7. QED  BY <1>5, <1>6

\* flush_map() leaves no path with the map.
LEMMA FlushKeeps ==
  ASSUME NEW w, Good(w), NEW m \in Wwids,
         NEW r, r = flush_map(w, m)
  PROVE  /\ Keeps(w, r, m) /\ r.mp[m] = NoMp /\ \A d \in Devs : r.pv[d].mpp # m
         /\ Loads(w, r)
<1> DEFINE v == remove_map(w, m)
<1>1. r = [v EXCEPT !.tab[m] = NoTab]  BY DEF flush_map
<1>2. Keeps(w, v, m) /\ v.mp[m] = NoMp /\ (\A d \in Devs : v.pv[d].mpp # m) /\ v.tab = w.tab
  BY RemoveMapKeeps
<1>3. v \in StateRec  BY <1>2 DEF Keeps, Good
<1> HIDE DEF v
<1>4. r \in StateRec  BY <1>1, <1>3 DEF StateRec, TabRec
<1>5. r.pv = v.pv /\ r.mp = v.mp /\ r.broken = v.broken
  BY <1>1, <1>3 DEF StateRec
<1>6. \A n \in Wwids \ {m} : r.tab[n] = v.tab[n]
  BY <1>1, <1>3 DEF StateRec
<1>7. Kin(v, r, m)
  <2>1. r.tab[m] = NoTab  BY <1>1, <1>3 DEF StateRec
  <2>2. \A d \in Devs : d \notin r.tab[m]  BY <2>1, MapsAssumption DEF NoTab
  <2>3. QED  BY <1>5, <1>6, <2>2, KinKept, LunsHas
<1>8. Loads(w, r)
  <2>1. r.tab[m] = NoTab  BY <1>1, <1>3 DEF StateRec
  <2>2. \A d \in Devs : d \notin r.tab[m]  BY <2>1, MapsAssumption DEF NoTab
  <2>3. QED  BY <1>2, <1>6, <2>2 DEF Loads
<1>9. Keeps(v, r, m)
  BY <1>2, <1>4, <1>5, <1>6, <1>7
  DEF Keeps, Good, Touches, Local, LiveKept, Sound, Own, Named, Here, OthersKept
<1>10. QED  BY <1>2, <1>5, <1>9, <1>8, KeepsTrans

\* What setup_map() hands to domap(), and what domap() loads
LEMMA SetupMapPg ==
  ASSUME NEW w, Good(w), NEW m \in Wwids, NEW r, r = setup_map(w, m)
  PROVE  r.mp[m].pg = w.mp[m].paths
<1>1. w \in StateRec  BY DEF Good
<1>2. SetupMapPost(w, r, m)  BY <1>1, SetupMapIs
<1>3. QED  BY <1>2 DEF SetupMapPost

LEMMA DomapTab ==
  ASSUME NEW w, Good(w), NEW m \in Wwids, NEW r, r = domap(w, m)
  PROVE  r.tab[m] = w.mp[m].pg
<1>1. w \in StateRec  BY DEF Good
<1>2. DomapPost(w, r, m)  BY <1>1, DomapIs
<1>3. QED  BY <1>2 DEF DomapPost

\* setup_map() and domap() load paths that were in mpp->paths, which have not been
\* removed; reading the table back does not change that.
LEMMA LoadOk ==
  ASSUME NEW v, Good(v), Sound(v), NEW m \in Wwids, v.mp[m].known,
         NEW s, s = setup_map(v, m), NEW n, n = domap(s, m),
         NEW q, q.tab = n.tab, Clean(n, q)
  PROVE  Loads(v, q)
<1>1. Keeps(v, s, m) /\ s.mp[m].known /\ s.tab = v.tab /\ s.pv = v.pv  BY SetupMapKeeps
<1>2. Good(s)  BY <1>1 DEF Keeps
<1>3. Keeps(s, n, m) /\ n.pv = s.pv  BY <1>1, <1>2, DomapKeeps
<1>4. n.tab[m] = v.mp[m].paths  BY <1>2, SetupMapPg, DomapTab
<1>5. \A k \in Wwids \ {m} : n.tab[k] = v.tab[k]  BY <1>1, <1>3 DEF Keeps, Touches, Local
<1>6. \A d \in v.mp[m].paths : d \in Devs /\ v.pv[d].init \notin {None, "REMOVED"}
  BY MineFacts DEF MineSound, In
<1>7. \A d \in v.mp[m].paths : q.pv[d].init \notin {None, "REMOVED"}
  BY <1>1, <1>3, <1>6 DEF Clean
<1>8. QED  BY <1>4, <1>5, <1>7 DEF Loads

\* A step that loads nothing, and one that changes no path that is there
LEMMA LoadsSame == ASSUME NEW w, NEW r, r.tab = w.tab PROVE Loads(w, r)
BY DEF Loads

LEMMA LoadsClean ==
  ASSUME NEW w, NEW v, NEW r, NEW q, v.tab = w.tab, Loads(v, r), q.tab = r.tab, Clean(r, q)
  PROVE  Loads(w, q)
BY DEF Loads, Clean

(***************************************************************************)
(* Map creation, reload and removal; paths that go                         *)
(***************************************************************************)
\* update_map(), with a load that works, fails or is not tried
LEMMA UpdateMapKeeps ==
  ASSUME NEW w, Good(w), NEW m \in Wwids, w.mp[m].known, NEW new, NEW o \in Outcomes,
         dev \in [Devs -> WN],
         NEW r, r = update_map(w, m, new, o)
  PROVE  Keeps(w, r, m) /\ (Sound(w) => Loads(w, r))
<1> DEFINE a == adopt_paths(w, m)
           v == verify_paths(a, m)
           s == IF o.fail = "setup" THEN v ELSE setup_map(v, m)
           ok == o.fail # "setup" /\ domap_ok(s, m, FALSE, o)
           t == IF ok THEN domap(s, m) ELSE s
<1>1. r = IF new /\ ~ok THEN remove_map(s, m) ELSE setup_multipath(t, m, o)
  BY DEF update_map
<1>2. Keeps(w, a, m) /\ a.mp[m].known /\ a.tab = w.tab  BY AdoptKeeps
<1>3. Good(a)  BY <1>2 DEF Keeps
<1> HIDE DEF a
<1>4. Keeps(a, v, m) /\ v.mp[m].known /\ v.tab = a.tab  BY <1>2, <1>3, VerifyKeeps
<1>5. Good(v)  BY <1>4 DEF Keeps
<1> HIDE DEF v
<1>6. Keeps(v, s, m) /\ s.mp[m].known /\ s.tab = v.tab
  BY <1>4, <1>5, SetupMapKeeps, KeepsSelf
<1>7. ok => s = setup_map(v, m)  OBVIOUS
<1>8. Good(s)  BY <1>6 DEF Keeps
<1> HIDE DEF s, ok
<1>9. Keeps(s, t, m) /\ t.mp[m].known  BY <1>6, <1>8, DomapKeeps, KeepsSelf
<1>10. Good(t)  BY <1>9 DEF Keeps
<1>11. Keeps(w, s, m)  BY <1>2, <1>4, <1>6, KeepsTrans
<1>12. Keeps(w, t, m)  BY <1>9, <1>11, KeepsTrans
<1>13. IF ok THEN t = domap(s, m) ELSE t = s  OBVIOUS
<1> HIDE DEF t
<1>14. Sound(w) => Sound(v)  BY <1>2, <1>4 DEF Keeps
<1>15. CASE new /\ ~ok
  <2>1. Keeps(s, r, m) /\ r.tab = s.tab  BY <1>1, <1>8, <1>15, RemoveMapKeeps
  <2>2. QED  BY <1>2, <1>4, <1>6, <1>11, <2>1, KeepsTrans, LoadsSame
<1>16. CASE ~(new /\ ~ok)
  <2>1. Keeps(t, r, m) /\ r.tab = t.tab /\ Clean(t, r)
    BY <1>1, <1>9, <1>10, <1>16, SetupKeeps
  <2>2. Keeps(w, r, m)  BY <1>12, <2>1, KeepsTrans
  <2>3. ASSUME Sound(w), ok PROVE Loads(w, r)
    <3>1. Loads(v, r)  BY <1>4, <1>5, <1>7, <1>13, <1>14, <2>1, <2>3, LoadOk
    <3>2. QED  BY <1>2, <1>4, <3>1 DEF Loads
  <2>4. ~ok => Loads(w, r)  BY <1>2, <1>4, <1>6, <1>13, <2>1, LoadsSame
  <2>5. QED  BY <2>2, <2>3, <2>4
<1>17. QED  BY <1>15, <1>16

\* reload_and_sync_map()
LEMMA ReloadKeeps ==
  ASSUME NEW w, Good(w), NEW m \in Wwids, w.mp[m].known, NEW o \in Outcomes,
         dev \in [Devs -> WN],
         NEW r, r = reload_and_sync_map(w, m, o)
  PROVE  Keeps(w, r, m) /\ (Sound(w) => Loads(w, r))
<1> DEFINE u == update_mpp_paths(w, m)
           s == setup_map(u, m)
           t == domap(s, m)
<1>1. r = IF o.fail = "setup" THEN u
          ELSE IF ~domap_ok(s, m, FALSE, o) THEN s
          ELSE setup_multipath(t, m, o)
  BY DEF reload_and_sync_map
<1>2. Keeps(w, u, m) /\ u.mp[m].known /\ u.tab = w.tab  BY UpdatePathsKeeps
<1>3. Good(u)  BY <1>2 DEF Keeps
<1> HIDE DEF u
<1>4. s = setup_map(u, m)  OBVIOUS
<1>5. Keeps(u, s, m) /\ s.mp[m].known /\ s.tab = u.tab  BY <1>2, <1>3, SetupMapKeeps
<1>6. Good(s)  BY <1>5 DEF Keeps
<1> HIDE DEF s
<1>7. t = domap(s, m)  OBVIOUS
<1>8. Keeps(s, t, m) /\ t.mp[m].known  BY <1>5, <1>6, DomapKeeps
<1>9. Good(t)  BY <1>8 DEF Keeps
<1> HIDE DEF t
<1>10. Keeps(w, s, m) /\ Keeps(w, t, m)  BY <1>2, <1>5, <1>8, KeepsTrans
<1> DEFINE q == setup_multipath(t, m, o)
<1>11. Keeps(t, q, m) /\ q.tab = t.tab /\ Clean(t, q)  BY <1>8, <1>9, SetupKeeps
<1>12. r \in {u, s, q}  BY <1>1
<1> HIDE DEF q
<1>13. Keeps(w, q, m)  BY <1>10, <1>11, KeepsTrans
<1>14. ASSUME Sound(w) PROVE Loads(w, q)
  <2>1. Sound(u)  BY <1>2, <1>14 DEF Keeps
  <2>2. Loads(u, q)  BY <1>2, <1>3, <1>11, <1>4, <1>7, <2>1, LoadOk
  <2>3. QED  BY <1>2, <2>2 DEF Loads
<1>15. Loads(w, u) /\ Loads(w, s)  BY <1>2, <1>5, LoadsSame
<1>16. QED  BY <1>2, <1>10, <1>13, <1>12, <1>14, <1>15

\* orphan_path() of paths that have no map does no harm.
LEMMA OrphanKeeps ==
  ASSUME NEW w, Good(w), NEW D, NEW m, NEW r, r = orphan_path(w, D)
  PROVE  /\ Good(r) /\ Touches(w, r, m) /\ r.tab = w.tab /\ r.mp = w.mp
         /\ (\A d \in D \cap Devs : w.pv[d].mpp = None) /\ Sound(w) => Sound(r)
         /\ NoNew(w, r) /\ \A d \in Devs \ D : r.pv[d] = w.pv[d]
         /\ Clean(w, r)
<1>1. w \in StateRec  BY DEF Good
<1>2. r \in StateRec  BY <1>1, OrphanIs
<1>3. /\ r.mp = w.mp /\ r.tab = w.tab /\ r.broken = w.broken
      /\ \A d \in Devs : r.pv[d] = IF d \in D THEN [w.pv[d] EXCEPT !.mpp = None] ELSE w.pv[d]
  BY <1>1, OrphanIs
<1>4. \A d \in Devs : /\ r.pv[d].init = w.pv[d].init /\ r.pv[d].wwid = w.pv[d].wwid
                      /\ r.pv[d].mpp \in {None, w.pv[d].mpp}
                      /\ w.pv[d].mpp = None => r.pv[d] = w.pv[d]
                      /\ d \notin D => r.pv[d] = w.pv[d]
  <2> TAKE d \in Devs
  <2>1. w.pv[d] \in PathRec  BY GoodFacts
  <2>2. r.pv[d] = IF d \in D THEN [w.pv[d] EXCEPT !.mpp = None] ELSE w.pv[d]  BY <1>3
  <2>3. QED  BY <2>1, <2>2 DEF PathRec
<1>5. Good(r)
  <2>1. \A d \in Devs : r.pv[d].init = None => r.pv[d] = NoPath
    BY <1>4, GoodFacts DEF NoPath
  <2>2. \A d \in Devs : r.pv[d].mpp # None => r.mp[r.pv[d].mpp].known
    BY <1>3, <1>4, GoodFacts
  <2>3. \A n \in Wwids : ~r.mp[n].known => r.mp[n] = NoMp  BY <1>3, GoodFacts
  <2>4. QED  BY <1>2, <2>1, <2>2, <2>3 DEF Good
<1>6. Touches(w, r, m)  BY <1>3, <1>4 DEF Touches, Local, LiveKept
<1>7. ASSUME \A d \in D \cap Devs : w.pv[d].mpp = None, Sound(w) PROVE Sound(r)
  <2>1. \A d \in Devs : r.pv[d] = w.pv[d]  BY <1>4, <1>7
  <2>2. SUFFICES ASSUME NEW n \in Wwids PROVE MineSound(r, n)  BY SoundIs
  <2>3. /\ MineSound(w, n) /\ w.mp[n].paths \subseteq Devs /\ w.mp[n].pg \subseteq Devs
    BY <1>7, MineFacts
  <2>4. QED  BY <1>3, <2>1, <2>3 DEF MineSound
<1>8. NoNew(w, r)
  <2>1. \A d \in Devs : /\ r.pv[d].wwid \in LunsOf(w, d) \cup {None}
                        /\ r.pv[d].mpp \in LunsOf(w, d) \cup {None}
    BY <1>4, LunsHas
  <2>2. QED  BY <1>3, <2>1, PathsNoNew
<1>9. Clean(w, r)  BY <1>4 DEF Clean
<1>10. QED  BY <1>9, <1>3, <1>4, <1>5, <1>6, <1>7, <1>8

\* Sound but for the WWID of d, which uev_update_path() has changed and which a
\* path found again may have lost
SoundBut(w, d) ==
  /\ Own(w) /\ Here(w)
  /\ \A m \in Wwids : \A e \in (w.mp[m].paths \cup w.mp[m].pg) \ {d} :
        w.pv[e].init # "REMOVED" => w.pv[e].wwid \in {m, None}

\* ev_add_path() and ev_remove_path() orphan or free one path; a path without a
\* map is in no table, so it may go.
LEMMA OrphanOne ==
  ASSUME NEW w, Good(w), NEW d \in Devs, NEW r, r = orphan_path(w, {d})
  PROVE  /\ Good(r) /\ r.tab = w.tab /\ r.broken = w.broken
         /\ Sound(w) /\ w.pv[d].mpp = None => Sound(r)
         /\ NoNew(w, r) /\ \A e \in Devs \ {d} : r.pv[e] = w.pv[e]
         /\ Clean(w, r)
<1>1. /\ Good(r) /\ Touches(w, r, None) /\ r.tab = w.tab
      /\ NoNew(w, r) /\ \A e \in Devs \ {d} : r.pv[e] = w.pv[e]
      /\ Clean(w, r)
  <2>1. Good(r) /\ Touches(w, r, None) /\ r.tab = w.tab  BY OrphanKeeps
  <2>2. NoNew(w, r) /\ Clean(w, r)  BY OrphanKeeps
  <2>3. w \in StateRec  BY DEF Good
  <2>4. \A e \in Devs : r.pv[e] = IF e \in {d} THEN [w.pv[e] EXCEPT !.mpp = None] ELSE w.pv[e]
    BY <2>3, OrphanIs
  <2>5. \A e \in Devs \ {d} : r.pv[e] = w.pv[e]  BY <2>4
  <2>6. QED  BY <2>1, <2>2, <2>5
<1>2. ASSUME Sound(w), w.pv[d].mpp = None PROVE Sound(r)
  <2>1. \A e \in {d} \cap Devs : w.pv[e].mpp = None  BY <1>2
  <2>2. QED  BY <1>2, <2>1, OrphanKeeps
<1>3. QED  BY <1>1, <1>2 DEF Touches, Local

LEMMA FreeOneKeeps ==
  ASSUME NEW w, Good(w), NEW d \in Devs, w.pv[d].mpp = None,
         NEW r, r = free_path(w, {d})
  PROVE  /\ Good(r) /\ r.tab = w.tab /\ r.mp = w.mp /\ r.broken = w.broken
         /\ \A e \in Devs \ {d} : r.pv[e] = w.pv[e]
         /\ SoundBut(w, d) => Sound(r)
         /\ NoNew(w, r)
<1>1. w \in StateRec  BY DEF Good
<1>2. r \in StateRec  BY <1>1, FreeIs
<1>3. /\ r.mp = w.mp /\ r.tab = w.tab /\ r.broken = w.broken
      /\ r.pv[d] = NoPath /\ \A e \in Devs \ {d} : r.pv[e] = w.pv[e]
  <2>1. /\ r.mp = w.mp /\ r.tab = w.tab /\ r.broken = w.broken
        /\ \A e \in Devs : r.pv[e] = IF e \in {d} THEN NoPath ELSE w.pv[e]
    BY <1>1, FreeIs
  <2>2. QED  BY <2>1
<1>4. Good(r)
  <2>1. \A e \in Devs : r.pv[e].init = None => r.pv[e] = NoPath
    <3> TAKE e \in Devs
    <3>1. CASE e = d  BY <1>3, <3>1
    <3>2. CASE e # d
      <4>1. r.pv[e] = w.pv[e]  BY <1>3, <3>2
      <4>2. QED  BY <1>3, <4>1, GoodFacts
    <3>3. QED  BY <3>1, <3>2
  <2>2. \A e \in Devs : r.pv[e].mpp # None => r.mp[r.pv[e].mpp].known
    <3> TAKE e \in Devs
    <3>1. CASE e = d  BY <1>3, <3>1 DEF NoPath
    <3>2. CASE e # d
      <4>1. r.pv[e] = w.pv[e]  BY <1>3, <3>2
      <4>2. QED  BY <1>3, <4>1, GoodFacts
    <3>3. QED  BY <3>1, <3>2
  <2>3. \A n \in Wwids : ~r.mp[n].known => r.mp[n] = NoMp  BY <1>3, GoodFacts
  <2>4. QED  BY <1>2, <2>1, <2>2, <2>3 DEF Good
<1>5. ASSUME SoundBut(w, d) PROVE Sound(r)
  <2>1. SUFFICES ASSUME NEW n \in Wwids PROVE MineSound(r, n)  BY SoundIs
  <2>2. w.mp[n].paths \subseteq Devs /\ w.mp[n].pg \subseteq Devs  BY GoodFacts DEF MpRec
  <2>3. d \notin w.mp[n].paths \cup w.mp[n].pg  BY <1>5, MapsAssumption DEF SoundBut, Own
  <2>4. \A e \in w.mp[n].paths \cup w.mp[n].pg : r.pv[e] = w.pv[e]  BY <1>3, <2>2, <2>3
  <2>5. r.mp[n] = w.mp[n]  BY <1>3
  <2>6. \A e \in w.mp[n].paths \cup w.mp[n].pg :
           w.pv[e].mpp = n /\ (w.pv[e].init # "REMOVED" => w.pv[e].wwid \in {n, None})
    BY <1>5, <2>3 DEF SoundBut, Own
  <2>7. \A e \in w.mp[n].paths : w.pv[e].init # "REMOVED"  BY <1>5 DEF SoundBut, Here
  <2>8. QED  BY <2>4, <2>5, <2>6, <2>7 DEF MineSound
<1>6. NoNew(w, r)
  <2>1. r.pv[d].wwid = None /\ r.pv[d].mpp = None  BY <1>3 DEF NoPath
  <2>2. QED  BY <1>3, <2>1, PathsNoNew
<1>7. QED  BY <1>3, <1>4, <1>5, <1>6

\* The state in which ev_remove_path() has taken d out of mpp->paths
DropPath(w, d) ==
  LET m == w.pv[d].mpp
      u == update_mpp_paths(w, m)
  IN  set_path_removed([u EXCEPT !.mp[m].paths = @ \ {d}], {d})

\* Taking d out makes the tables sound whatever its WWID is.
LEMMA DropPathKeeps ==
  ASSUME NEW w, Good(w), NEW d \in Devs, NEW m, m = w.pv[d].mpp, m # None,
         NEW r, r = DropPath(w, d)
  PROVE  /\ Good(r) /\ Local(w, r, m) /\ r.mp[m].known /\ r.tab = w.tab
         /\ SoundBut(w, d) => Sound(r)
         /\ r.mp[m].paths \subseteq w.mp[m].paths \cup w.mp[m].pg
         /\ OthersKept(w, r, m) /\ Kin(w, r, m)
<1>1. w \in StateRec  BY DEF Good
<1>2. m \in Wwids  BY GoodFacts
<1>3. w.mp[m].known  BY GoodFacts
<1> DEFINE u == update_mpp_paths(w, m)
           P == u.mp[m].paths \ {d}
           v == WithPaths(u, m, P)
<1>4. r = set_path_removed(v, {d})  BY DEF DropPath, WithPaths
<1>5. u \in StateRec /\ UpdatePathsPost(w, u, m)  BY <1>1, <1>2, UpdatePathsIs
<1> HIDE DEF u
<1>6. u \in StateRec  BY <1>5
<1>7. P \subseteq Devs  BY <1>2, <1>6 DEF StateRec, MpRec
<1> HIDE DEF P
<1>8. v \in StateRec  BY <1>2, <1>6, <1>7, SetPaths
<1>9. /\ v.pv = u.pv /\ v.tab = u.tab /\ v.broken = u.broken
      /\ \A n \in Wwids \ {m} : v.mp[n] = u.mp[n]
      /\ v.mp[m].paths = P /\ v.mp[m].pg = u.mp[m].pg /\ v.mp[m].known = u.mp[m].known
  BY <1>2, <1>6, <1>7, SetPaths
<1> HIDE DEF v
<1>10. /\ r \in StateRec /\ r.mp = v.mp /\ r.tab = v.tab /\ r.broken = v.broken
      /\ \A e \in Devs : r.pv[e] = IF e \in {d} /\ v.pv[e].mpp # None
                                   THEN [v.pv[e] EXCEPT !.init = "REMOVED"] ELSE v.pv[e]
  BY <1>4, <1>8, RemovedIs
<1>11. /\ \A e \in Devs \ {d} : r.pv[e] = w.pv[e]
       /\ r.pv[d].init = "REMOVED" /\ r.pv[d].mpp = m /\ r.pv[d].wwid = w.pv[d].wwid
  <2>1. v.pv = w.pv  BY <1>5, <1>9 DEF UpdatePathsPost
  <2>2. w.pv[d] \in PathRec  BY GoodFacts
  <2>3. r.pv[d] = [w.pv[d] EXCEPT !.init = "REMOVED"]  BY <1>10, <2>1
  <2>4. QED  BY <1>10, <2>1, <2>2, <2>3 DEF PathRec
<1>12. /\ r.tab = w.tab /\ r.broken = w.broken
       /\ \A n \in Wwids \ {m} : r.mp[n] = w.mp[n]
       /\ r.mp[m].pg = w.mp[m].pg /\ r.mp[m].known
       /\ r.mp[m].paths = (w.mp[m].paths
                \cup {e \in w.mp[m].pg \cap In(w) : w.pv[e].init # "REMOVED"}) \ {d}
  <2>1. r.tab = w.tab /\ r.broken = w.broken  BY <1>5, <1>9, <1>10 DEF UpdatePathsPost, Frame
  <2>2. \A n \in Wwids \ {m} : r.mp[n] = w.mp[n]  BY <1>5, <1>9, <1>10 DEF UpdatePathsPost, Frame
  <2>3. r.mp[m].pg = w.mp[m].pg /\ r.mp[m].known
    BY <1>3, <1>5, <1>9, <1>10 DEF UpdatePathsPost, Frame
  <2>4. r.mp[m].paths = P  BY <1>9, <1>10
  <2>5. u.mp[m].paths = w.mp[m].paths
                \cup {e \in w.mp[m].pg \cap In(w) : w.pv[e].init # "REMOVED"}
    BY <1>5 DEF UpdatePathsPost
  <2>6. QED  BY <2>1, <2>2, <2>3, <2>4, <2>5 DEF P
<1>13. Good(r)
  <2>1. GoodChange(w, r, m)
    <3>1. \A e \in Devs : r.pv[e].init = None => r.pv[e] = NoPath
      BY <1>11, GoodFacts DEF None
    <3>2. \A e \in Devs : r.pv[e].mpp \in {None, m, w.pv[e].mpp}  BY <1>11
    <3>3. QED  BY <1>3, <1>12, <3>1, <3>2 DEF GoodChange
  <2>2. QED  BY <1>2, <1>10, <2>1, GoodKept
<1>14. Local(w, r, m)  BY <1>11, <1>12 DEF Local
<1>15. ASSUME SoundBut(w, d) PROVE Sound(r)
  <2>1. SUFFICES ASSUME NEW n \in Wwids PROVE MineSound(r, n)  BY SoundIs
  <2>2. w.mp[n].paths \subseteq Devs /\ w.mp[n].pg \subseteq Devs  BY GoodFacts DEF MpRec
  <2>3. \A e \in w.mp[n].paths \cup w.mp[n].pg :
           w.pv[e].mpp = n /\ (e # d /\ w.pv[e].init # "REMOVED" => w.pv[e].wwid \in {n, None})
    BY <1>15 DEF SoundBut, Own
  <2>4. \A e \in w.mp[n].paths : w.pv[e].init # "REMOVED"  BY <1>15 DEF SoundBut, Here
  <2>5. CASE n = m
    <3>1. \A e \in r.mp[m].paths : /\ e # d /\ e \in w.mp[m].paths \cup w.mp[m].pg
                                     /\ r.pv[e].init # "REMOVED"
      <4> TAKE e \in r.mp[m].paths
      <4>1. e # d /\ e \in w.mp[m].paths \cup w.mp[m].pg  BY <1>12
      <4>2. e \in w.mp[m].paths \/ w.pv[e].init # "REMOVED"  BY <1>12
      <4>3. QED  BY <1>11, <2>2, <2>4, <2>5, <4>1, <4>2
    <3>2. \A e \in w.mp[m].paths \cup w.mp[m].pg :
             r.pv[e].mpp = m /\ (r.pv[e].init # "REMOVED" => r.pv[e].wwid \in {m, None})
      BY <1>11, <2>2, <2>3, <2>5
    <3>3. QED  BY <1>12, <2>5, <3>1, <3>2 DEF MineSound
  <2>6. CASE n # m
    <3>1. r.mp[n] = w.mp[n]  BY <1>12, <2>6
    <3>2. d \notin w.mp[n].paths \cup w.mp[n].pg  BY <2>3, <2>6
    <3>3. QED  BY <1>11, <2>2, <2>3, <2>4, <3>1, <3>2 DEF MineSound
  <2>7. QED  BY <2>5, <2>6
<1>16. OthersKept(w, r, m)  BY <1>11 DEF OthersKept
<1>17. Kin(w, r, m)
  <2>1. m \in LunsOf(w, d)  BY <1>2, LunsHas, MapsAssumption
  <2>2. \A e \in Devs : \/ r.pv[e] = w.pv[e]
                        \/ /\ m \in LunsOf(w, e)
                           /\ r.pv[e].wwid \in LunsOf(w, e) \cup {None}
                           /\ r.pv[e].mpp \in LunsOf(w, e) \cup {None}
    BY <1>11, <2>1, LunsHas
  <2>3. r.mp[m].paths \cup r.mp[m].pg \subseteq w.mp[m].paths \cup w.mp[m].pg  BY <1>12
  <2>4. QED  BY <1>2, <1>12, <2>2, <2>3, KinKept, LunsHas
<1>18. QED  BY <1>12, <1>13, <1>14, <1>15, <1>16, <1>17

\* Steps on one map compose.
LEMMA LocalTrans ==
  ASSUME NEW w, NEW r, NEW q, NEW m, Local(w, r, m), Local(r, q, m)
  PROVE  Local(w, q, m)
BY DEF Local

\* A change of wait_for_udev
LEMMA WaitKeeps ==
  ASSUME NEW w, Good(w), NEW m \in Wwids, w.mp[m].known, NEW k \in 0..2,
         NEW r, r = [w EXCEPT !.mp[m].wait = k]
  PROVE  Keeps(w, r, m) /\ r.mp[m].known /\ r.tab = w.tab /\ r.pv = w.pv
<1>1. w \in StateRec  BY DEF Good
<1>2. r \in StateRec  BY <1>1, ZenonT(60) DEF StateRec, MpRec
<1>3. /\ r.pv = w.pv /\ r.tab = w.tab /\ r.broken = w.broken
      /\ \A n \in Wwids \ {m} : r.mp[n] = w.mp[n]
      /\ r.mp[m].pg = w.mp[m].pg /\ r.mp[m].paths = w.mp[m].paths
      /\ r.mp[m].known = w.mp[m].known
  BY <1>1 DEF StateRec, MpRec
<1>4. Good(r)
  <2>1. GoodChange(w, r, m)  BY <1>3, GoodFacts DEF GoodChange
  <2>2. QED  BY <1>2, <2>1, GoodKept
<1>5. Touches(w, r, m)  BY <1>3 DEF Touches, Local, LiveKept
<1>6. ASSUME Sound(w) PROVE Sound(r) /\ OthersKept(w, r, m)
  <2>1. MineSound(r, m)
    <3>1. MineSound(w, m)  BY <1>6, SoundIs
    <3>2. QED  BY <1>3, <3>1 DEF MineSound
  <2>2. OthersKept(w, r, m)  BY <1>3 DEF OthersKept
  <2>3. QED  BY <1>1, <1>3, <1>6, <2>1, <2>2, SoundKept
<1>7. Kin(w, r, m)  BY <1>3, KinKept, LunsHas
<1>8. QED  BY <1>7, <1>3, <1>4, <1>5, <1>6 DEF Keeps

\* What is in the table of m was in it or was a path of m.
TabGrows(w, r, m) ==
  \A e \in Devs : e \in r.tab[m] => e \in w.tab[m] \cup w.mp[m].paths \cup w.mp[m].pg

\* ev_remove_path(), on all its ways: the last path takes the map with it, the map
\* waits for its uevent, the reload is put off, fails or works.
LEMMA EvRemoveKeeps ==
  ASSUME NEW w, Good(w), NEW d \in Devs, NEW need \in BOOLEAN, NEW o \in Outcomes,
         dev \in [Devs -> WN],
         NEW r, r = ev_remove_path(w, d, need, o)[1]
  PROVE  /\ Good(r)
         /\ SoundBut(w, d) => Sound(r)
         /\ r.broken = w.broken
         /\ w.pv[d].mpp # None => Local(w, r, w.pv[d].mpp) /\ TabGrows(w, r, w.pv[d].mpp)
         /\ w.pv[d].mpp # None /\ SoundBut(w, d) => OthersKept(w, r, w.pv[d].mpp)
         /\ NoNew(w, r)
         /\ w.pv[d].mpp # None => Kin(w, r, w.pv[d].mpp)
         /\ SoundBut(w, d) => Loads(w, r)
<1> DEFINE m == w.pv[d].mpp
           u == update_mpp_paths(w, m)
           x == DropPath(w, d)
           s == setup_map(x, m)
           n == domap(s, m)
           e == ev_remove_path(w, d, need, o)
<1>1. e = IF m = None THEN <<free_path(w, {d}), TRUE>>
      ELSE IF x.mp[m].paths = {} /\ flush_ok(x, m, o) THEN <<flush_map(x, m), TRUE>>
      ELSE IF o.fail = "setup" THEN <<remove_map(x, m), FALSE>>
      ELSE IF s.mp[m].wait > 0 THEN <<[s EXCEPT !.mp[m].wait = 2], TRUE>>
      ELSE IF ~need THEN <<s, TRUE>>
      ELSE IF ~domap_ok(s, m, FALSE, o) THEN <<s, FALSE>>
      ELSE <<setup_multipath(n, m, o), Rc(n, m, o) = "OK">>
  BY DEF ev_remove_path, DropPath
<1>2. CASE m = None
  <2>1. r = free_path(w, {d})  BY <1>1, <1>2
  <2>2. QED  BY <2>1, <1>2, FreeOneKeeps, LoadsSame
<1>3. CASE m # None
  <2>1. m \in Wwids  BY <1>3, GoodFacts
  <2>2. /\ Good(x) /\ Local(w, x, m) /\ x.mp[m].known /\ x.tab = w.tab
        /\ SoundBut(w, d) => Sound(x)
        /\ x.mp[m].paths \subseteq w.mp[m].paths \cup w.mp[m].pg
        /\ OthersKept(w, x, m) /\ Kin(w, x, m)
    BY <1>3, DropPathKeeps
  <2> HIDE DEF x
  <2>3. Keeps(x, s, m) /\ s.mp[m].known /\ s.tab = x.tab /\ s.mp[m].pg = x.mp[m].paths
    BY <2>1, <2>2, SetupMapKeeps, SetupMapPg
  <2>4. Good(s)  BY <2>3 DEF Keeps
  <2>5. s = setup_map(x, m) /\ n = domap(s, m)  OBVIOUS
  <2> HIDE DEF s
  <2>6. Keeps(s, n, m) /\ n.mp[m].known /\ n.tab[m] = s.mp[m].pg
    BY <2>1, <2>3, <2>4, DomapKeeps, DomapTab
  <2>7. Good(n)  BY <2>6 DEF Keeps
  <2> HIDE DEF n
  <2>8. /\ Keeps(x, r, m)
        /\ r.tab[m] \in {w.tab[m], NoTab, s.mp[m].pg}
        /\ Sound(x) => Loads(x, r)
    <3> DEFINE y == flush_map(x, m)
               z == remove_map(x, m)
               t == [s EXCEPT !.mp[m].wait = 2]
               q == setup_multipath(n, m, o)
    <3>1. r \in {y, z, t, s, q}
      <4> HIDE DEF m, y, z, t, q, e
      <4>1. r = e[1]  BY DEF e
      <4>2. e \in {<<y, TRUE>>, <<z, FALSE>>, <<t, TRUE>>, <<s, TRUE>>, <<s, FALSE>>,
                   <<q, Rc(n, m, o) = "OK">>}
        BY <1>1, <1>3 DEF y, z, t, q
      <4>3. \A b : \A f \in {y, z, t, s, q} : e = <<f, b>> => r = f  BY <4>1
      <4>4. QED  BY <4>2, <4>3
    <3>2. Keeps(x, y, m) /\ y.tab[m] = NoTab /\ Loads(x, y)
      <4>1. Keeps(x, y, m) /\ Loads(x, y)  BY <2>1, <2>2, FlushKeeps
      <4>2. Good(remove_map(x, m))  BY <2>1, <2>2, RemoveMapKeeps DEF Keeps
      <4>3. y.tab[m] = NoTab  BY <2>1, <4>2 DEF flush_map, Good, StateRec
      <4>4. QED  BY <4>1, <4>3
    <3>3. Keeps(x, z, m) /\ z.tab = w.tab  BY <2>1, <2>2, RemoveMapKeeps
    <3>4. Loads(x, z)  BY <2>2, <3>3, LoadsSame
    <3>5. Keeps(s, t, m) /\ t.tab = w.tab
      <4>1. s.mp[m].known /\ s.tab = w.tab /\ 2 \in 0..2  BY <2>2, <2>3
      <4>2. Keeps(s, t, m) /\ t.tab = s.tab  BY <2>1, <2>4, <4>1, WaitKeeps
      <4>3. QED  BY <4>1, <4>2
    <3>6. Keeps(x, t, m)  BY <2>3, <3>5, KeepsTrans
    <3>7. Loads(x, t) /\ Loads(x, s)  BY <2>2, <2>3, <3>5, LoadsSame
    <3>8. Keeps(n, q, m) /\ q.tab = n.tab /\ Clean(n, q)  BY <2>1, <2>6, <2>7, SetupKeeps
    <3>9. Keeps(x, q, m)  BY <2>3, <2>6, <3>8, KeepsTrans
    <3> HIDE DEF y, z, t, q
    <3>10. Sound(x) => Loads(x, q)  BY <2>1, <2>2, <2>5, <3>8, LoadOk
    <3>11. QED  BY <3>4, <3>7, <3>10, <2>2, <2>3, <2>6, <3>1, <3>2, <3>3, <3>5, <3>6, <3>8, <3>9
  <2>9. Local(w, r, m) /\ r.broken = w.broken
    BY <2>2, <2>8, LocalTrans, ZenonT(60) DEF Keeps, Touches, Local
  <2>10. TabGrows(w, r, m)
    BY <2>2, <2>3, <2>8, MapsAssumption DEF TabGrows, NoTab
  <2>11. SoundBut(w, d) => OthersKept(w, r, m)  BY <2>2, <2>8 DEF Keeps, OthersKept
  <2>12. Kin(w, r, m)  BY <2>2, <2>8, KinTrans DEF Keeps
  <2>13. SoundBut(w, d) => Loads(w, r)  BY <2>2, <2>8 DEF Loads
  <2>14. QED  BY <2>13, <1>3, <2>2, <2>8, <2>9, <2>10, <2>11, <2>12 DEF Keeps, Kin
<1>4. QED  BY <1>2, <1>3

(***************************************************************************)
(* Paths that come                                                         *)
(***************************************************************************)
\* A change of the struct path of d only
OnePath(w, r, d) ==
  /\ r \in StateRec /\ r.mp = w.mp /\ r.tab = w.tab /\ r.broken = w.broken
  /\ \A e \in Devs \ {d} : r.pv[e] = w.pv[e]

\* What such a change preserves, for a path that has no map, and in general
LEMMA OnePathGood ==
  ASSUME NEW w, Good(w), NEW d \in Devs, NEW r, OnePath(w, r, d),
         r.pv[d].init = None => r.pv[d] = NoPath,
         r.pv[d].mpp # None => w.mp[r.pv[d].mpp].known
  PROVE  Good(r)
<1>1. \A e \in Devs : r.pv[e].init = None => r.pv[e] = NoPath
  <2> TAKE e \in Devs
  <2>1. CASE e # d
    <3>1. r.pv[e] = w.pv[e]  BY <2>1 DEF OnePath
    <3>2. QED  BY <3>1, GoodFacts
  <2>2. QED  BY <2>1
<1>2. \A e \in Devs : r.pv[e].mpp # None => r.mp[r.pv[e].mpp].known
  <2> TAKE e \in Devs
  <2>1. CASE e # d
    <3>1. r.pv[e] = w.pv[e]  BY <2>1 DEF OnePath
    <3>2. QED  BY <3>1, GoodFacts DEF OnePath
  <2>2. QED  BY <2>1 DEF OnePath
<1>3. \A n \in Wwids : ~r.mp[n].known => r.mp[n] = NoMp  BY GoodFacts DEF OnePath
<1>4. QED  BY <1>1, <1>2, <1>3 DEF Good, OnePath

LEMMA OnePathSound ==
  ASSUME NEW w, Good(w), Sound(w), NEW d \in Devs, NEW r, OnePath(w, r, d),
         w.pv[d].mpp = None
  PROVE  Sound(r)
<1> SUFFICES ASSUME NEW n \in Wwids PROVE MineSound(r, n)  BY SoundIs
<1>1. MineSound(w, n) /\ w.mp[n].paths \subseteq Devs /\ w.mp[n].pg \subseteq Devs  BY MineFacts
<1>2. d \notin w.mp[n].paths \cup w.mp[n].pg  BY <1>1, MapsAssumption DEF MineSound
<1>3. \A e \in w.mp[n].paths \cup w.mp[n].pg : r.pv[e] = w.pv[e]
  BY <1>1, <1>2 DEF OnePath
<1>4. r.mp[n] = w.mp[n]  BY DEF OnePath
<1>5. QED  BY <1>1, <1>3, <1>4 DEF MineSound

LEMMA OnePathSoundBut ==
  ASSUME NEW w, Good(w), Sound(w), NEW d \in Devs, NEW r, OnePath(w, r, d),
         r.pv[d].mpp = w.pv[d].mpp,
         r.pv[d].init = "REMOVED" => w.pv[d].init = "REMOVED"
  PROVE  SoundBut(r, d)
<1>1. r.mp = w.mp  BY DEF OnePath
<1>2. \A n \in Wwids : MineSound(w, n) /\ w.mp[n].paths \subseteq Devs /\ w.mp[n].pg \subseteq Devs
  BY MineFacts
<1>3. \A e \in Devs : r.pv[e].mpp = w.pv[e].mpp  BY DEF OnePath
<1>4. \A e \in Devs : r.pv[e].init = "REMOVED" => w.pv[e].init = "REMOVED"  BY DEF OnePath
<1>5. \A e \in Devs \ {d} : r.pv[e] = w.pv[e]  BY DEF OnePath
<1>6. Own(r)
  <2> SUFFICES ASSUME NEW n \in Wwids, NEW e \in r.mp[n].paths \cup r.mp[n].pg
               PROVE  r.pv[e].mpp = n
    BY DEF Own
  <2>1. e \in w.mp[n].paths \cup w.mp[n].pg /\ e \in Devs  BY <1>1, <1>2
  <2>2. QED  BY <1>2, <1>3, <2>1 DEF MineSound
<1>7. Here(r)
  <2> SUFFICES ASSUME NEW n \in Wwids, NEW e \in r.mp[n].paths
               PROVE  r.pv[e].init # "REMOVED"
    BY DEF Here
  <2>1. e \in w.mp[n].paths /\ e \in Devs  BY <1>1, <1>2
  <2>2. QED  BY <1>2, <1>4, <2>1 DEF MineSound
<1>8. ASSUME NEW n \in Wwids, NEW e \in (r.mp[n].paths \cup r.mp[n].pg) \ {d},
             r.pv[e].init # "REMOVED"
      PROVE  r.pv[e].wwid \in {n, None}
  <2>1. e \in w.mp[n].paths \cup w.mp[n].pg /\ e \in Devs \ {d}  BY <1>1, <1>2
  <2>2. QED  BY <1>2, <1>5, <1>8, <2>1 DEF MineSound
<1>9. QED  BY <1>6, <1>7, <1>8 DEF SoundBut

LEMMA OnePathNoNew ==
  ASSUME NEW w, NEW d \in Devs, NEW r, OnePath(w, r, d),
         r.pv[d].wwid \in LunsOf(w, d) \cup {None}, r.pv[d].mpp \in LunsOf(w, d) \cup {None}
  PROVE  NoNew(w, r)
<1>1. \A e \in Devs : \/ r.pv[e] = w.pv[e]
                      \/ /\ r.pv[e].wwid \in LunsOf(w, e) \cup {None}
                         /\ r.pv[e].mpp \in LunsOf(w, e) \cup {None}
  BY DEF OnePath
<1>2. QED  BY <1>1, PathsNoNew DEF OnePath

\* Paths of m that are there have its WWID or are in the table of no other map.
Held(w, m) ==
  \A e \in w.mp[m].paths \cup w.mp[m].pg :
     /\ dev[e] # None /\ w.pv[e].init # "REMOVED"
     => w.pv[e].wwid = m \/ \A n \in Wwids \ {m} : e \notin w.tab[n]

\* The operators by which ev_add_path() prepares a reload keep that.
LEMMA HeldKept ==
  ASSUME NEW w, Good(w), NEW m \in Wwids, Held(w, m), NEW r
  PROVE  /\ r = adopt_paths(w, m) => Held(r, m)
         /\ r = verify_paths(w, m) => Held(r, m)
         /\ r = setup_map(w, m) => Held(r, m)
<1>1. w \in StateRec /\ w.mp[m].paths \subseteq Devs /\ w.mp[m].pg \subseteq Devs
  BY GoodFacts DEF MpRec
<1>2. ASSUME r = adopt_paths(w, m) PROVE Held(r, m)
  <2>1. AdoptPost(w, r, m)  BY <1>1, <1>2, AdoptIs
  <2>2. QED  BY <1>1, <2>1 DEF AdoptPost, Frame, Held, In
<1>3. ASSUME r = verify_paths(w, m) PROVE Held(r, m)
  <2>1. VerifyPost(w, r, m)  BY <1>1, <1>3, VerifyIs
  <2>2. \A e \in Devs : dev[e] # None => r.pv[e] = w.pv[e]  BY <2>1 DEF VerifyPost
  <2>3. r.tab = w.tab /\ r.mp[m].pg = w.mp[m].pg /\ r.mp[m].paths \subseteq w.mp[m].paths
    BY <2>1 DEF VerifyPost, Frame
  <2>4. QED  BY <1>1, <2>2, <2>3 DEF Held
<1>4. ASSUME r = setup_map(w, m) PROVE Held(r, m)
  <2>1. SetupMapPost(w, r, m)  BY <1>1, <1>4, SetupMapIs
  <2>2. QED  BY <1>1, <2>1 DEF SetupMapPost, Frame, Held
<1>5. QED  BY <1>2, <1>3, <1>4

\* The paths that verify_paths() leaves have a device.
LEMMA VerifiedHere ==
  ASSUME NEW w, Good(w), NEW m \in Wwids, NEW r, r = verify_paths(w, m)
  PROVE  \A e \in r.mp[m].paths : dev[e] # None
<1>1. w \in StateRec  BY DEF Good
<1>2. VerifyPost(w, r, m)  BY <1>1, VerifyIs
<1>3. QED  BY <1>2 DEF VerifyPost

\* A table holds no path that is, as far as the daemon knows, of another LUN.
Apart(w) ==
  \A m \in Wwids, d \in Devs :
     d \in w.tab[m] /\ w.pv[d].init \notin {None, "REMOVED"}
     => w.pv[d].wwid \in {m, None} /\ w.pv[d].mpp \in {m, None}

\* A table of paths that are there can be loaded, if no other map's table has them:
\* the second try of ev_add_path() fails for no other reason.
LEMMA IsLoadable ==
  ASSUME NEW w, Good(w), Sound(w), NEW m \in Wwids, Held(w, m),
         \A e \in w.mp[m].pg : dev[e] # None /\ w.pv[e].init # "REMOVED",
         NEW r, Touches(w, r, m), Apart(r)
  PROVE  Loadable(w, m)
<1> SUFFICES ASSUME NEW e \in w.mp[m].pg, NEW n \in Wwids \ {m}
             PROVE  e \notin w.tab[n]
  BY DEF Loadable
<1>1. e \in Devs /\ w.pv[e].init # None  BY MineFacts DEF In
<1>2. CASE w.pv[e].wwid = m
  <2>1. r.pv[e].init = w.pv[e].init /\ r.pv[e].wwid = m
    BY <1>1, <1>2, MapsAssumption DEF Touches, LiveKept
  <2>2. r.tab[n] = w.tab[n]  BY DEF Touches, Local
  <2>3. QED  BY <1>1, <2>1, <2>2, MapsAssumption DEF Apart
<1>3. CASE w.pv[e].wwid # m  BY <1>3 DEF Held
<1>4. QED  BY <1>2, <1>3

\* No other table has a path of the map m.
Sep(w, m) ==
  \A e \in w.mp[m].paths \cup w.mp[m].pg :
     w.pv[e].init # "REMOVED" => \A n \in Wwids \ {m} : e \notin w.tab[n]

\* add_map_with_path() and add_map_without_path() make an empty map.
LEMMA NewMapKeeps ==
  ASSUME NEW w, Good(w), NEW m \in Wwids, ~w.mp[m].known,
         NEW r, r = WithMp(w, m, NewMp)
  PROVE  Keeps(w, r, m) /\ r.mp[m] = NewMp /\ r.mp[m].known /\ r.tab = w.tab /\ r.pv = w.pv
<1>1. w \in StateRec  BY DEF Good
<1>2. NewMp \in MpRec /\ NewMp.known
  <2>1. NoMp \in MpRec  BY DEF NoMp, MpRec
  <2>2. QED  BY <2>1 DEF NewMp, MpRec
<1>3. NewMp.paths = {} /\ NewMp.pg = {}  BY DEF NewMp, NoMp
<1>4. r \in StateRec  BY <1>1, <1>2 DEF StateRec, WithMp
<1>5. /\ r.pv = w.pv /\ r.tab = w.tab /\ r.broken = w.broken
      /\ \A n \in Wwids \ {m} : r.mp[n] = w.mp[n]
      /\ r.mp[m] = NewMp
  BY <1>1 DEF StateRec, WithMp
<1>6. Good(r)
  <2>1. \A d \in Devs : r.pv[d].init = None => r.pv[d] = NoPath  BY <1>5, GoodFacts
  <2>2. \A n \in Wwids : w.mp[n].known => r.mp[n].known  BY <1>2, <1>5
  <2>3. \A d \in Devs : r.pv[d].mpp # None => r.mp[r.pv[d].mpp].known
    BY <1>5, <2>2, GoodFacts
  <2>4. \A n \in Wwids : ~r.mp[n].known => r.mp[n] = NoMp  BY <1>2, <1>5, GoodFacts
  <2>5. QED  BY <1>4, <2>1, <2>3, <2>4 DEF Good
<1>7. Touches(w, r, m)  BY <1>5 DEF Touches, Local, LiveKept
<1>8. ASSUME Sound(w) PROVE Sound(r) /\ OthersKept(w, r, m)
  <2>1. MineSound(r, m)  BY <1>3, <1>5 DEF MineSound
  <2>2. OthersKept(w, r, m)  BY <1>5 DEF OthersKept
  <2>3. QED  BY <1>1, <1>5, <1>8, <2>1, <2>2, SoundKept
<1>9. Kin(w, r, m)  BY <1>3, <1>5, KinKept, LunsHas
<1>10. QED  BY <1>9, <1>2, <1>5, <1>6, <1>7, <1>8 DEF Keeps

\* The state in which ev_add_path() has made d a path of the map m.
Attached(w, d, m) ==
  LET a == [w EXCEPT !.pv[d].mpp = IF w.mp[m].known THEN m ELSE None]
  IN  IF w.mp[m].known THEN a ELSE [a EXCEPT !.mp[m] = NewMp]

\* ev_add_path() has given d to the map of its WWID.
LEMMA AttachedKeeps ==
  ASSUME NEW w, Good(w), NEW d \in Devs, NEW m \in Wwids, w.pv[d].init # None,
         w.pv[d].wwid = m, NEW r, r = Attached(w, d, m)
  PROVE  /\ Good(r) /\ Touches(w, r, m) /\ r.mp[m].known /\ r.tab = w.tab
         /\ Kin(w, r, m)
         /\ Sound(w) /\ w.pv[d].mpp = None
            => Sound(r) /\ (Sep(w, m) => Held(r, m))
<1> DEFINE known == w.mp[m].known
           k == IF known THEN m ELSE None
           a == [w EXCEPT !.pv[d].mpp = k]
           b == [a EXCEPT !.mp[m] = NewMp]
<1>1. w \in StateRec /\ w.pv[d] \in PathRec  BY GoodFacts
<1>2. k \in WN  BY DEF WN
<1>3. r = IF known THEN a ELSE b  BY DEF Attached
<1>4. known \in BOOLEAN  BY GoodFacts DEF MpRec
<1>5. k # None => w.mp[k].known  OBVIOUS
<1>6. k \in {None, m}  OBVIOUS
<1> HIDE DEF k
<1>7. /\ OnePath(w, a, d)
      /\ a.pv[d].init = w.pv[d].init /\ a.pv[d].wwid = w.pv[d].wwid /\ a.pv[d].mpp = k
  <2>1. w \in StateRec  BY <1>1
  <2>2. QED  BY <1>1, <2>1, <1>2 DEF OnePath, StateRec, PathRec
<1> HIDE DEF a
<1>8. Good(a)  BY <1>5, <1>7, OnePathGood
<1>9. Touches(w, a, m)
  <2>1. \A e \in Devs : /\ a.pv[e].init = w.pv[e].init /\ a.pv[e].wwid = w.pv[e].wwid
                        /\ a.pv[e].mpp \in {None, m, w.pv[e].mpp}
    BY <1>6, <1>7 DEF OnePath
  <2>2. QED  BY <1>7, <2>1 DEF OnePath, Touches, Local, LiveKept
<1>10. a.mp = w.mp /\ a.tab = w.tab  BY <1>7 DEF OnePath
<1>11. ASSUME Sound(w), w.pv[d].mpp = None
       PROVE  Sound(a) /\ (Sep(w, m) => Held(a, m))
  <2>1. Sound(a)  BY <1>7, <1>11, OnePathSound
  <2>2. MineSound(w, m) /\ w.mp[m].paths \subseteq Devs /\ w.mp[m].pg \subseteq Devs
    BY <1>11, MineFacts
  <2>3. \A e \in w.mp[m].paths \cup w.mp[m].pg : a.pv[e] = w.pv[e]
    BY <1>7, <1>11, <2>2, MapsAssumption DEF MineSound, OnePath
  <2>4. QED  BY <1>10, <2>1, <2>3 DEF Sep, Held
<1>12. Kin(w, a, m)
  <2>1. m \in LunsOf(w, d)  BY LunsHas, MapsAssumption
  <2>2. a.pv[d].wwid \in LunsOf(w, d) \cup {None} /\ a.pv[d].mpp \in LunsOf(w, d) \cup {None}
    BY <1>6, <1>7, <2>1, LunsHas
  <2>3. NoNew(w, a)  BY <1>7, <2>2, OnePathNoNew
  <2>4. \A e \in Devs : m \notin LunsOf(w, e) => a.pv[e] = w.pv[e]
    BY <1>7, <2>1 DEF OnePath
  <2>5. QED  BY <2>3, <2>4 DEF Kin
<1>13. CASE known  BY <1>3, <1>8, <1>9, <1>10, <1>11, <1>13, <1>12
<1>14. CASE ~known
  <2>1. ~a.mp[m].known  BY <1>10, <1>14
  <2>2. /\ Keeps(a, b, m) /\ b.mp[m] = NewMp /\ b.mp[m].known /\ b.tab = a.tab
    <3>1. b = WithMp(a, m, NewMp)  BY DEF WithMp
    <3> HIDE DEF b
    <3>2. QED  BY <1>8, <2>1, <3>1, NewMapKeeps
  <2> HIDE DEF b
  <2>3. Touches(w, b, m)  BY <1>9, <2>2, TouchesTrans DEF Keeps
  <2>4. Held(b, m)  BY <2>2 DEF Held, NewMp, NoMp
  <2>5. Kin(w, b, m)  BY <1>12, <2>2, KinTrans DEF Keeps
  <2>6. QED  BY <1>3, <1>10, <1>11, <1>14, <2>2, <2>3, <2>4, <2>5 DEF Keeps
<1>15. QED  BY <1>13, <1>14

\* ev_add_path(), on all its ways: the path has no WWID, the map waits for its
\* uevent, the first or the second reload works, a creation fails and drops the
\* map, the map cannot be read back. A reload that is given up orphans the path:
\* that is sound only when it has left the map, which takes a second reload that
\* can fail by nothing but the kernel's refusal of it.
LEMMA EvAddKeeps ==
  ASSUME NEW w, Good(w), NEW d \in Devs, w.pv[d].init # None,
         NEW need \in BOOLEAN, NEW o \in Outcomes, dev \in [Devs -> WN],
         NEW r, r = ev_add_path(w, d, need, o)
  PROVE  /\ Good(r) /\ r.broken = w.broken
         /\ /\ Sound(w) /\ w.pv[d].mpp = None /\ "load" \notin Failures /\ Apart(r)
            /\ w.pv[d].wwid # None => Sep(w, w.pv[d].wwid)
            => Sound(r)
         /\ NoNew(w, r)
         /\ w.pv[d].wwid # None => Kin(w, r, w.pv[d].wwid)
         /\ w.pv[d].wwid = None => \A e \in Devs \ {d} : r.pv[e] = w.pv[e]
         /\ Sound(w) /\ w.pv[d].mpp = None => Loads(w, r)
<1> DEFINE m      == w.pv[d].wwid
           known  == w.mp[m].known
           a0     == [w EXCEPT !.pv[d].mpp = IF known THEN m ELSE None]
           v      == IF known THEN verify_paths(adopt_paths(a0, m), m)
                     ELSE adopt_paths([a0 EXCEPT !.mp[m] = NewMp], m)
           first  == setup_map(v, m)
           y      == adopt_paths(first, m)
           z      == verify_paths(y, m)
           again  == setup_map(z, m)
           s      == IF domap_ok(first, m, TRUE, o) \/ w.tab[m] = NoTab THEN first ELSE again
           ok     == domap_ok(s, m, TRUE, o)
           t      == IF ok THEN domap(s, m) ELSE s
           end    == setup_multipath(t, m, o)
           late   == [w EXCEPT !.mp[m].wait = 2]
           drop   == remove_map(IF o.fail = "setup" THEN v ELSE s, m)
           waits  == known /\ w.mp[m].wait > 0 /\ w.mp[m].pg # {} /\ o.up
           lone   == ~known /\ ~should_multipath(w, d, o)
           gone   == o.fail = "setup" \/ (~ok /\ s.tab[m] = NoTab)
           a      == Attached(w, d, m)
           x      == adopt_paths(a, m)
<1>1. r = IF m = None THEN orphan_path(w, {d})
          ELSE IF waits THEN orphan_path(late, {d})
          ELSE IF lone THEN orphan_path(w, {d})
          ELSE IF ~need THEN v
          ELSE IF gone THEN orphan_path(drop, {d})
          ELSE IF ok /\ Rc(end, m, o) = "OK" THEN end
          ELSE orphan_path(end, {d})
  BY DEF ev_add_path
<1>2. v = IF known THEN verify_paths(x, m) ELSE x
  <2>1. CASE known
    <3>1. a = a0  BY <2>1 DEF Attached
    <3> HIDE DEF a, a0
    <3>2. QED  BY <2>1, <3>1
  <2>2. CASE ~known
    <3>1. a = [a0 EXCEPT !.mp[m] = NewMp]  BY <2>2 DEF Attached
    <3> HIDE DEF a
    <3>2. QED  BY <2>2, <3>1
  <2>3. QED  BY <2>1, <2>2
<1>3. w.pv[d].wwid \in WN /\ w \in StateRec  BY GoodFacts DEF PathRec
<1> HIDE DEF v, a, a0, waits, lone
<1>4. CASE m = None \/ lone
  <2>1. r = orphan_path(w, {d}) \/ waits
    BY <1>1, <1>4
  <2>2. ~waits \/ m = None  BY <1>4 DEF waits, lone
  <2>3. r = orphan_path(w, {d})
    BY <1>1, <1>4, <2>2
  <2>4. m # None => m \in LunsOf(w, d)  BY LunsHas
  <2>5. QED  BY <2>3, <2>4, OrphanOne, LoadsSame DEF Kin
<1>5. CASE m # None /\ waits
  <2>1. m \in Wwids /\ w.mp[m].known  BY <1>3, <1>5 DEF WN, waits
  <2>2. Keeps(w, late, m) /\ late.pv = w.pv /\ late.tab = w.tab  BY <2>1, WaitKeeps
  <2>3. r = orphan_path(late, {d})  BY <1>1, <1>5
  <2> HIDE DEF late
  <2>4. Good(late) /\ (Sound(w) => Sound(late))  BY <2>2 DEF Keeps
  <2>5. late.broken = w.broken  BY <2>2 DEF Keeps, Touches, Local
  <2>6. Kin(w, late, m)  BY <2>2 DEF Keeps
  <2>7. NoNew(w, r)  BY <2>3, <2>4, <2>6, OrphanOne, NoNewTrans DEF Kin
  <2>8. m \in LunsOf(w, d)  BY <1>5, LunsHas
  <2>9. Kin(w, r, m)  BY <2>2, <2>3, <2>4, <2>7, <2>8, OrphanOne DEF Kin
  <2>10. r.tab = w.tab  BY <2>2, <2>3, <2>4, OrphanOne
  <2>11. m # None  BY <1>5
  <2>12. QED  BY <2>2, <2>3, <2>4, <2>5, <2>7, <2>9, <2>10, <2>11, OrphanOne, LoadsSame
<1>6. CASE m # None /\ ~waits /\ ~lone
  <2>1. m \in Wwids  BY <1>3, <1>6 DEF WN
  <2>2. /\ Good(a) /\ Touches(w, a, m) /\ a.mp[m].known /\ a.tab = w.tab
        /\ Sound(w) /\ w.pv[d].mpp = None => Sound(a) /\ (Sep(w, m) => Held(a, m))
        /\ Kin(w, a, m)
    <3>1. a = Attached(w, d, m)  BY DEF a
    <3>2. w.pv[d].wwid = m  OBVIOUS
    <3> HIDE DEF m
    <3>3. QED  BY <2>1, <3>1, <3>2, AttachedKeeps
  <2>3. Keeps(a, x, m) /\ x.mp[m].known /\ x.tab = a.tab  BY <2>1, <2>2, AdoptKeeps
  <2>4. Good(x)  BY <2>3 DEF Keeps
  <2> HIDE DEF x
  <2>5. Keeps(a, v, m) /\ v.mp[m].known /\ v.tab = w.tab
    <3>1. CASE known
      <4>1. Keeps(x, v, m) /\ v.mp[m].known /\ v.tab = x.tab
        BY <1>2, <2>1, <2>3, <2>4, <3>1, VerifyKeeps
      <4>2. QED  BY <2>2, <2>3, <4>1, KeepsTrans
    <3>2. CASE ~known  BY <1>2, <2>2, <2>3, <3>2
    <3>3. QED  BY <3>1, <3>2
  <2>6. Good(v)  BY <2>5 DEF Keeps
  <2>7. first = setup_map(v, m)  OBVIOUS
  <2>8. Keeps(v, first, m) /\ first.mp[m].known /\ first.tab = v.tab
    BY <2>1, <2>5, <2>6, SetupMapKeeps
  <2>9. Good(first)  BY <2>8 DEF Keeps
  <2> HIDE DEF first
  <2>10. Keeps(first, y, m) /\ y.mp[m].known /\ y.tab = first.tab
    BY <2>1, <2>8, <2>9, AdoptKeeps
  <2>11. Good(y)  BY <2>10 DEF Keeps
  <2> HIDE DEF y
  <2>12. Keeps(y, z, m) /\ z.mp[m].known /\ z.tab = y.tab
    BY <2>1, <2>10, <2>11, VerifyKeeps
  <2>13. Good(z)  BY <2>12 DEF Keeps
  <2> HIDE DEF z
  <2>14. again = setup_map(z, m)  OBVIOUS
  <2>15. Keeps(z, again, m) /\ again.mp[m].known /\ again.tab = z.tab
    BY <2>1, <2>12, <2>13, SetupMapKeeps
  <2>16. Good(again)  BY <2>15 DEF Keeps
  <2> HIDE DEF again
  <2>17. Keeps(first, again, m)  BY <2>10, <2>12, <2>15, KeepsTrans
  <2>18. Keeps(a, s, m) /\ s.mp[m].known /\ s.tab = w.tab
    <3>1. s = first \/ s = again  OBVIOUS
    <3>2. Keeps(a, first, m)  BY <2>5, <2>8, KeepsTrans
    <3>3. Keeps(a, again, m)  BY <3>2, <2>17, KeepsTrans
    <3> HIDE DEF s
    <3>4. QED  BY <2>5, <2>8, <2>10, <2>12, <2>15, <3>1, <3>2, <3>3
  <2>19. Good(s)  BY <2>18 DEF Keeps
  <2>20. s = first \/ s = again  OBVIOUS
  <2>21. s = again \/ domap_ok(s, m, TRUE, o) \/ w.tab[m] = NoTab  OBVIOUS
  <2> HIDE DEF s
  <2>22. Keeps(s, t, m) /\ t.mp[m].known
    BY <2>1, <2>18, <2>19, DomapKeeps, KeepsSelf
  <2>23. Good(t)  BY <2>22 DEF Keeps
  <2>24. t = IF ok THEN domap(s, m) ELSE s  OBVIOUS
  <2> HIDE DEF t
  <2>25. /\ Keeps(t, end, m) /\ end.tab = t.tab /\ Clean(t, end)
         /\ Rc(t, m, o) # "OK" => \A e \in Devs : end.pv[e].mpp # m
    BY <2>1, <2>22, <2>23, SetupKeeps
  <2>26. Good(end) /\ Keeps(a, end, m)
    BY <2>18, <2>22, <2>25, KeepsTrans DEF Keeps
  <2>27. Rc(end, m, o) = Rc(t, m, o)  BY <2>25 DEF Rc
  <2> HIDE DEF end
  <2>28. /\ Keeps(a, drop, m) /\ \A e \in Devs : drop.pv[e].mpp # m
         /\ drop.tab = w.tab
    <3> DEFINE b == IF o.fail = "setup" THEN v ELSE s
    <3>1. Good(b) /\ Keeps(a, b, m) /\ b.tab = w.tab  BY <2>5, <2>6, <2>18, <2>19
    <3> HIDE DEF b
    <3>2. /\ Keeps(b, remove_map(b, m), m) /\ \A e \in Devs : remove_map(b, m).pv[e].mpp # m
          /\ remove_map(b, m).tab = b.tab
      BY <2>1, <3>1, RemoveMapKeeps
    <3>3. drop = remove_map(b, m)  BY DEF b
    <3> HIDE DEF drop
    <3>4. QED  BY <3>1, <3>2, <3>3, KeepsTrans
  <2>29. Good(drop)  BY <2>28 DEF Keeps
  <2> HIDE DEF drop, ok
  <2>30. r = IF ~need THEN v
             ELSE IF gone THEN orphan_path(drop, {d})
             ELSE IF ok /\ Rc(end, m, o) = "OK" THEN end
             ELSE orphan_path(end, {d})
    BY <1>1, <1>6
  <2> HIDE DEF gone
  <2>31. Good(r) /\ Touches(a, r, m)
    <3>1. CASE r = v  BY <3>1, <2>5 DEF Keeps
    <3>2. CASE r = end  BY <3>2, <2>26 DEF Keeps
    <3>3. CASE r = orphan_path(drop, {d})
      <4>1. Good(r) /\ Touches(drop, r, m)  BY <3>3, <2>29, OrphanKeeps
      <4>2. QED  BY <4>1, <2>28, TouchesTrans DEF Keeps
    <3>4. CASE r = orphan_path(end, {d})
      <4>1. Good(r) /\ Touches(end, r, m)  BY <3>4, <2>26, OrphanKeeps
      <4>2. QED  BY <4>1, <2>26, TouchesTrans DEF Keeps
    <3>5. QED  BY <2>30, <3>1, <3>2, <3>3, <3>4
  <2>32. r.broken = w.broken  BY <2>2, <2>31 DEF Touches, Local
  <2>33. Kin(w, r, m)
    <3>1. \A q : Keeps(a, q, m) => Kin(w, q, m)  BY <2>2, KinTrans DEF Keeps
    <3>2. m \in LunsOf(w, d)  BY <1>6, LunsHas
    <3>3. CASE r = v \/ r = end  BY <2>5, <2>26, <3>1, <3>3
    <3>4. ASSUME NEW q, Good(q), Kin(w, q, m), r = orphan_path(q, {d}) PROVE Kin(w, r, m)
      <4>1. NoNew(q, r) /\ \A e \in Devs \ {d} : r.pv[e] = q.pv[e]  BY <3>4, OrphanOne
      <4>2. NoNew(w, r)  BY <3>4, <4>1, NoNewTrans DEF Kin
      <4>3. \A e \in Devs : m \notin LunsOf(w, e) => r.pv[e] = w.pv[e]
        BY <3>2, <3>4, <4>1 DEF Kin
      <4>4. QED  BY <4>2, <4>3 DEF Kin
    <3>5. CASE r = orphan_path(drop, {d})  BY <2>28, <2>29, <3>1, <3>4, <3>5
    <3>6. CASE r = orphan_path(end, {d})  BY <2>26, <3>1, <3>4, <3>6
    <3>7. QED  BY <2>30, <3>3, <3>5, <3>6
  <2>34. ASSUME Sound(w), w.pv[d].mpp = None, "load" \notin Failures, Apart(r), Sep(w, m)
         PROVE  Sound(r)
    <3>1. Sound(a) /\ Held(a, m)  BY <2>2, <2>34
    <3>2. a.pv[d].mpp \in {None, m}  BY <2>2, <2>34 DEF Touches, Local
    <3>3. \A q : Keeps(a, q, m) => Sound(q) /\ q.pv[d].mpp \in {None, m}
      BY <3>1, <3>2 DEF Keeps, Touches, Local
    <3>4. CASE r = v \/ r = end  BY <3>3, <3>4, <2>5, <2>26
    <3>5. CASE r = orphan_path(drop, {d})
      <4>1. Sound(drop) /\ drop.pv[d].mpp = None  BY <3>3, <2>28
      <4>2. QED  BY <3>5, <4>1, <2>29, OrphanOne
    <3>6. CASE r = orphan_path(end, {d}) /\ ~gone
      <4>1. ok
        <5>1. CASE s = again
          <6>1. Held(x, m)  BY <2>1, <2>2, <3>1, HeldKept DEF x
          <6>2. Held(v, m)  BY <2>1, <2>4, <1>2, <6>1, HeldKept
          <6>3. Held(first, m)  BY <2>1, <2>6, <6>2, HeldKept DEF first
          <6>4. Held(y, m)  BY <2>1, <2>9, <6>3, HeldKept DEF y
          <6>5. Held(z, m)  BY <2>1, <2>11, <6>4, HeldKept DEF z
          <6>6. Held(again, m)  BY <2>1, <2>13, <6>5, HeldKept DEF again
          <6>7. Keeps(a, z, m) /\ Keeps(a, again, m)
            BY <2>5, <2>8, <2>10, <2>12, <2>15, KeepsTrans
          <6>8. Sound(z) /\ Sound(again)  BY <3>3, <6>7
          <6>9. \A e \in z.mp[m].paths : dev[e] # None /\ z.pv[e].init # "REMOVED"
            <7>1. \A e \in z.mp[m].paths : dev[e] # None
              BY <2>1, <2>11, VerifiedHere DEF z
            <7>2. QED  BY <2>1, <6>8, <7>1 DEF Sound, Here
          <6>10. again.mp[m].pg = z.mp[m].paths /\ again.pv = z.pv
            <7>1. z \in StateRec  BY <2>13 DEF Good
            <7>2. SetupMapPost(z, again, m)  BY <2>1, <7>1, SetupMapIs DEF again
            <7>3. QED  BY <7>2 DEF SetupMapPost
          <6>11. Touches(again, r, m)
            <7>1. Keeps(s, end, m)  BY <2>22, <2>25, KeepsTrans
            <7>2. Touches(end, r, m)  BY <3>6, <2>26, OrphanKeeps
            <7>3. QED  BY <5>1, <7>1, <7>2, TouchesTrans DEF Keeps
          <6>12. Loadable(again, m)
            BY <2>1, <2>16, <2>34, <6>6, <6>8, <6>9, <6>10, <6>11, IsLoadable
          <6>13. o.fail # "load"  BY <2>34 DEF Outcomes, Normal, None
          <6>14. QED  BY <5>1, <6>12, <6>13 DEF ok, domap_ok
        <5>2. CASE s # again
          <6>1. ok \/ w.tab[m] = NoTab  BY <2>21, <5>2 DEF ok
          <6>2. QED  BY <6>1, <3>6, <2>18 DEF gone
        <5>3. QED  BY <5>1, <5>2
      <4>2. CASE Rc(end, m, o) = "OK"
        <5>1. r = end \/ r = v \/ r = orphan_path(drop, {d})
          BY <2>30, <4>1, <4>2
        <5>2. QED  BY <5>1, <3>4, <3>5
      <4>3. CASE Rc(end, m, o) # "OK"
        <5>1. Sound(end) /\ end.pv[d].mpp = None  BY <3>3, <4>3, <2>25, <2>26, <2>27
        <5>2. QED  BY <3>6, <5>1, <2>26, OrphanOne
      <4>4. QED  BY <4>2, <4>3
    <3>7. QED  BY <2>30, <3>4, <3>5, <3>6
  <2>35. ASSUME Sound(w), w.pv[d].mpp = None PROVE Loads(w, r)
    <3>1. Sound(v) /\ Sound(z)
      <4>1. Sound(a)  BY <2>2, <2>35
      <4>2. Keeps(a, z, m)  BY <2>5, <2>8, <2>10, <2>12, KeepsTrans
      <4>3. QED  BY <2>5, <4>1, <4>2 DEF Keeps
    <3>2. Loads(w, end)
      <4>1. CASE ok /\ s = first
        <5>1. Loads(v, end)  BY <2>1, <2>5, <2>6, <2>25, <2>7, <2>24, <3>1, <4>1, LoadOk
        <5>2. QED  BY <2>5, <5>1 DEF Loads
      <4>2. CASE ok /\ s = again
        <5>1. Loads(z, end)  BY <2>1, <2>12, <2>13, <2>25, <2>14, <2>24, <3>1, <4>2, LoadOk
        <5>2. z.tab = w.tab  BY <2>5, <2>8, <2>10, <2>12
        <5>3. QED  BY <5>1, <5>2 DEF Loads
      <4>3. CASE ~ok  BY <2>18, <2>25, <2>24, <4>3, LoadsSame
      <4>4. QED  BY <2>20, <4>1, <4>2, <4>3
    <3>3. CASE r = v  BY <2>5, <3>3, LoadsSame
    <3>4. CASE r = orphan_path(drop, {d})
      <4>1. r.tab = drop.tab  BY <2>29, <3>4, OrphanOne
      <4>2. QED  BY <2>28, <4>1, LoadsSame
    <3>5. CASE r = orphan_path(end, {d})
      <4>1. r.tab = end.tab /\ Clean(end, r)  BY <2>26, <3>5, OrphanOne
      <4>2. QED  BY <3>2, <4>1, LoadsClean
    <3>6. QED  BY <2>30, <3>2, <3>3, <3>4, <3>5
  <2>36. m # None  BY <1>6
  <2>37. QED  BY <2>35, <2>36, <1>6, <2>31, <2>32, <2>34, <2>33 DEF Kin
<1>7. QED  BY <1>4, <1>5, <1>6

\* Changes of one struct path compose, and what pathinfo() may change
LEMMA OnePathTrans ==
  ASSUME NEW w, NEW r, NEW q, NEW d \in Devs, OnePath(w, r, d), OnePath(r, q, d)
  PROVE  OnePath(w, q, d)
BY DEF OnePath

WithPath(w, d, x) == [w EXCEPT !.pv[d] = x]

LEMMA SetPath ==
  ASSUME NEW w, w \in StateRec, NEW d \in Devs, NEW x \in PathRec,
         NEW r, r = WithPath(w, d, x)
  PROVE  OnePath(w, r, d) /\ r.pv[d] = x
BY DEF WithPath, OnePath, StateRec

LEMMA PathinfoIs ==
  ASSUME NEW w, w \in StateRec, NEW d \in Devs, w.pv[d].init # None,
         NEW o \in Outcomes, dev \in [Devs -> WN],
         NEW r, r = pathinfo(w, d, o)[1]
  PROVE  /\ OnePath(w, r, d) /\ r.pv[d].mpp = w.pv[d].mpp /\ r.pv[d].init # None
         /\ r.pv[d].init = "REMOVED" => w.pv[d].init = "REMOVED"
         /\ r.pv[d].wwid \in {w.pv[d].wwid, dev[d]}
         /\ o.uid # "yes" => r.pv[d].wwid = w.pv[d].wwid
         /\ pathinfo(w, d, o)[2] =>
               dev[d] # None /\ (o.uid = "yes" => r.pv[d].wwid = dev[d])
         /\ ~pathinfo(w, d, o)[2] =>
               dev[d] = None \/ o.fail = "info" \/ w.pv[d].init = "REMOVED"
<1> DEFINE x == w.pv[d]
           y == [x EXCEPT !.wwid = dev[d], !.init = "OK"]
           z == [x EXCEPT !.init = IF @ = "FAILED" THEN @ ELSE "MISSING"]
           p == pathinfo(w, d, o)
<1>1. x \in PathRec /\ dev[d] \in WN  BY DEF StateRec
<1>2. y \in PathRec /\ y.mpp = x.mpp /\ y.init = "OK" /\ y.wwid = dev[d]
  BY <1>1 DEF PathRec, Inits
<1>3. z \in PathRec /\ z.mpp = x.mpp /\ z.init \in {"FAILED", "MISSING"} /\ z.wwid = x.wwid
  BY <1>1 DEF PathRec, Inits
<1>4. o.uid \in {"yes", "no", "blank"}  BY DEF Outcomes, Normal
<1>5. OnePath(w, w, d)  BY DEF OnePath
<1>6. \/ p[1] = w /\ (p[2] => o.uid = "blank")
      \/ p[1] = WithPath(w, d, y) /\ o.uid = "yes"
      \/ p[1] = WithPath(w, d, z) /\ o.uid = "no"
  <2>1. [w EXCEPT !.pv[d].wwid = dev[d], !.pv[d].init = "OK"] = WithPath(w, d, y)
    BY <1>1 DEF WithPath, StateRec, PathRec
  <2>2. [w EXCEPT !.pv[d].init = IF @ = "FAILED" THEN @ ELSE "MISSING"] = WithPath(w, d, z)
    BY <1>1 DEF WithPath, StateRec, PathRec
  <2> DEFINE a == [w EXCEPT !.pv[d].wwid = dev[d], !.pv[d].init = "OK"]
             b == [w EXCEPT !.pv[d].init = IF @ = "FAILED" THEN @ ELSE "MISSING"]
             c == CASE o.uid = "yes" -> a [] o.uid = "no" -> b [] o.uid = "blank" -> w
  <2>3. p = IF dev[d] = None \/ o.fail = "info" \/ w.pv[d].init = "REMOVED" THEN <<w, FALSE>>
            ELSE <<c, TRUE>>
    BY DEF pathinfo
  <2> HIDE DEF a, b, p
  <2>4. \/ c = a /\ o.uid = "yes"
        \/ c = b /\ o.uid = "no"
        \/ c = w /\ o.uid = "blank"
    BY <1>4
  <2> HIDE DEF c
  <2>5. p[1] = c \/ (p[1] = w /\ ~p[2])  BY <2>3
  <2>6. QED  BY <2>1, <2>2, <2>4, <2>5 DEF a, b
<1>7. /\ p[2] => dev[d] # None
      /\ ~p[2] => dev[d] = None \/ o.fail = "info" \/ w.pv[d].init = "REMOVED"
  BY DEF pathinfo
<1> HIDE DEF y, z, p
<1>8. CASE p[1] = w /\ (p[2] => o.uid = "blank")  BY <1>5, <1>7, <1>8 DEF p
<1>9. CASE p[1] = WithPath(w, d, y) /\ o.uid = "yes"
  <2>1. OnePath(w, r, d) /\ r.pv[d] = y  BY <1>2, <1>9, SetPath DEF p
  <2>2. QED  BY <2>1, <1>2, <1>7, <1>9 DEF None, p
<1>10. CASE p[1] = WithPath(w, d, z) /\ o.uid = "no"
  <2>1. OnePath(w, r, d) /\ r.pv[d] = z  BY <1>3, <1>10, SetPath DEF p
  <2>2. QED  BY <2>1, <1>3, <1>7, <1>10 DEF None, p
<1>11. QED  BY <1>6, <1>8, <1>9, <1>10

\* A use of a freed path is recorded; it changes nothing else here.
LEMMA BrokenKeeps ==
  ASSUME NEW w, Good(w), NEW x \in {"twice", "freed"},
         NEW r, r = [w EXCEPT !.broken = x]
  PROVE  /\ Good(r) /\ r.pv = w.pv /\ r.mp = w.mp /\ r.tab = w.tab
         /\ Sound(w) => Sound(r)
         /\ NoNew(w, r)
<1>1. w \in StateRec  BY DEF Good
<1>2. r \in StateRec /\ r.pv = w.pv /\ r.mp = w.mp /\ r.tab = w.tab  BY <1>1 DEF StateRec
<1>3. Good(r)  BY <1>2 DEF Good
<1>4. Sound(w) => Sound(r)  BY <1>2 DEF Sound, Own, Named, Here
<1>5. QED  BY <1>2, <1>3, <1>4, PathsNoNew

\* A change of a path without a map separates no tables.
LEMMA SepOne ==
  ASSUME NEW w, Good(w), Sound(w), NEW d \in Devs, NEW r, OnePath(w, r, d),
         w.pv[d].mpp = None, NEW m \in Wwids, Sep(w, m)
  PROVE  Sep(r, m)
<1>1. MineSound(w, m) /\ w.mp[m].paths \subseteq Devs /\ w.mp[m].pg \subseteq Devs
  BY MineFacts
<1>2. \A e \in w.mp[m].paths \cup w.mp[m].pg : r.pv[e] = w.pv[e]
  BY <1>1, MapsAssumption DEF MineSound, OnePath
<1>3. QED  BY <1>2 DEF Sep, OnePath

LEMMA SepAll ==
  ASSUME NEW w, Good(w), Sound(w), Apart(w), NEW m \in Wwids
  PROVE  Sep(w, m)
<1>1. SUFFICES ASSUME NEW e \in w.mp[m].paths \cup w.mp[m].pg,
                      w.pv[e].init # "REMOVED", NEW n \in Wwids \ {m}
               PROVE  e \notin w.tab[n]
  BY DEF Sep
<1>2. e \in Devs /\ w.pv[e].mpp = m /\ w.pv[e].init # None
  BY MineFacts DEF MineSound, In
<1>3. QED  BY <1>1, <1>2, MapsAssumption DEF Apart

\* Each device is connected with one LUN at most.
Sole(w) == \A d \in Devs : \A a, b \in LunsOf(w, d) : a = b

\* alloc_path_with_pathinfo(), store_path() and ev_add_path() of a new path
LEMMA AddNewKeeps ==
  ASSUME NEW w, Good(w), NEW d \in Devs, NEW need \in BOOLEAN, NEW o \in Outcomes,
         dev \in [Devs -> WN], NEW r, r = AddNew(w, d, need, o)
  PROVE  /\ Good(r)
         /\ /\ Sound(w) /\ "load" \notin Failures /\ Apart(r)
            /\ dev[d] # None /\ o.uid = "yes" => Sep(w, dev[d])
            => Sound(r)
         /\ o.fail = "info" => r = w
         /\ dev[d] = None => r = w
         /\ d \in In(w) => r.pv = w.pv
         /\ \A e \in Devs \ {d} : \/ r.pv[e] = w.pv[e]
                                  \/ o.uid = "yes" /\ dev[d] \in LunsOf(w, e)
         /\ Sound(w) => Loads(w, r)
         /\ NoNew(w, r)
<1> DEFINE x == [NoPath EXCEPT !.init = "NEW"]
           a == WithPath(w, d, x)
           p == pathinfo(a, d, o)
           b == p[1]
<1>1. r = IF dev[d] = None \/ o.fail = "info" THEN w
          ELSE IF d \in In(w) THEN [w EXCEPT !.broken = "twice"]
          ELSE ev_add_path(b, d, need, o)
  BY DEF AddNew, WithPath
<1>2. w \in StateRec  BY DEF Good
<1>3. x \in PathRec /\ x.init = "NEW" /\ x.mpp = None /\ x.wwid = None
  BY DEF NoPath, PathRec, WN, Inits
<1> HIDE DEF x
<1>4. OnePath(w, a, d) /\ a.pv[d] = x  BY <1>2, <1>3, SetPath
<1> HIDE DEF a
<1>5. a \in StateRec  BY <1>4 DEF OnePath
<1>6. a.pv[d].init # None  BY <1>3, <1>4 DEF None
<1>7. /\ OnePath(a, b, d) /\ b.pv[d].mpp = None /\ b.pv[d].init # None
      /\ b.pv[d].wwid # None => b.pv[d].wwid = dev[d] /\ o.uid = "yes"
  <2>1. /\ OnePath(a, b, d) /\ b.pv[d].mpp = a.pv[d].mpp /\ b.pv[d].init # None
        /\ b.pv[d].wwid \in {a.pv[d].wwid, dev[d]}
        /\ o.uid # "yes" => b.pv[d].wwid = a.pv[d].wwid
    BY <1>5, <1>6, PathinfoIs
  <2> HIDE DEF b
  <2>2. QED  BY <2>1, <1>3, <1>4
<1> HIDE DEF b
<1>8. OnePath(w, b, d)  BY <1>4, <1>7, OnePathTrans
<1>9. Good(b)  BY <1>7, <1>8, OnePathGood
<1>10. NoNew(w, b)  BY <1>7, <1>8, OnePathNoNew, LunsHas
<1>11. CASE dev[d] = None \/ o.fail = "info"  BY <1>1, <1>11, LoadsSame DEF NoNew
<1>12. CASE ~(dev[d] = None \/ o.fail = "info") /\ d \in In(w)
  <2>1. r = [w EXCEPT !.broken = "twice"]  BY <1>1, <1>12
  <2>2. r.tab = w.tab /\ r.pv = w.pv  BY <1>2, <2>1 DEF StateRec
  <2>3. QED  BY <1>12, <2>1, <2>2, BrokenKeeps, LoadsSame
<1>13. CASE ~(dev[d] = None \/ o.fail = "info") /\ d \notin In(w)
  <2>1. r = ev_add_path(b, d, need, o)  BY <1>1, <1>13
  <2>2. w.pv[d].mpp = None  BY <1>13, GoodFacts DEF In, NoPath
  <2>3. ASSUME Sound(w), "load" \notin Failures, Apart(r),
               dev[d] # None /\ o.uid = "yes" => Sep(w, dev[d])
        PROVE  Sound(r)
    <3>1. Sound(b)  BY <1>8, <2>2, <2>3, OnePathSound
    <3>2. b.pv[d].wwid # None => Sep(b, b.pv[d].wwid)
      <4>1. SUFFICES ASSUME b.pv[d].wwid # None PROVE Sep(b, dev[d])  BY <1>7
      <4>2. dev[d] # None /\ o.uid = "yes" /\ dev[d] \in Wwids  BY <1>7, <4>1 DEF WN
      <4>3. QED  BY <1>8, <2>2, <2>3, <4>2, SepOne
    <3>3. QED  BY <1>7, <1>9, <2>1, <2>3, <3>1, <3>2, EvAddKeeps
  <2>4. Good(r) /\ NoNew(b, r)  BY <1>7, <1>9, <2>1, EvAddKeeps
  <2>5. NoNew(w, r)  BY <1>10, <2>4, NoNewTrans
  <2>6. ASSUME Sound(w) PROVE Loads(w, r)
    <3>1. Sound(b)  BY <1>8, <2>2, <2>6, OnePathSound
    <3>2. Loads(b, r)  BY <1>7, <1>9, <2>1, <3>1, EvAddKeeps
    <3>3. QED  BY <1>8, <3>2 DEF Loads, OnePath
  <2>7. ASSUME NEW e \in Devs \ {d}, ~(o.uid = "yes" /\ dev[d] \in LunsOf(w, e))
        PROVE  r.pv[e] = w.pv[e]
    <3>1. b.pv[e] = w.pv[e]  BY <1>8 DEF OnePath
    <3>2. CASE b.pv[d].wwid = None
      <4>1. \A f \in Devs \ {d} : r.pv[f] = b.pv[f]  BY <1>7, <1>9, <2>1, <3>2, EvAddKeeps
      <4>2. QED  BY <3>1, <4>1
    <3>3. CASE b.pv[d].wwid # None
      <4>1. dev[d] \notin LunsOf(b, e)  BY <1>7, <1>10, <2>7, <3>3 DEF NoNew
      <4>2. Kin(b, r, dev[d])  BY <1>7, <1>9, <2>1, <3>3, EvAddKeeps
      <4>3. QED  BY <3>1, <4>1, <4>2 DEF Kin
    <3>4. QED  BY <3>2, <3>3
  <2>8. QED  BY <1>13, <2>3, <2>4, <2>5, <2>6, <2>7
<1>14. QED  BY <1>11, <1>12, <1>13

\* A path that has got its map's WWID back
LEMMA SoundButNamed ==
  ASSUME NEW w, NEW d, SoundBut(w, d), w.pv[d].wwid \in {w.pv[d].mpp, None}
  PROVE  Sound(w)
BY DEF SoundBut, Sound, Own, Named

\* A removed path is found again: it stays in its map, is removed for good and added
\* as a new one, or stays as it is when the removal fails. Between the removal and
\* the addition the old map may be reloaded; the addition does not touch what that
\* has loaded.
LEMMA ReaddKeeps ==
  ASSUME NEW w, Good(w), NEW d \in Devs, w.pv[d].init # None,
         NEW need \in BOOLEAN, NEW strict \in BOOLEAN, NEW o \in Outcomes,
         dev \in [Devs -> WN], NEW r, r = Readd(w, d, need, strict, o)
  PROVE  /\ Good(r)
         /\ Sound(w) /\ "load" \notin Failures /\ Apart(w) /\ Apart(r) => Sound(r)
         /\ NoNew(w, r)
         /\ Sound(w) /\ Sole(w) => Loads(w, r)
<1> DEFINE x == [NoPath EXCEPT !.init = "NEW"]
           a == WithPath(w, d, x)
           p == pathinfo(a, d, o)
           b == p[1]
           prev == w.pv[d].mpp
           y == [b EXCEPT !.pv[d].mpp = prev]
           e == ev_remove_path(y, d, TRUE, o)
           f == e[1]
           g == AddNew(f, d, need, o)
<1>1. r = IF prev = None
          THEN IF p[2] THEN ev_add_path(b, d, need, o) ELSE b
          ELSE IF p[2] /\ b.pv[d].wwid = prev THEN y
          ELSE IF e[2] /\ (p[2] \/ ~strict) THEN g
          ELSE IF d \in In(f) THEN f ELSE [f EXCEPT !.broken = "freed"]
  BY DEF Readd, WithPath
<1>2. w \in StateRec  BY DEF Good
<1>3. x \in PathRec /\ x.init = "NEW" /\ x.mpp = None /\ x.wwid = None
  BY DEF NoPath, PathRec, WN, Inits
<1> HIDE DEF x
<1>4. OnePath(w, a, d) /\ a.pv[d] = x  BY <1>2, <1>3, SetPath
<1> HIDE DEF a
<1>5. a \in StateRec  BY <1>4 DEF OnePath
<1>6. a.pv[d].init # None  BY <1>3, <1>4 DEF None
<1>7. /\ OnePath(a, b, d) /\ b.pv[d].mpp = None /\ b.pv[d].init \notin {None, "REMOVED"}
      /\ b.pv[d].wwid \in {None, dev[d]}
  <2>1. /\ OnePath(a, b, d) /\ b.pv[d].mpp = a.pv[d].mpp /\ b.pv[d].init # None
        /\ b.pv[d].init = "REMOVED" => a.pv[d].init = "REMOVED"
        /\ b.pv[d].wwid \in {a.pv[d].wwid, dev[d]}
    BY <1>5, <1>6, PathinfoIs
  <2> HIDE DEF b
  <2>2. QED  BY <2>1, <1>3, <1>4
<1>8. OnePath(w, b, d)
  <2> HIDE DEF b
  <2>1. QED  BY <1>4, <1>7, OnePathTrans
<1>9. o.uid = "yes" /\ dev[d] # None
      => (p[2] /\ b.pv[d].wwid = dev[d]) \/ o.fail = "info"
  <2>1. a.pv[d].init # "REMOVED"  BY <1>3, <1>4
  <2>2. QED  BY <1>5, <1>6, <2>1, PathinfoIs
<1> HIDE DEF b, p
<1>10. b \in StateRec  BY <1>8 DEF OnePath
<1>11. CASE prev = None
  <2>1. Good(b)  BY <1>7, <1>8, OnePathGood
  <2>2. Sound(w) => Sound(b)  BY <1>8, <1>11, OnePathSound
  <2>3. Sound(w) /\ Apart(w) /\ b.pv[d].wwid # None => Sep(b, b.pv[d].wwid)
    <3>1. b.pv[d].wwid \in WN  BY <1>10 DEF StateRec, PathRec
    <3>2. QED  BY <1>8, <1>11, <3>1, SepAll, SepOne DEF WN
  <2>4. NoNew(w, b)  BY <1>7, <1>8, OnePathNoNew, LunsHas
  <2>5. CASE p[2]
    <3>1. r = ev_add_path(b, d, need, o)  BY <1>1, <1>11, <2>5
    <3>2. NoNew(b, r)  BY <1>7, <2>1, <3>1, EvAddKeeps
    <3>3. NoNew(w, r)  BY <2>4, <3>2, NoNewTrans
    <3>4. ASSUME Sound(w) PROVE Loads(w, r)
      <4>1. Sound(b)  BY <2>2, <3>4
      <4>2. Loads(b, r)  BY <1>7, <2>1, <3>1, <4>1, EvAddKeeps
      <4>3. QED  BY <1>8, <4>2 DEF Loads, OnePath
    <3>5. Good(r)  BY <1>7, <2>1, <3>1, EvAddKeeps
    <3>6. ASSUME Sound(w), "load" \notin Failures, Apart(w), Apart(r) PROVE Sound(r)
      BY <1>7, <2>1, <2>2, <2>3, <3>1, <3>6, EvAddKeeps
    <3>7. QED  BY <3>3, <3>4, <3>5, <3>6
  <2>6. CASE ~p[2]
    <3>1. r = b  BY <1>1, <1>11, <2>6
    <3>2. Loads(w, r)  BY <1>8, <3>1, LoadsSame DEF OnePath
    <3>3. QED  BY <2>1, <2>2, <2>4, <3>1, <3>2
  <2>7. QED  BY <2>5, <2>6
<1>12. CASE prev # None
  <2>1. prev \in Wwids /\ w.mp[prev].known  BY <1>12, GoodFacts
  <2>2. /\ OnePath(w, y, d) /\ y.pv[d].mpp = prev
        /\ y.pv[d].init = b.pv[d].init /\ y.pv[d].wwid = b.pv[d].wwid
    <3>1. prev \in WN  BY <2>1 DEF WN
    <3>2. b.pv[d] \in PathRec  BY <1>10 DEF StateRec
    <3> HIDE DEF prev
    <3>3. OnePath(b, y, d) /\ y.pv[d].mpp = prev
          /\ y.pv[d].init = b.pv[d].init /\ y.pv[d].wwid = b.pv[d].wwid
      BY <1>10, <3>1, <3>2 DEF OnePath, StateRec, PathRec
    <3> HIDE DEF y
    <3>4. QED  BY <1>8, <3>3, OnePathTrans
  <2> HIDE DEF y
  <2>3. Good(y)  BY <1>7, <2>1, <2>2, OnePathGood
  <2>4. Sound(w) => SoundBut(y, d)  BY <1>7, <2>2, OnePathSoundBut
  <2>5. /\ Good(f)
        /\ SoundBut(y, d) => Sound(f) /\ OthersKept(y, f, prev)
        /\ Local(y, f, prev) /\ TabGrows(y, f, prev)
        /\ Kin(y, f, prev)
        /\ SoundBut(y, d) => Loads(y, f)
    <3>1. y.pv[d].mpp = prev  BY <2>2
    <3> HIDE DEF prev
    <3>2. QED  BY <1>12, <2>3, <3>1, EvRemoveKeeps
  <2> HIDE DEF f
  <2>6. NoNew(w, y)  BY <1>7, <2>2, OnePathNoNew, LunsHas
  <2>7. NoNew(w, f)  BY <2>5, <2>6, NoNewTrans DEF Kin
  <2>8. CASE p[2] /\ b.pv[d].wwid = prev
    <3>1. r = y  BY <1>1, <1>12, <2>8
    <3>2. y.pv[d].wwid \in {y.pv[d].mpp, None}  BY <2>2, <2>8
    <3>3. Loads(w, r)  BY <2>2, <3>1, LoadsSame DEF OnePath
    <3>4. QED  BY <2>3, <2>4, <2>6, <3>1, <3>2, <3>3, SoundButNamed
  <2>9. CASE ~(p[2] /\ b.pv[d].wwid = prev) /\ e[2] /\ (p[2] \/ ~strict)
    <3>1. r = g  BY <1>1, <1>12, <2>9
    <3>2. Good(r) /\ NoNew(f, r)  BY <2>5, <3>1, AddNewKeeps
    <3>3. NoNew(w, r)  BY <2>7, <3>2, NoNewTrans
    <3>4. ASSUME Sound(w), "load" \notin Failures, Apart(w), Apart(r)
          PROVE  Sound(r)
      <4>1. Sound(f) /\ OthersKept(y, f, prev)  BY <2>4, <2>5, <3>4
      <4>2. CASE dev[d] = None
        BY <2>5, <3>1, <3>4, <4>1, <4>2, AddNewKeeps
      <4>3. CASE dev[d] # None /\ dev[d] # prev
        <5>1. dev[d] \in Wwids  BY <4>3 DEF WN
        <5> DEFINE n == dev[d]
        <5>2. Sep(w, n)  BY <3>4, <5>1, SepAll
        <5>3. Sep(f, n)
          <6> SUFFICES ASSUME NEW q \in f.mp[n].paths \cup f.mp[n].pg,
                              f.pv[q].init # "REMOVED", NEW k \in Wwids \ {n}
                       PROVE  q \notin f.tab[k]
            BY DEF Sep
          <6>1. f.mp[n] = y.mp[n] /\ y.mp[n] = w.mp[n]
            BY <2>2, <2>5, <4>3, <5>1 DEF Local, OnePath
          <6>2. q \in Devs /\ w.pv[q].mpp = n
            BY <3>4, <5>1, <6>1, MineFacts DEF MineSound
          <6>3. q # d  BY <4>3, <6>2
          <6>4. y.pv[q] = w.pv[q]  BY <2>2, <6>2, <6>3 DEF OnePath
          <6>5. w.pv[q].init # "REMOVED"
            BY <4>1, <4>3, <5>1, <6>2, <6>4, MapsAssumption DEF OthersKept
          <6>6. q \notin w.tab[k]  BY <5>2, <6>1, <6>5 DEF Sep
          <6>7. y.tab = w.tab /\ y.mp = w.mp  BY <2>2 DEF OnePath
          <6>8. CASE k # prev  BY <2>5, <6>6, <6>7, <6>8 DEF Local
          <6>9. CASE k = prev
            <7>1. q \notin w.mp[prev].paths \cup w.mp[prev].pg
              BY <2>1, <3>4, <4>3, <6>2 DEF Sound, Own
            <7>2. QED  BY <2>5, <6>2, <6>6, <6>7, <6>9, <7>1 DEF TabGrows
          <6>10. QED  BY <6>8, <6>9
        <5>4. QED  BY <2>5, <3>1, <3>4, <4>1, <5>3, AddNewKeeps
      <4>4. CASE dev[d] # None /\ dev[d] = prev
        <5>1. o.uid = "yes" => o.fail = "info"  BY <1>9, <2>9, <4>4
        <5>2. QED  BY <2>5, <3>1, <3>4, <4>1, <5>1, AddNewKeeps
      <4>5. QED  BY <4>2, <4>3, <4>4
    <3>5. ASSUME Sound(w), Sole(w) PROVE Loads(w, r)
      <4>1. Sound(f) /\ Loads(y, f)  BY <2>4, <2>5, <3>5
      <4>2. y.tab = w.tab  BY <2>2 DEF OnePath
      <4>3. /\ Loads(f, r) /\ (o.fail = "info" \/ dev[d] = None => r = f)
            /\ d \in In(f) => r.pv = f.pv
            /\ \A q \in Devs \ {d} : \/ r.pv[q] = f.pv[q]
                                     \/ o.uid = "yes" /\ dev[d] \in LunsOf(f, q)
        BY <2>5, <3>1, <4>1, AddNewKeeps
      <4> SUFFICES ASSUME NEW k \in Wwids, NEW q \in Devs, q \in r.tab[k], q \notin w.tab[k]
                   PROVE  r.pv[q].init \notin {None, "REMOVED"}
        BY DEF Loads
      <4>4. CASE q \notin f.tab[k]  BY <4>3, <4>4 DEF Loads
      <4>5. CASE q \in f.tab[k]
        <5>1. f.pv[q].init \notin {None, "REMOVED"}  BY <4>1, <4>2, <4>5 DEF Loads
        <5>2. CASE r.pv[q] = f.pv[q]  BY <5>1, <5>2
        <5>3. CASE r.pv[q] # f.pv[q]
          <6>1. q # d  BY <4>3, <5>1, <5>3 DEF In
          <6>2. o.uid = "yes" /\ dev[d] \in LunsOf(f, q)  BY <4>3, <5>3, <6>1
          <6>3. k = prev  BY <2>5, <4>2, <4>5 DEF Local
          <6>4. k \in LunsOf(f, q)  BY <4>5, LunsHas
          <6>5. dev[d] = prev  BY <2>7, <3>5, <6>2, <6>3, <6>4 DEF Sole, NoNew
          <6>6. o.fail = "info"  BY <1>9, <1>12, <2>9, <6>2, <6>5
          <6>7. QED  BY <4>3, <5>3, <6>6
        <5>4. QED  BY <5>2, <5>3
      <4>6. QED  BY <4>4, <4>5
    <3>6. QED  BY <3>2, <3>4, <3>3, <3>5
  <2>10. CASE ~(p[2] /\ b.pv[d].wwid = prev) /\ ~(e[2] /\ (p[2] \/ ~strict))
    <3>1. r = f \/ r = [f EXCEPT !.broken = "freed"]  BY <1>1, <1>12, <2>10
    <3>2. Sound(w) => Loads(w, f)  BY <2>2, <2>4, <2>5 DEF Loads, OnePath
    <3>3. CASE r = f  BY <2>4, <2>5, <2>7, <3>3, <3>2
    <3>4. CASE r = [f EXCEPT !.broken = "freed"]
      <4>1. Good(r) /\ NoNew(f, r) /\ (Sound(f) => Sound(r))  BY <2>5, <3>4, BrokenKeeps
      <4>2. NoNew(w, r)  BY <2>7, <4>1, NoNewTrans
      <4>3. r.tab = f.tab /\ r.pv = f.pv
        <5>1. f \in StateRec  BY <2>5 DEF Good
        <5>2. QED  BY <3>4, <5>1 DEF StateRec
      <4>4. Sound(w) => Loads(w, r)  BY <3>2, <4>3 DEF Loads
      <4>5. QED  BY <2>4, <2>5, <4>1, <4>2, <4>4
    <3>5. QED  BY <3>1, <3>3, <3>4
  <2>11. QED  BY <2>8, <2>9, <2>10
<1>13. QED  BY <1>11, <1>12

\* uev_add_path(), for a path that is new, removed or waits for its WWID
LEMMA UevAddKeeps ==
  ASSUME NEW w, Good(w), NEW d \in Devs, NEW need \in BOOLEAN, NEW o \in Outcomes,
         dev \in [Devs -> WN], NEW r, r = uev_add_path(w, d, need, o)
  PROVE  /\ Good(r)
         /\ Sound(w) /\ "load" \notin Failures /\ Apart(w) /\ Apart(r) => Sound(r)
         /\ NoNew(w, r)
         /\ Sound(w) /\ Sole(w) => Loads(w, r)
<1> DEFINE x == w.pv[d]
           p == pathinfo(w, d, o)
           b == p[1]
           fresh == x.init \notin {None, "REMOVED"} /\ x.mpp = None /\ x.wwid = None
<1>1. \/ x.init = None /\ r = AddNew(w, d, need, o)
      \/ x.init = "REMOVED" /\ r = Readd(w, d, need, TRUE, o)
      \/ fresh /\ r = ev_add_path(b, d, need, o)
      \/ r = w
  <2>1. x.init = None => x.init # "REMOVED"  BY DEF None
  <2> DEFINE y == AddNew(w, d, need, o)
             z == Readd(w, d, need, TRUE, o)
             q == IF p[2] THEN ev_add_path(b, d, need, o) ELSE w
  <2>2. r = CASE x.init = None -> y
              [] x.init = "REMOVED" -> z
              [] fresh -> q
              [] OTHER -> w
    BY DEF uev_add_path
  <2>3. q = w \/ q = ev_add_path(b, d, need, o)  OBVIOUS
  <2> HIDE DEF y, z, q
  <2>4. \/ x.init = None /\ r = y
        \/ x.init = "REMOVED" /\ r = z
        \/ fresh /\ r = q
        \/ r = w
    BY <2>1, <2>2
  <2>5. QED  BY <2>3, <2>4 DEF y, z
<1>2. w \in StateRec  BY DEF Good
<1>3. CASE x.init = None /\ r = AddNew(w, d, need, o)
  <2>1. Sound(w) /\ Apart(w) /\ dev[d] # None => Sep(w, dev[d])  BY SepAll DEF WN
  <2>2. QED  BY <1>3, <2>1, AddNewKeeps
<1>4. CASE x.init = "REMOVED" /\ r = Readd(w, d, need, TRUE, o)
  BY <1>4, ReaddKeeps DEF None
<1>5. CASE fresh /\ r = ev_add_path(b, d, need, o)
  <2>1. /\ OnePath(w, b, d) /\ b.pv[d].mpp = None /\ b.pv[d].init # None
        /\ b.pv[d].wwid \in {x.wwid, dev[d]}
    BY <1>2, <1>5, PathinfoIs
  <2> HIDE DEF b, p
  <2>2. NoNew(w, b)  BY <2>1, OnePathNoNew, LunsHas
  <2>3. b.pv[d].wwid \in WN  BY <2>1 DEF OnePath, StateRec, PathRec
  <2>4. Good(b)  BY <2>1, OnePathGood
  <2>5. Sound(w) => Sound(b)  BY <1>5, <2>1, OnePathSound
  <2>6. Sound(w) /\ Apart(w) /\ b.pv[d].wwid # None => Sep(b, b.pv[d].wwid)
    BY <1>5, <2>1, <2>3, SepAll, SepOne DEF WN
  <2>7. NoNew(b, r)  BY <1>5, <2>1, <2>4, EvAddKeeps
  <2>8. NoNew(w, r)  BY <2>2, <2>7, NoNewTrans
  <2>9. ASSUME Sound(w) PROVE Loads(w, r)
    <3>1. Loads(b, r)  BY <1>5, <2>1, <2>4, <2>5, <2>9, EvAddKeeps
    <3>2. QED  BY <2>1, <3>1 DEF Loads, OnePath
  <2>10. Good(r)  BY <1>5, <2>1, <2>4, EvAddKeeps
  <2>11. ASSUME Sound(w), "load" \notin Failures, Apart(w), Apart(r) PROVE Sound(r)
    BY <1>5, <2>1, <2>4, <2>5, <2>6, <2>11, EvAddKeeps
  <2>12. QED  BY <2>8, <2>9, <2>10, <2>11
<1>6. CASE r = w  BY <1>6, LoadsSame DEF NoNew
<1>7. QED  BY <1>1, <1>3, <1>4, <1>5, <1>6

\* add_map_without_path(): a map that somebody else has created
LEMMA AddMapKeeps ==
  ASSUME NEW w, Good(w), NEW m \in Wwids, ~w.mp[m].known, w.tab[m] # NoTab,
         NEW o \in Outcomes, dev \in [Devs -> WN],
         NEW r, r = add_map_without_path(w, m, o)
  PROVE  Keeps(w, r, m) /\ (Sound(w) => Loads(w, r))
<1> DEFINE v == WithMp(w, m, NewMp)
           x == update_pathvec_from_dm(v, m, o)
           y == IF o.fail = "status" THEN x ELSE v
<1>1. r = IF Rc(v, m, o) # "OK" THEN remove_map(y, m) ELSE update_map(x, m, TRUE, o)
  BY DEF add_map_without_path, WithMp
<1>2. Keeps(w, v, m) /\ v.mp[m].known /\ v.tab = w.tab  BY NewMapKeeps
<1>3. Good(v)  BY <1>2 DEF Keeps
<1> HIDE DEF v
<1>4. Keeps(v, x, m) /\ x.mp[m].known /\ x.tab = v.tab  BY <1>2, <1>3, FromDmKeeps
<1>5. Good(x)  BY <1>4 DEF Keeps
<1> HIDE DEF x
<1>6. Keeps(w, x, m)  BY <1>2, <1>4, KeepsTrans
<1>7. Keeps(w, y, m) /\ Good(y) /\ y.tab = w.tab  BY <1>2, <1>3, <1>4, <1>5, <1>6
<1> HIDE DEF y
<1>8. CASE Rc(v, m, o) # "OK"
  <2>1. Keeps(y, r, m) /\ r.tab = y.tab  BY <1>1, <1>7, <1>8, RemoveMapKeeps
  <2>2. QED  BY <1>7, <2>1, KeepsTrans, LoadsSame
<1>9. CASE Rc(v, m, o) = "OK"
  <2>1. Keeps(x, r, m) /\ (Sound(x) => Loads(x, r))
    BY <1>1, <1>4, <1>5, <1>9, UpdateMapKeeps
  <2>2. Sound(w) => Loads(w, r)  BY <1>2, <1>4, <1>6, <2>1 DEF Keeps, Loads
  <2>3. QED  BY <1>6, <2>1, <2>2, KeepsTrans
<1>10. QED  BY <1>8, <1>9

\* What ev_add_map() and missing_uev_wait_tick() do with a map that waited
Settled(w, m, o) ==
  LET v == IF w.mp[m].wait > 1 THEN update_map(w, m, FALSE, o) ELSE w
  IN  IF v.mp[m].known THEN [v EXCEPT !.mp[m].wait = 0] ELSE v

\* ev_add_map() and missing_uev_wait_tick() preserve what the operators do.
LEMMA SettledKeeps ==
  ASSUME NEW w, Good(w), NEW m \in Wwids, w.mp[m].known,
         NEW o \in Outcomes, dev \in [Devs -> WN],
         NEW r, r = Settled(w, m, o)
  PROVE  Keeps(w, r, m) /\ (Sound(w) => Loads(w, r))
<1> DEFINE v == IF w.mp[m].wait > 1 THEN update_map(w, m, FALSE, o) ELSE w
<1>1. r = IF v.mp[m].known THEN [v EXCEPT !.mp[m].wait = 0] ELSE v  BY DEF Settled
<1>2. Keeps(w, v, m) /\ (Sound(w) => Loads(w, v))  BY UpdateMapKeeps, KeepsSelf, LoadsSame
<1>3. Good(v)  BY <1>2 DEF Keeps
<1> HIDE DEF v
<1>4. CASE v.mp[m].known
  <2>1. Keeps(v, r, m) /\ r.tab = v.tab /\ r.pv = v.pv  BY <1>1, <1>3, <1>4, WaitKeeps
  <2>2. QED  BY <1>2, <2>1, KeepsTrans DEF Loads
<1>5. CASE ~v.mp[m].known  BY <1>1, <1>2, <1>5
<1>6. QED  BY <1>4, <1>5

LEMMA EvAddMapKeeps ==
  ASSUME NEW w, Good(w), NEW m \in Wwids, w.tab[m] # NoTab,
         NEW o \in Outcomes, dev \in [Devs -> WN],
         NEW r, r = ev_add_map(w, m, o)
  PROVE  Keeps(w, r, m) /\ (Sound(w) => Loads(w, r))
<1>1. r = IF ~w.mp[m].known THEN add_map_without_path(w, m, o) ELSE Settled(w, m, o)
  BY DEF ev_add_map, Settled
<1>2. QED  BY <1>1, AddMapKeeps, SettledKeeps

(***************************************************************************)
(* The steps                                                               *)
(***************************************************************************)
\* What each step of the daemon preserves: types and pointers, the connections of
\* devices with LUNs, and, when loads do not fail and tables are apart, Sound
StepOk(w, r) ==
  /\ Good(r) /\ NoNew(w, r)
  /\ Sound(w) /\ "load" \notin Failures /\ Apart(w) /\ Apart(r) => Sound(r)
  /\ Sound(w) /\ Sole(w) => Loads(w, r)

\* The types of the variables that the operators do not have
Typed == dev \in [Devs -> WN] /\ reinit \in Devs \cup {None} /\ env \in 0..MaxEnv

\* An operator that keeps its map makes a step that is right.
LEMMA KeepsOk ==
  ASSUME NEW w, NEW r, NEW m, Keeps(w, r, m), Sound(w) => Loads(w, r)
  PROVE  StepOk(w, r)
BY DEF Keeps, Kin, StepOk

\* A handler assigns the result of its operator.
LEMMA AssignIs ==
  ASSUME NEW r, StepOk(W, r), Assign(r)
  PROVE  StepOk(W, W')
<1>1. r \in StateRec  BY DEF StepOk, Good
<1>2. W' = r  BY <1>1 DEF Assign, W, StateRec
<1>3. QED  BY <1>2

\* The parts of the state
LEMMA WFields == W.pv = pv /\ W.mp = mp /\ W.tab = tab /\ W.broken = broken
BY DEF W

LEMMA SoundIsBut == ASSUME NEW w, NEW d, Sound(w) PROVE SoundBut(w, d)
BY DEF Sound, Named, SoundBut

\* Path uevents: uev_add_path() and uev_remove_path()
LEMMA PathStep ==
  ASSUME Good(W), Typed, NEW d \in Devs, NEW need_do_map \in BOOLEAN, NEW o \in Outcomes,
         UevAddPath(d, need_do_map, o) \/ uev_remove_path(d, need_do_map, o)
  PROVE  StepOk(W, W')
<1>1. dev \in [Devs -> WN]  BY DEF Typed
<1>2. CASE UevAddPath(d, need_do_map, o)
  <2> DEFINE r == uev_add_path(W, d, need_do_map, o)
  <2>1. StepOk(W, r)  BY <1>1, UevAddKeeps DEF StepOk
  <2>2. Assign(r)  BY <1>2 DEF UevAddPath
  <2> HIDE DEF r
  <2>3. QED  BY <2>1, <2>2, AssignIs
<1>3. CASE uev_remove_path(d, need_do_map, o)
  <2> DEFINE r == ev_remove_path(W, d, need_do_map, o)[1]
  <2>1. /\ Good(r) /\ NoNew(W, r)
        /\ SoundBut(W, d) => Sound(r) /\ Loads(W, r)
    BY <1>1, EvRemoveKeeps
  <2>2. Assign(r)  BY <1>3 DEF uev_remove_path
  <2> HIDE DEF r
  <2>3. StepOk(W, r)  BY <2>1, SoundIsBut DEF StepOk
  <2>4. QED  BY <2>3, <2>2, AssignIs
<1>4. QED  BY <1>2, <1>3

\* uev_update_path(): the WWID has changed, or DISK_RO is set
LEMMA UpdateStep ==
  ASSUME Good(W), Typed, NEW d \in Devs, NEW ro \in BOOLEAN, NEW o \in Outcomes,
         uev_update_path(d, ro, o)
  PROVE  StepOk(W, W')
<1> DEFINE x == pv[d]
           y == [W EXCEPT !.pv[d].wwid = dev[d]]
           e == ev_remove_path(y, d, TRUE, o)[1]
           m == x.mpp
           v == reload_and_sync_map(W, m, o)
           late == [W EXCEPT !.mp[m].wait = 2]
           q == IF mp[m].wait > 0 THEN late
                ELSE IF v.mp[m].known /\ v.pv[d].mpp = None
                     THEN [v EXCEPT !.broken = "freed"] ELSE v
<1>1. dev \in [Devs -> WN]  BY DEF Typed
<1>2. \/ UNCHANGED <<pv, mp, tab, broken>>
      \/ x.init # None /\ Assign(e)
      \/ m # None /\ Assign(q)
  BY DEF uev_update_path
<1>3. CASE UNCHANGED <<pv, mp, tab, broken>>
  <2>1. W' = W  BY <1>3 DEF W
  <2>2. QED  BY <2>1, LoadsSame DEF StepOk, NoNew
<1>4. CASE x.init # None /\ Assign(e)
  <2>1. W \in StateRec /\ W.pv[d] \in PathRec /\ dev[d] \in WN  BY <1>1, GoodFacts
  <2>2. /\ OnePath(W, y, d) /\ y.pv[d].mpp = x.mpp /\ y.pv[d].init = x.init
        /\ y.pv[d].wwid = dev[d]
    <3>1. W \in StateRec  BY <2>1
    <3>2. QED  BY <2>1, <3>1, WFields DEF OnePath, StateRec, PathRec
  <2> HIDE DEF y
  <2>3. Good(y)  BY <1>4, <2>2, GoodFacts, OnePathGood, WFields
  <2>4. Sound(W) => SoundBut(y, d)  BY <2>2, OnePathSoundBut, WFields
  <2>5. NoNew(W, y)
    <3>1. x.mpp \in LunsOf(W, d) \cup {None} /\ dev[d] \in LunsOf(W, d) \cup {None}
      BY LunsHas, WFields
    <3>2. QED  BY <2>2, <3>1, OnePathNoNew
  <2>6. /\ Good(e) /\ (SoundBut(y, d) => Sound(e)) /\ NoNew(y, e)
        /\ SoundBut(y, d) => Loads(y, e)
    BY <1>1, <2>3, EvRemoveKeeps
  <2> HIDE DEF e
  <2>7. Sound(W) => Loads(W, e)  BY <2>2, <2>4, <2>6 DEF Loads, OnePath
  <2>8. StepOk(W, e)  BY <2>4, <2>6, <2>5, <2>7, NoNewTrans DEF StepOk
  <2>9. QED  BY <1>4, <2>8, AssignIs
<1>5. CASE m # None /\ Assign(q)
  <2>1. m \in Wwids /\ W.mp[m].known  BY <1>5, GoodFacts, WFields
  <2> HIDE DEF m
  <2>2. Keeps(W, late, m) /\ late.tab = W.tab  BY <2>1, WaitKeeps
  <2>3. Keeps(W, v, m) /\ (Sound(W) => Loads(W, v))  BY <1>1, <2>1, ReloadKeeps
  <2> HIDE DEF late, v
  <2>4. Good(v) /\ (Sound(W) => Sound(v)) /\ NoNew(W, v)  BY <2>3 DEF Keeps, Kin
  <2> DEFINE u == [v EXCEPT !.broken = "freed"]
  <2>5. Good(u) /\ NoNew(v, u) /\ (Sound(v) => Sound(u))  BY <2>4, BrokenKeeps
  <2>6. u.tab = v.tab /\ u.pv = v.pv
    <3>1. v \in StateRec  BY <2>4 DEF Good
    <3>2. QED  BY <3>1 DEF StateRec
  <2> HIDE DEF u
  <2>7. Sound(W) => Loads(W, u)  BY <2>3, <2>6 DEF Loads
  <2>8. StepOk(W, u)  BY <2>4, <2>5, <2>7, NoNewTrans DEF StepOk
  <2>9. StepOk(W, [v EXCEPT !.broken = "freed"])  BY <2>8 DEF u
  <2>10. StepOk(W, q)  BY <2>2, <2>3, <2>9, KeepsOk, LoadsSame
  <2> HIDE DEF q
  <2>11. QED  BY <1>5, <2>10, AssignIs
<1>6. QED  BY <1>2, <1>3, <1>4, <1>5

\* The second half of uev_update_path(), when vecs->lock was released in between
LEMMA ReinitStep ==
  ASSUME Good(W), Typed, NEW o \in Outcomes, Reinit(o)
  PROVE  StepOk(W, W')
<1> DEFINE r == uev_add_path(W, reinit, TRUE, o)
<1>1. dev \in [Devs -> WN]  BY DEF Typed
<1>2. reinit \in Devs  BY DEF Typed, Reinit
<1>3. StepOk(W, r)  BY <1>1, <1>2, UevAddKeeps DEF StepOk
<1>4. Assign(r)  BY DEF Reinit
<1> HIDE DEF r
<1>5. QED  BY <1>3, <1>4, AssignIs

\* Map uevents, dm events, reloads and the ticks of a map
LEMMA MapStep ==
  ASSUME Good(W), Typed, NEW m \in Wwids, NEW o \in Outcomes,
         \/ uev_add_map(m, o) \/ update_multipath(m, o) \/ cli_reload(m, o)
         \/ missing_uev_wait_tick(m, o) \/ ghost_delay_tick(m, o)
  PROVE  StepOk(W, W')
<1>1. dev \in [Devs -> WN]  BY DEF Typed
<1>2. CASE uev_add_map(m, o)
  <2> DEFINE r == ev_add_map(W, m, o)
  <2>1. W.tab[m] # NoTab  BY <1>2, WFields DEF uev_add_map
  <2>2. StepOk(W, r)  BY <1>1, <2>1, EvAddMapKeeps, KeepsOk
  <2>3. Assign(r)  BY <1>2 DEF uev_add_map
  <2> HIDE DEF r
  <2>4. QED  BY <2>2, <2>3, AssignIs
<1>3. CASE update_multipath(m, o)
  <2> DEFINE r == setup_multipath(W, m, o)
  <2>1. W.mp[m].known  BY <1>3, WFields DEF update_multipath
  <2>2. StepOk(W, r)  BY <1>1, <2>1, SetupKeeps, KeepsOk, LoadsSame
  <2>3. Assign(r)  BY <1>3 DEF update_multipath
  <2> HIDE DEF r
  <2>4. QED  BY <2>2, <2>3, AssignIs
<1>4. CASE cli_reload(m, o)
  <2> DEFINE r == reload_and_sync_map(W, m, o)
  <2>1. W.mp[m].known  BY <1>4, WFields DEF cli_reload
  <2>2. StepOk(W, r)  BY <1>1, <2>1, ReloadKeeps, KeepsOk
  <2>3. Assign(r)  BY <1>4 DEF cli_reload
  <2> HIDE DEF r
  <2>4. QED  BY <2>2, <2>3, AssignIs
<1>5. CASE missing_uev_wait_tick(m, o)
  <2> DEFINE r == Settled(W, m, o)
  <2>1. W.mp[m].known  BY <1>5, WFields, GoodFacts DEF missing_uev_wait_tick, NoMp
  <2>2. StepOk(W, r)  BY <1>1, <2>1, SettledKeeps, KeepsOk
  <2>3. Assign(r)
    <3>1. W.mp[m].wait = mp[m].wait  BY WFields
    <3>2. QED  BY <1>5, <3>1 DEF missing_uev_wait_tick, Settled
  <2> HIDE DEF r
  <2>4. QED  BY <2>2, <2>3, AssignIs
<1>6. CASE ghost_delay_tick(m, o)
  <2> DEFINE r == update_map(W, m, FALSE, o)
  <2>1. W.mp[m].known  BY <1>6, WFields DEF ghost_delay_tick
  <2>2. StepOk(W, r)  BY <1>1, <2>1, UpdateMapKeeps, KeepsOk
  <2>3. Assign(r)  BY <1>6 DEF ghost_delay_tick
  <2> HIDE DEF r
  <2>4. QED  BY <2>2, <2>3, AssignIs
<1>7. QED  BY <1>2, <1>3, <1>4, <1>5, <1>6

\* Maps that go: uev_remove_map(), cli_del_map(), mpvec_garbage_collector()
LEMMA DropStep ==
  ASSUME Good(W), NEW m \in Wwids,
         uev_remove_map(m) \/ cli_del_map(m) \/ Assign(remove_map(W, m))
  PROVE  StepOk(W, W')
<1> DEFINE r == remove_map(W, m)
           f == flush_map(W, m)
<1>1. StepOk(W, r)  BY RemoveMapKeeps, KeepsOk, LoadsSame
<1>2. StepOk(W, f)  BY FlushKeeps, KeepsOk
<1>3. Assign(r) \/ Assign(f)  BY DEF uev_remove_map, cli_del_map
<1> HIDE DEF r, f
<1>4. QED  BY <1>1, <1>2, <1>3, AssignIs

\* cli_add_path() and cli_del_path(), which do not ask for a WWID first
LEMMA CliPathStep ==
  ASSUME Good(W), Typed, NEW d \in Devs, NEW o \in Outcomes,
         cli_add_path(d, o) \/ cli_del_path(d, o)
  PROVE  StepOk(W, W')
<1> DEFINE x == pv[d]
           a == AddNew(W, d, TRUE, o)
           b == Readd(W, d, TRUE, FALSE, o)
           c == ev_add_path(W, d, TRUE, o)
           e == ev_remove_path(W, d, TRUE, o)[1]
<1>1. dev \in [Devs -> WN]  BY DEF Typed
<1>2. \/ Assign(a)
      \/ x.init = "REMOVED" /\ Assign(b)
      \/ x.init \notin {None, "REMOVED"} /\ x.mpp = None /\ Assign(c)
      \/ Assign(e)
  BY DEF cli_add_path, cli_del_path
<1>3. W.pv[d] = x  BY WFields
<1>4. StepOk(W, a)
  <2>1. Sound(W) /\ Apart(W) /\ dev[d] # None => Sep(W, dev[d])  BY <1>1, SepAll DEF WN
  <2>2. /\ Good(a) /\ NoNew(W, a) /\ (Sound(W) => Loads(W, a))
        /\ /\ Sound(W) /\ "load" \notin Failures /\ Apart(a)
           /\ dev[d] # None /\ o.uid = "yes" => Sep(W, dev[d])
           => Sound(a)
    BY <1>1, AddNewKeeps
  <2> HIDE DEF a
  <2>3. QED  BY <2>1, <2>2 DEF StepOk
<1>5. x.init = "REMOVED" => StepOk(W, b)  BY <1>1, <1>3, ReaddKeeps DEF StepOk, None
<1>6. x.init \notin {None, "REMOVED"} /\ x.mpp = None => StepOk(W, c)
  <2>1. x.wwid \in WN  BY <1>3, GoodFacts DEF PathRec
  <2>2. Sound(W) /\ Apart(W) /\ x.wwid # None => Sep(W, x.wwid)  BY <2>1, SepAll DEF WN
  <2>3. ASSUME x.init \notin {None, "REMOVED"}, x.mpp = None PROVE StepOk(W, c)
    <3>1. /\ Good(c) /\ NoNew(W, c)
          /\ Sound(W) /\ "load" \notin Failures /\ Apart(c) /\ Apart(W) => Sound(c)
          /\ Sound(W) => Loads(W, c)
      BY <1>1, <1>3, <2>2, <2>3, EvAddKeeps
    <3> HIDE DEF c
    <3>2. QED  BY <3>1 DEF StepOk
  <2>4. QED  BY <2>3
<1>7. StepOk(W, e)
  <2>1. /\ Good(e) /\ NoNew(W, e)
        /\ SoundBut(W, d) => Sound(e) /\ Loads(W, e)
    BY <1>1, EvRemoveKeeps
  <2> HIDE DEF e
  <2>2. QED  BY <2>1, SoundIsBut DEF StepOk
<1> HIDE DEF a, b, c, e
<1>8. QED  BY <1>2, <1>4, <1>5, <1>6, <1>7, AssignIs

\* check_path(): a retriggered uevent, a path that comes up, a map that is read again
LEMMA CheckStep ==
  ASSUME Good(W), Typed, NEW d \in Devs, NEW o \in Outcomes, check_path(d, o)
  PROVE  StepOk(W, W')
<1> DEFINE x == pv[d]
           b == pathinfo(W, d, o)[1]
           c == IF b.pv[d].init = "OK" THEN ev_add_path(b, d, TRUE, o) ELSE b
           s == update_multipath_strings(W, x.mpp, o)
<1>1. dev \in [Devs -> WN]  BY DEF Typed
<1>2. \/ /\ x.mpp = None
         /\ \E i \in {"REQUESTED", "FAILED"} : pv' = [pv EXCEPT ![d].init = i]
         /\ UNCHANGED <<mp, tab, broken>>
      \/ x.mpp = None /\ x.init \in {"NEW", "FAILED"} /\ Assign(c)
      \/ x.mpp # None /\ Assign(s)
  BY DEF check_path
<1>3. W.pv[d] = x /\ x \in PathRec /\ W \in StateRec  BY WFields, GoodFacts
<1>4. CASE /\ x.mpp = None
           /\ \E i \in {"REQUESTED", "FAILED"} : pv' = [pv EXCEPT ![d].init = i]
           /\ UNCHANGED <<mp, tab, broken>>
  <2>1. PICK i \in {"REQUESTED", "FAILED"} : pv' = [pv EXCEPT ![d].init = i]  BY <1>4
  <2> DEFINE z == [x EXCEPT !.init = i]
  <2>2. z \in PathRec /\ z.mpp = None /\ z.init # None /\ z.wwid = x.wwid
    BY <1>3, <1>4 DEF PathRec, Inits, None
  <2>3. W' = WithPath(W, d, z)
    <3>1. pv' = [pv EXCEPT ![d] = z]  BY <2>1
    <3> HIDE DEF z
    <3>2. QED  BY <1>4, <3>1 DEF W, WithPath
  <2> HIDE DEF z
  <2> DEFINE r == WithPath(W, d, z)
  <2>4. W \in StateRec  BY <1>3
  <2>5. OnePath(W, r, d) /\ r.pv[d] = z  BY <2>2, <2>4, SetPath
  <2> HIDE DEF r
  <2>6. NoNew(W, r)
    <3>1. x.wwid \in LunsOf(W, d) \cup {None}  BY <1>3, LunsHas
    <3>2. QED  BY <2>2, <2>5, <3>1, OnePathNoNew
  <2>7. Loads(W, r)  BY <2>5, LoadsSame DEF OnePath
  <2>8. StepOk(W, r)
    BY <1>3, <1>4, <2>2, <2>5, <2>6, <2>7, OnePathGood, OnePathSound DEF StepOk
  <2>9. QED  BY <2>3, <2>8 DEF r
<1>5. CASE x.mpp = None /\ x.init \in {"NEW", "FAILED"} /\ Assign(c)
  <2>1. W \in StateRec  BY <1>3
  <2>2. /\ OnePath(W, b, d) /\ b.pv[d].mpp = None /\ b.pv[d].init # None
        /\ b.pv[d].wwid \in {x.wwid, dev[d]}
    BY <1>1, <1>3, <1>5, <2>1, PathinfoIs DEF None
  <2> HIDE DEF b
  <2>3. NoNew(W, b)
    <3>1. x.wwid \in LunsOf(W, d) \cup {None} /\ dev[d] \in LunsOf(W, d) \cup {None}
      BY <1>3, LunsHas
    <3>2. QED  BY <2>2, <3>1, OnePathNoNew
  <2>4. b.pv[d].wwid \in WN  BY <2>2 DEF OnePath, StateRec, PathRec
  <2>5. Good(b)  BY <2>2, OnePathGood
  <2>6. Sound(W) => Sound(b)  BY <1>3, <1>5, <2>2, OnePathSound
  <2>7. Sound(W) /\ Apart(W) /\ b.pv[d].wwid # None => Sep(b, b.pv[d].wwid)
    BY <1>3, <1>5, <2>2, <2>4, SepAll, SepOne DEF WN
  <2> DEFINE e == ev_add_path(b, d, TRUE, o)
  <2>8. /\ Good(e) /\ NoNew(b, e)
        /\ /\ Sound(b) /\ "load" \notin Failures /\ Apart(e)
           /\ b.pv[d].wwid # None => Sep(b, b.pv[d].wwid)
           => Sound(e)
        /\ Sound(b) => Loads(b, e)
    BY <1>1, <2>2, <2>5, EvAddKeeps
  <2> HIDE DEF e
  <2>9. Sound(W) => Loads(W, e)  BY <2>2, <2>6, <2>8 DEF Loads, OnePath
  <2>10. StepOk(W, e)  BY <2>6, <2>7, <2>3, <2>8, <2>9, NoNewTrans DEF StepOk
  <2>11. StepOk(W, ev_add_path(b, d, TRUE, o))  BY <2>10 DEF e
  <2>12. Loads(W, b)  BY <2>2, LoadsSame DEF OnePath
  <2>13. StepOk(W, b)  BY <2>5, <2>6, <2>3, <2>12 DEF StepOk
  <2>14. StepOk(W, c)  BY <2>11, <2>13
  <2> HIDE DEF c
  <2>15. QED  BY <1>5, <2>14, AssignIs
<1>6. CASE x.mpp # None /\ Assign(s)
  <2>1. x.mpp \in Wwids /\ W.mp[x.mpp].known  BY <1>3, <1>6, GoodFacts
  <2>2. StepOk(W, s)  BY <1>1, <2>1, StringsKeeps, KeepsOk, LoadsSame
  <2> HIDE DEF s
  <2>3. QED  BY <1>6, <2>2, AssignIs
<1>7. QED  BY <1>2, <1>4, <1>5, <1>6

\* Devices and maps that others change leave pathvec and mpvec alone.
LEMMA EnvStep ==
  ASSUME Good(W), Typed, Environment
  PROVE  Good(W') /\ (Sound(W) => Sound(W'))
<1>1. W \in StateRec  BY DEF Good
<1>2. UNCHANGED <<pv, mp, broken>>
  BY DEF Environment, DevAdd, DevRemove, MapGone, MapLoad
<1>3. tab' \in [Wwids -> TabRec]
  <2>1. tab \in [Wwids -> TabRec]  BY <1>1 DEF W, StateRec
  <2>2. CASE \E m \in Wwids : MapGone(m)  BY <2>1, <2>2 DEF MapGone, TabRec
  <2>3. CASE \E m \in Wwids : \E D \in SUBSET Devs \ {{}} : MapLoad(m, D)
    <3>1. PICK m \in Wwids, D \in SUBSET Devs : tab' = [tab EXCEPT ![m] = D]
      BY <2>3 DEF MapLoad
    <3>2. QED  BY <2>1, <3>1 DEF TabRec
  <2>4. CASE \E d \in Devs : DevRemove(d) \/ \E m \in Wwids : DevAdd(d, m)
    BY <2>1, <2>4 DEF DevRemove, DevAdd
  <2>5. QED  BY <2>2, <2>3, <2>4 DEF Environment
<1>4. W' \in StateRec  BY <1>1, <1>2, <1>3 DEF W, StateRec
<1>5. (W').pv = W.pv /\ (W').mp = W.mp  BY <1>2 DEF W
<1> DEFINE r == W'
<1>6. r \in StateRec /\ r.pv = W.pv /\ r.mp = W.mp  BY <1>4, <1>5
<1> HIDE DEF r
<1>7. Good(r)  BY <1>6 DEF Good
<1>8. Sound(W) => Sound(r)  BY <1>6 DEF Sound, Own, Named, Here
<1>9. QED  BY <1>7, <1>8 DEF r

\* Every step of the daemon
LEMMA DaemonStep ==
  ASSUME Good(W), Typed, Daemon
  PROVE  StepOk(W, W')
<1>1. CASE \E o \in Outcomes : Reinit(o)  BY <1>1, ReinitStep
<1>2. CASE \E o \in Outcomes, d \in Devs, b \in BOOLEAN :
              UevAddPath(d, b, o) \/ uev_remove_path(d, b, o)
  BY <1>2, PathStep
<1>3. CASE \E o \in Outcomes, d \in Devs, b \in BOOLEAN : uev_update_path(d, b, o)
  BY <1>3, UpdateStep
<1>4. CASE \E o \in Outcomes, d \in Devs : cli_add_path(d, o) \/ cli_del_path(d, o)
  BY <1>4, CliPathStep
<1>5. CASE \E o \in Outcomes, d \in Devs : check_path(d, o)  BY <1>5, CheckStep
<1>6. CASE \E o \in Outcomes, m \in Wwids :
              \/ uev_add_map(m, o) \/ update_multipath(m, o) \/ cli_reload(m, o)
              \/ missing_uev_wait_tick(m, o) \/ ghost_delay_tick(m, o)
  BY <1>6, MapStep
<1>7. CASE \E m \in Wwids : uev_remove_map(m) \/ cli_del_map(m)  BY <1>7, DropStep
<1>8. CASE mpvec_garbage_collector
  BY <1>8, DropStep DEF mpvec_garbage_collector
<1>9. QED  BY <1>1, <1>2, <1>3, <1>4, <1>5, <1>6, <1>7, <1>8 DEF Daemon

\* The daemon changes no device.
LEMMA DaemonKeeps == ASSUME Daemon PROVE UNCHANGED <<dev, env>>
<1>1. CASE \E o \in Outcomes : Reinit(o)  BY <1>1 DEF Reinit
<1>2. CASE \E o \in Outcomes, d \in Devs, ro \in BOOLEAN : uev_update_path(d, ro, o)
  BY <1>2 DEF uev_update_path
<1>3. CASE \E o \in Outcomes, d \in Devs, b \in BOOLEAN :
              UevAddPath(d, b, o) \/ uev_remove_path(d, b, o)
  BY <1>3 DEF UevAddPath, uev_remove_path
<1>4. CASE \E o \in Outcomes, d \in Devs :
              cli_add_path(d, o) \/ cli_del_path(d, o) \/ check_path(d, o)
  BY <1>4 DEF cli_add_path, cli_del_path, check_path
<1>5. CASE \E o \in Outcomes, m \in Wwids :
            \/ uev_add_map(m, o) \/ update_multipath(m, o) \/ cli_reload(m, o)
            \/ missing_uev_wait_tick(m, o) \/ ghost_delay_tick(m, o)
  BY <1>5 DEF uev_add_map, update_multipath, cli_reload, missing_uev_wait_tick,
     ghost_delay_tick
<1>6. CASE \/ \E m \in Wwids : uev_remove_map(m) \/ cli_del_map(m)
           \/ mpvec_garbage_collector
  BY <1>6 DEF uev_remove_map, cli_del_map, mpvec_garbage_collector
<1>7. QED  BY <1>1, <1>2, <1>3, <1>4, <1>5, <1>6 DEF Daemon

\* The invariant is inductive.
LEMMA NextKeeps ==
  ASSUME Good(W), Typed, [Next]_vars
  PROVE  /\ Good(W') /\ Typed'
         /\ Sound(W) /\ "load" \notin Failures /\ Apart(W) /\ Apart(W') => Sound(W')
<1>1. CASE UNCHANGED vars
  <2>1. W' = W  BY <1>1 DEF vars, W
  <2>2. Typed'  BY <1>1 DEF vars, Typed
  <2>3. QED  BY <2>1, <2>2
<1>2. CASE Next
  <2>1. /\ Good(W')
        /\ Sound(W) /\ "load" \notin Failures /\ Apart(W) /\ Apart(W') => Sound(W')
    <3>1. CASE Daemon  BY <3>1, DaemonStep DEF StepOk
    <3>2. CASE Environment  BY <3>2, EnvStep
    <3>3. QED  BY <1>2, <3>1, <3>2 DEF Next
  <2>2. Typed'
    <3>1. CASE Daemon
      <4>1. UNCHANGED <<dev, env>>  BY <3>1, DaemonKeeps
      <4>2. reinit' \in Devs \cup {None}
        <5>1. CASE \E o \in Outcomes : Reinit(o)  BY <5>1 DEF Reinit
        <5>2. CASE \E o \in Outcomes, d \in Devs, ro \in BOOLEAN : uev_update_path(d, ro, o)
          BY <5>2 DEF uev_update_path, Typed
        <5>3. CASE UNCHANGED reinit  BY <5>3 DEF Typed
        <5>4. QED
          BY <3>1, <5>1, <5>2, <5>3, ZenonT(60) DEF Daemon, UevAddPath, uev_remove_path,
             cli_add_path, cli_del_path, check_path, uev_add_map, update_multipath, cli_reload,
             missing_uev_wait_tick, ghost_delay_tick, uev_remove_map, cli_del_map,
             mpvec_garbage_collector
      <4>3. QED  BY <4>1, <4>2 DEF Typed
    <3>2. CASE Environment
      <4>1. env' \in 0..MaxEnv /\ reinit' = reinit
        BY <3>2, MapsAssumption DEF Typed, Environment, DevAdd, DevRemove, MapGone, MapLoad
      <4>2. dev' \in [Devs -> WN]
        BY <3>2 DEF Typed, WN, Environment, DevAdd, DevRemove, MapGone, MapLoad
      <4>3. QED  BY <4>1, <4>2 DEF Typed
    <3>3. QED  BY <1>2, <3>1, <3>2 DEF Next
  <2>3. QED  BY <2>1, <2>2
<1>3. QED  BY <1>1, <1>2

\* Both vectors are empty when the daemon starts.
LEMMA InitGood == Init => Good(W) /\ Typed /\ Sound(W)
<1> SUFFICES ASSUME Init PROVE Good(W) /\ Typed /\ Sound(W)  OBVIOUS
<1>1. Typed  BY MapsAssumption DEF Init, Typed, WN
<1>2. W \in StateRec
  <2>1. NoMp \in MpRec  BY DEF NoMp, MpRec
  <2>2. NoPath \in PathRec  BY DEF NoPath, PathRec, WN
  <2>3. QED  BY <2>1, <2>2 DEF Init, W, StateRec, TabRec
<1>3. /\ \A d \in Devs : W.pv[d] = NoPath
      /\ \A m \in Wwids : W.mp[m] = NoMp
  BY DEF Init, W
<1>4. Good(W)  BY <1>2, <1>3 DEF Good, NoPath
<1>5. Sound(W)  BY <1>3 DEF Sound, Own, Named, Here, NoMp
<1>6. QED  BY <1>1, <1>4, <1>5

\* What Good means for the properties
LEMMA GoodTyped == Good(W) /\ Typed => TypeOK /\ MapsAlive
<1> SUFFICES ASSUME Good(W), Typed PROVE TypeOK /\ MapsAlive  OBVIOUS
<1>1. W \in StateRec  BY DEF Good
<1>2. /\ pv \in [Devs -> PathRec] /\ mp \in [Wwids -> MpRec] /\ tab \in [Wwids -> TabRec]
      /\ broken \in {None, "twice", "freed"}
  BY <1>1 DEF W, StateRec
<1>3. \A d \in Devs : pv[d] \in {NoPath} \cup [init : Inits, wwid : Wwids \cup {None},
                                    mpp : Wwids \cup {None}]
  BY <1>2, GoodFacts, WFields DEF PathRec, WN
<1>4. TypeOK  BY <1>2, <1>3 DEF TypeOK, Typed, MpRec, TabRec, WN
<1>5. MapsAlive  BY GoodFacts, WFields DEF MapsAlive
<1>6. QED  BY <1>4, <1>5

\* Whatever fails and whatever others do, no struct path points to a struct multipath
\* that remove_map() has freed.
THEOREM MapsTyped == Spec => [](TypeOK /\ MapsAlive)
<1> DEFINE Inv == Good(W) /\ Typed
<1>1. Init => Inv  BY InitGood
<1>2. Inv /\ [Next]_vars => Inv'  BY NextKeeps
<1>3. Inv => TypeOK /\ MapsAlive  BY GoodTyped
<1> HIDE DEF Inv
<1>4. QED  BY <1>1, <1>2, <1>3, PTL DEF Spec

(***************************************************************************)
(* The LUNs of a device                                                    *)
(***************************************************************************)
\* Luns is about the same state.
LEMMA LunsIs == \A d : Luns(d) = LunsOf(W, d)
BY DEF Luns, LunsOf, W

\* No step of the daemon connects a device with another LUN.
LEMMA NextLuns ==
  ASSUME Good(W), Typed, [Next]_vars, env' = env, NEW d \in Devs
  PROVE  Luns(d)' \subseteq Luns(d)
<1>1. CASE Daemon
  <2>1. dev' = dev  BY <1>1, DaemonKeeps
  <2>2. LunsOf(W', d) \subseteq LunsOf(W, d)  BY <1>1, DaemonStep DEF StepOk, NoNew
  <2>3. Luns(d)' = LunsOf(W', d)  BY <2>1 DEF Luns, LunsOf, W
  <2>4. QED  BY <2>2, <2>3, LunsIs
<1>2. CASE Environment
  BY <1>2 DEF Typed, Environment, DevAdd, DevRemove, MapGone, MapLoad
<1>3. CASE UNCHANGED vars  BY <1>3 DEF vars, Luns
<1>4. QED  BY <1>1, <1>2, <1>3 DEF Next

\* Whatever fails and whatever others do, no handler connects a device with a LUN
\* that neither its udev data nor its struct path, a table or a map did.
THEOREM MapsNoStranger == Spec => NoStranger
<1> DEFINE Inv == Good(W) /\ Typed
           Step == env' = env => \A d \in Devs : Luns(d)' \subseteq Luns(d)
<1>1. Init => Inv  BY InitGood
<1>2. Inv /\ [Next]_vars => Inv'  BY NextKeeps
<1>3. Inv /\ [Next]_vars => Step  BY NextLuns
<1>4. Step => [Step]_vars  OBVIOUS
<1> HIDE DEF Inv, Step
<1>5. Spec => [][Step]_vars  BY <1>1, <1>2, <1>3, <1>4, PTL DEF Spec
<1>6. QED  BY <1>5 DEF NoStranger, Step

\* What Sound means for the properties
LEMMA SoundTables == Good(W) /\ Typed /\ Sound(W) => TablesSound
<1> SUFFICES ASSUME Good(W), Typed, Sound(W) PROVE TablesSound  OBVIOUS
<1>1. PathsAlive  BY MineFacts, WFields DEF PathsAlive
<1>2. OwnPaths  BY WFields DEF OwnPaths, Sound, Own
<1>3. QED  BY <1>1, <1>2, GoodTyped DEF TablesSound

(***************************************************************************)
(* The tables                                                              *)
(***************************************************************************)
\* Each device is connected with one LUN at most: what keeps a table's load from
\* being refused because another map has one of its devices
OneLun == \A d \in Devs : \A a, b \in Luns(d) : a = b

\* Then tables are apart.
LEMMA OneApart ==
  ASSUME NEW w, \A d \in Devs : LunsOf(w, d) \subseteq Luns(d), OneLun
  PROVE  Apart(w)
<1> SUFFICES ASSUME NEW m \in Wwids, NEW d \in Devs, d \in w.tab[m]
             PROVE  w.pv[d].wwid \in {m, None} /\ w.pv[d].mpp \in {m, None}
  BY DEF Apart
<1>1. m \in LunsOf(w, d)  BY DEF LunsOf
<1>2. /\ w.pv[d].wwid \in LunsOf(w, d) \cup {None}
      /\ w.pv[d].mpp \in LunsOf(w, d) \cup {None}
  BY LunsHas
<1>3. QED  BY <1>1, <1>2 DEF OneLun

\* As long as device names are kept, the daemon preserves this and Sound.
LEMMA NextOne ==
  ASSUME Good(W), Typed, Sound(W), OneLun, [NamesKept]_vars, [Next]_vars, "load" \notin Failures
  PROVE  Sound(W') /\ OneLun'
<1>1. CASE env' = env
  <2>1. \A d \in Devs : Luns(d)' \subseteq Luns(d)  BY <1>1, NextLuns
  <2>2. OneLun'  BY <2>1 DEF OneLun
  <2>3. Apart(W)  BY LunsIs, OneApart
  <2>4. dev' = dev  
    <3>1. CASE Daemon  BY <3>1, DaemonKeeps
    <3>2. CASE Environment
      BY <1>1, <3>2 DEF Typed, Environment, DevAdd, DevRemove, MapGone, MapLoad
    <3>3. QED  BY <3>1, <3>2 DEF Next, vars
  <2>5. \A d \in Devs : Luns(d)' = LunsOf(W', d)  BY <2>4 DEF Luns, LunsOf, W
  <2>6. Apart(W')  BY <2>1, <2>5, OneApart
  <2>7. QED  BY <2>2, <2>3, <2>6, NextKeeps
<1>2. CASE env' # env
  <2>1. Environment  BY <1>2, DaemonKeeps DEF Next, vars
  <2>2. Sound(W')  BY <2>1, EnvStep
  <2>3. ASSUME NEW d \in Devs PROVE \A a, b \in Luns(d)' : a = b
    <3>1. CASE Luns(d)' \subseteq Luns(d)  BY <3>1 DEF OneLun
    <3>2. CASE \E m \in Wwids : DevAdd(d, m)
      <4>1. PICK m \in Wwids : DevAdd(d, m)  BY <3>2
      <4>2. /\ UNCHANGED <<pv, mp, tab>> /\ \A n \in Wwids : d \notin tab[n]
            /\ dev[d] = None /\ dev' = [dev EXCEPT ![d] = m]
        BY <4>1 DEF DevAdd
      <4>3. dev'[d] = m /\ m # None  BY <4>2, MapsAssumption DEF Typed
      <4>4. {pv[d].wwid, pv[d].mpp} \subseteq {None, m}
        BY <1>2, <4>2, <4>3 DEF NamesKept, vars
      <4>5. \A n \in Wwids : d \in mp[n].paths \cup mp[n].pg => pv[d].mpp = n
        BY WFields DEF Sound, Own
      <4>6. \A a \in Luns(d)' : a = m
        <5>1. SUFFICES ASSUME NEW a \in Luns(d)' PROVE a = m  OBVIOUS
        <5>2. \/ a \in {dev'[d], pv[d].wwid, pv[d].mpp} \ {None}
              \/ a \in Wwids /\ d \in tab[a] \cup mp[a].paths \cup mp[a].pg
          BY <4>2, <5>1 DEF Luns
        <5>3. CASE a \in {dev'[d], pv[d].wwid, pv[d].mpp} \ {None}
          BY <4>3, <4>4, <5>3
        <5>4. CASE a \in Wwids /\ d \in tab[a] \cup mp[a].paths \cup mp[a].pg
          BY <4>2, <4>4, <4>5, <5>4, MapsAssumption
        <5>5. QED  BY <5>2, <5>3, <5>4
      <4>7. QED  BY <4>6
    <3>3. Luns(d)' \subseteq Luns(d) \/ \E m \in Wwids : DevAdd(d, m)
      <4>1. CASE \E m \in Wwids : MapGone(m)
        <5>1. PICK m \in Wwids : MapGone(m)  BY <4>1
        <5>2. /\ UNCHANGED <<dev, pv, mp>>
              /\ tab' = [tab EXCEPT ![m] = NoTab]
          BY <5>1 DEF MapGone
        <5>3. tab \in [Wwids -> TabRec] /\ d # None
          BY MapsAssumption DEF Good, StateRec, W
        <5>4. \A n \in Wwids : d \in tab'[n] => d \in tab[n]  BY <5>2, <5>3 DEF NoTab
        <5>5. QED  BY <5>2, <5>4 DEF Luns
      <4>2. CASE \E m \in Wwids : \E D \in SUBSET Devs \ {{}} : MapLoad(m, D)
        <5>1. PICK m \in Wwids, D \in SUBSET Devs : MapLoad(m, D)  BY <4>2
        <5>2. /\ UNCHANGED <<dev, pv, mp>> /\ \A e \in D : dev[e] = m
              /\ tab' = [tab EXCEPT ![m] = D]
          BY <5>1 DEF MapLoad
        <5>3. tab \in [Wwids -> TabRec]  BY DEF Good, StateRec, W
        <5>4. \A n \in Wwids : d \in tab'[n] => d \in tab[n] \/ (n = m /\ d \in D)
          BY <5>2, <5>3
        <5>5. d \in D => m \in Luns(d)  BY <5>2, MapsAssumption DEF Luns
        <5>6. ASSUME NEW a \in Luns(d)' PROVE a \in Luns(d)
          BY <5>2, <5>4, <5>5, <5>6 DEF Luns
        <5>7. QED  BY <5>6
      <4>3. CASE \E e \in Devs : DevRemove(e)
        <5>1. PICK e \in Devs : DevRemove(e)  BY <4>3
        <5>2. UNCHANGED <<pv, mp, tab>> /\ dev'[d] \in {dev[d], None}
          BY <5>1 DEF DevRemove, Typed
        <5>3. QED  BY <5>2 DEF Luns
      <4>4. CASE \E e \in Devs, m \in Wwids : DevAdd(e, m)
        <5>1. PICK e \in Devs, m \in Wwids : DevAdd(e, m)  BY <4>4
        <5>2. CASE e = d  BY <5>1, <5>2
        <5>3. CASE e # d
          <6>1. UNCHANGED <<pv, mp, tab>> /\ dev'[d] = dev[d]
            BY <5>1, <5>3 DEF DevAdd, Typed
          <6>2. QED  BY <6>1 DEF Luns
        <5>4. QED  BY <5>2, <5>3
      <4>5. QED  BY <2>1, <4>1, <4>2, <4>3, <4>4 DEF Environment
    <3>4. QED  BY <3>1, <3>2, <3>3
  <2>4. QED  BY <2>2, <2>3 DEF OneLun
<1>3. QED  BY <1>1, <1>2

\* What the daemon loads into a table is of the map's LUN and has not been removed.
LEMMA NextLoads ==
  ASSUME Good(W), Typed, Sound(W), OneLun, [Next]_vars, env' = env
  PROVE  \A m \in Wwids : \A d \in tab'[m] \ tab[m] :
            d \in Devs => pv'[d].wwid \in {m, None} /\ pv'[d].init # "REMOVED"
<1>1. CASE Daemon
  <2>1. Sole(W)  BY LunsIs DEF OneLun, Sole
  <2>2. Loads(W, W') /\ Good(W')  BY <1>1, <2>1, DaemonStep DEF StepOk
  <2>3. SUFFICES ASSUME NEW m \in Wwids, NEW d \in Devs, d \in tab'[m], d \notin tab[m]
                 PROVE  pv'[d].wwid \in {m, None} /\ pv'[d].init # "REMOVED"
    OBVIOUS
  <2>4. (W').tab = tab' /\ (W').pv = pv'  BY DEF W
  <2>5. pv'[d].init # "REMOVED"  BY <2>2, <2>3, <2>4, WFields DEF Loads
  <2>6. m \in Luns(d)' /\ pv'[d].wwid \in Luns(d)' \cup {None}  BY <2>3 DEF Luns
  <2>7. Luns(d)' \subseteq Luns(d)  BY <2>3, NextLuns
  <2>8. QED  BY <2>5, <2>6, <2>7 DEF OneLun
<1>2. CASE Environment
  BY <1>2 DEF Typed, Environment, DevAdd, DevRemove, MapGone, MapLoad
<1>3. CASE UNCHANGED vars  BY <1>3 DEF vars
<1>4. QED  BY <1>1, <1>2, <1>3 DEF Next

\* The invariant and what follows from it, for the two theorems below.
LEMMA NamedRuns ==
  ASSUME "load" \notin Failures
  PROVE  Spec /\ [][NamesKept]_vars => []TablesSound /\ NoWrongPath
<1> DEFINE Inv == Good(W) /\ Typed /\ Sound(W) /\ OneLun
           Step == \A m \in Wwids : \A d \in tab'[m] \ tab[m] :
                     env' = env /\ d \in Devs
                     => pv'[d].wwid \in {m, None} /\ pv'[d].init # "REMOVED"
<1>1. Init => Inv
  <2>1. Init => OneLun  BY MapsAssumption DEF Init, OneLun, Luns, NoPath, NoMp, NoTab
  <2>2. QED  BY <2>1, InitGood
<1>2. Inv /\ [Next]_vars /\ [NamesKept]_vars => Inv'  BY NextOne, NextKeeps
<1>3. Inv => TablesSound  BY SoundTables
<1>4. Inv /\ [Next]_vars => Step  BY NextLoads
<1>5. Step => [Step]_vars  OBVIOUS
<1> HIDE DEF Inv, Step
<1>6. Spec /\ [][NamesKept]_vars => []TablesSound /\ [][Step]_vars
  BY <1>1, <1>2, <1>3, <1>4, <1>5, PTL DEF Spec
<1>7. QED  BY <1>6 DEF NoWrongPath, Step

\* When loads do not fail by themselves and a device name goes to another LUN only
\* once its struct path is gone, vecs->pathvec, vecs->mpvec and the path groups have
\* no pointer to a freed path or map and no path is in two maps. Both hypotheses are
\* needed: maps_giveup shows what a load that fails does, and a name that is reused too
\* early makes the kernel refuse one.
THEOREM MapsNamed ==
  ASSUME "load" \notin Failures
  PROVE  Spec /\ [][NamesKept]_vars => []TablesSound
BY NamedRuns

\* Under the same hypotheses the daemon loads no path of another LUN and no
\* removed one into a table, nor connects a device with another LUN on the way.
THEOREM MapsNoStray ==
  ASSUME "load" \notin Failures
  PROVE  Spec /\ [][NamesKept]_vars => NoStray
BY NamedRuns, MapsNoStranger DEF NoStray
=============================================================================
