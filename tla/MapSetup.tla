------------------------------- MODULE MapSetup -------------------------------
(***************************************************************************)
(* From paths to the kernel's table: setup_map() groups the paths of a LUN *)
(* (libmultipath/pgpolicies.c), picks the best group (switchgroup.c) and   *)
(* writes the table (dmparser.c); select_action() compares the result with *)
(* the map as it was read from the kernel, and domap() creates, reloads,   *)
(* resizes, renames or leaves it (configure.c, devmapper.c). This is       *)
(* coalesce_paths(), which the daemon runs when it configures itself.      *)
(*                                                                         *)
(* One LUN is set up. Another one exists whose map may hold the name, and  *)
(* multipath(8) may change the kernel's maps after the daemon has read     *)
(* them. A table is a sequence of words.                                   *)
(***************************************************************************)
EXTENDS Integers, Sequences, SequencesExt, FiniteSets

CONSTANTS
  MPaths,      \* paths of the LUN, in the order of the path vector
  Serial,      \* target serial number, node name, adapter and host of each
  Node, Adapter, HostNo,
  MConfs,      \* settings: see ConfType
  MPrios,      \* priorities
  MSizes,      \* sizes in sectors; 0: unknown
  ParamsSize,  \* words that fit a table
  MaxMChanges  \* bound on the changes from outside

MPathSet == {MPaths[i] : i \in 1..Len(MPaths)}

ConfType ==
  [policy : {"failover", "multibus", "serial", "prio", "node"},
   marginal_pathgroups : BOOLEAN, selector : {"round-robin", "service-time"},
   minio : Nat, rr_weight : {"uniform", "priorities"}, queue : BOOLEAN,
   features : {<<>>, <<"pg_init_retries">>}, hwhandler : {<<>>, <<"alua">>}, retain : BOOLEAN,
   alias : {"wwid", "a", "b"}]

ASSUME MapSetupConstants ==
  /\ MConfs \subseteq ConfType /\ MSizes \subseteq Nat /\ MPrios \subseteq Nat
  /\ ParamsSize \in Nat

VARIABLES
  mconf,     \* the configuration
  mprio, mstate, mmarginal, msize,  \* of each path
  kmap,      \* the LUN's map in the kernel
  kother,    \* the name of the other LUN's map, "none" without map
  curmp,     \* the maps as the daemon has read them: [own, other]
  settled,   \* the last coalesce_paths() succeeded, nothing has changed since
  loaded,    \* ... and it wrote the table when all paths were up
  changes

path_vars == <<mprio, mstate, mmarginal, msize>>
setup_vars == <<mconf, path_vars, kmap, kother, curmp, settled, loaded, changes>>

NoKMap == [alias |-> "none", size |-> 0, table |-> <<>>, pg |-> 0]

-----------------------------------------------------------------------------
(* Path groups.                                                            *)

RECURSIVE group_by_match(_, _)

\* One group per value of the attribute, in order of the first path of each.
group_by_match(paths, attr) ==
  IF paths = <<>> THEN <<>>
  ELSE <<SelectSeq(paths, LAMBDA p : attr[Head(paths)] = attr[p])>>
       \o group_by_match(SelectSeq(paths, LAMBDA p : attr[Head(paths)] # attr[p]), attr)

pgpolicyfn(policy, paths) ==
  CASE policy = "failover" -> [i \in 1..Len(paths) |-> <<paths[i]>>]
    [] policy = "multibus" -> <<paths>>
    [] policy = "serial"   -> group_by_match(paths, Serial)
    [] policy = "prio"     -> group_by_match(paths, mprio)
    [] policy = "node"     -> group_by_match(paths, Node)

Enabled(pg, st) == SelectSeq(pg, LAMBDA p : st[p] \in {"up", "ghost"})

\* path_group_prio_update(): the mean priority of the enabled paths.
priority(pg, st) ==
  LET en == Enabled(pg, st)
  IN  IF en = <<>> THEN 0 ELSE FoldLeft(LAMBDA n, p : n + mprio[p], 0, en) \div Len(en)

marginal(pg) == \A i \in 1..Len(pg) : mmarginal[pg[i]]

\* Does group x stay before a later group y?
NotWorse(x, y, st) ==
  \/ ~marginal(x) /\ marginal(y)
  \/ /\ marginal(x) = marginal(y)
     /\ \/ priority(x, st) > priority(y, st)
        \/ /\ priority(x, st) = priority(y, st)
           /\ Len(Enabled(x, st)) >= Len(Enabled(y, st))

\* Groups as they come (mutant).
sort_pathgroups_Not(pgs, st) == pgs

\* sort_pathgroups(): each group moves up behind the last one that is not worse.
sort_pathgroups(pgs, st) ==
  FoldLeft(LAMBDA s, y :
    LET k == {i \in 1..Len(s) : NotWorse(s[i], y, st)}
        j == IF k = {} THEN 0 ELSE CHOOSE i \in k : \A m \in k : m <= i
    IN  SubSeq(s, 1, j) \o <<y>> \o SubSeq(s, j + 1, Len(s)), <<>>, pgs)

\* group_paths(): marginal paths get groups of their own, if there are others.
group_paths(paths, st) ==
  LET normal == SelectSeq(paths, LAMBDA p : ~mmarginal[p])
      poor   == SelectSeq(paths, LAMBDA p : mmarginal[p])
  IN  IF paths = <<>> THEN <<>>
      ELSE sort_pathgroups(
             IF mconf.marginal_pathgroups /\ normal # <<>> /\ poor # <<>>
             THEN pgpolicyfn(mconf.policy, normal) \o pgpolicyfn(mconf.policy, poor)
             ELSE pgpolicyfn(mconf.policy, paths), st)

\* select_path_group(): the number of the best group.
select_path_group(pgs, st) ==
  LET best == FoldLeft(LAMBDA b, i :
        LET pg == pgs[i]
            n  == Len(Enabled(pg, st))
            p  == priority(pg, st)
            take(norm) == [normal |-> norm, prio |-> p, n |-> n, pg |-> i]
        IN  IF n = 0 \/ (marginal(pg) /\ b.normal) THEN b
            ELSE IF ~marginal(pg) /\ ~b.normal THEN take(TRUE)
            ELSE IF p > b.prio \/ (p = b.prio /\ n > b.n) THEN take(b.normal) ELSE b,
        [normal |-> FALSE, prio |-> 0, n |-> 1, pg |-> 1], [i \in 1..Len(pgs) |-> i])
  IN  best.pg

RECURSIVE Alternate(_, _)

\* order_paths_in_pg_by_alt_adapters(): one path of each adapter in turn, and of
\* each host of an adapter in turn.
Alternate(agps, next) ==
  IF \A a \in 1..Len(agps) : \A h \in 1..Len(agps[a].hosts) : agps[a].hosts[h] = <<>> THEN <<>>
  ELSE LET a    == agps[next]
           hgp  == a.hosts[a.next]
           step == [agps EXCEPT ![next] =
                      [hosts |-> [a.hosts EXCEPT ![a.next] = IF hgp = <<>> THEN <<>> ELSE Tail(hgp)],
                       next  |-> (a.next % Len(a.hosts)) + 1]]
       IN  (IF hgp = <<>> THEN <<>> ELSE <<Head(hgp)>>) \o Alternate(step, (next % Len(agps)) + 1)

\* The paths of each adapter, by host.
group_by_host_adapter(pg) ==
  LET agps == group_by_match(pg, Adapter)
  IN  [i \in 1..Len(agps) |-> [hosts |-> group_by_match(agps[i], HostNo), next |-> 1]]

\* For round-robin and groups of more than 2 paths.
rr_optimize_path_order(pg) ==
  IF mconf.selector # "round-robin" \/ Len(pg) <= 2 THEN pg
  ELSE Alternate(group_by_host_adapter(pg), 1)

-----------------------------------------------------------------------------
(* Tables.                                                                 *)

Counted(ws) == <<Len(ws)>> \o ws

Concat(ss) == FoldLeft(LAMBDA s, t : s \o t, <<>>, ss)

\* Every path is weighted with its priority (mutant).
path_minio_Weighted(p) == IF mprio[p] > 0 THEN mconf.minio * mprio[p] ELSE mconf.minio

\* The path's share: minio, weighted if rr_weight is "priorities".
path_minio(p) ==
  IF mconf.rr_weight = "priorities" /\ mprio[p] > 0 THEN mconf.minio * mprio[p] ELSE mconf.minio

\* assemble_map(); the table is too long for the buffer: <<>>.
assemble_map(pgs, bestpg) ==
  LET feats == mconf.features \o (IF mconf.queue THEN <<"queue_if_no_path">> ELSE <<>>)
      group(pg) == <<mconf.selector, 0, Len(pg), 1>>
                   \o Concat([i \in 1..Len(pg) |-> <<pg[i], path_minio(pg[i])>>])
      words == Counted(feats) \o Counted(mconf.hwhandler)
               \o <<Len(pgs), IF pgs = <<>> THEN 0 ELSE bestpg>>
               \o Concat([i \in 1..Len(pgs) |-> group(pgs[i])])
  IN  IF Len(words) > ParamsSize THEN <<>> ELSE words

RECURSIVE read_groups(_, _, _)
read_groups(w, at, n) ==
  IF n = 0 THEN <<>>
  ELSE LET k == w[at + 2]
       IN  <<[i \in 1..k |-> w[at + 2 + 2 * i]]>> \o read_groups(w, at + 4 + 2 * k, n - 1)

\* disassemble_map(), for a map that has no settings yet: minio is that of the
\* last path, not divided by its priority.
disassemble_map(w) ==
  LET nf == w[1]
      nh == w[nf + 2]
      at == nf + nh + 3
  IN  [features  |-> SubSeq(w, 2, nf + 1),
       hwhandler |-> SubSeq(w, nf + 3, nf + nh + 2),
       nextpg    |-> w[at + 1],
       pgs       |-> read_groups(w, at + 2, w[at]),
       selector  |-> IF w[at] = 0 THEN "none" ELSE w[at + 2],
       minio     |-> IF w[at] = 0 THEN 0 ELSE w[Len(w)]]

Without(ws, f) == SelectSeq(ws, LAMBDA x : x # f)
Has(ws, f) == \E i \in 1..Len(ws) : ws[i] = f
PathsOf(pg) == {pg[i] : i \in 1..Len(pg)}

\* pgcmp(): every group has its like among those of the kernel.
pgcmp(pgs, cpgs) ==
  \E i \in 1..Len(pgs) : \A j \in 1..Len(cpgs) : PathsOf(pgs[i]) # PathsOf(cpgs[j])

-----------------------------------------------------------------------------
(* coalesce_paths()                                                        *)

\* The name and the action. cur is what the daemon has read.
select_action(pgs, bestpg, size, cur, force) ==
  LET own   == cur.own
      alias == mconf.alias
      act(a) == [action |-> a, alias |-> alias]
      c     == disassemble_map(own.table)
      feats == mconf.features \o (IF mconf.queue THEN <<"queue_if_no_path">> ELSE <<>>)
  IN  IF own.alias # alias /\ cur.other # alias
      THEN act(IF own = NoKMap THEN "create" ELSE IF force THEN "forcerename" ELSE "rename")
      ELSE IF own = NoKMap THEN [action |-> "create", alias |-> "wwid"]
      ELSE IF own.alias # alias THEN [action |-> "impossible", alias |-> own.alias]
      ELSE IF force THEN act("reload")
      ELSE IF own.size # size THEN act("resize")
      ELSE IF \/ Has(feats, "queue_if_no_path") # Has(c.features, "queue_if_no_path")
              \/ (~mconf.retain \/ c.hwhandler = <<>>) /\ c.hwhandler # mconf.hwhandler
              \/ Without(feats, "queue_if_no_path") # Without(c.features, "queue_if_no_path")
              \/ c.selector # mconf.selector \/ c.minio # mconf.minio
              \/ Len(c.pgs) # Len(pgs) \/ pgcmp(pgs, c.pgs)
      THEN act("reload")
      ELSE act(IF own.pg # bestpg THEN "switchpg" ELSE "nothing")

\* The size of the map, the paths that have it, and is there one that has not?
MapSize == LET known == SelectSeq(MPaths, LAMBDA p : msize[p] # 0)
           IN  IF msize[MPaths[1]] # 0 \/ known = <<>> THEN msize[MPaths[1]] ELSE msize[Head(known)]
adopt_paths == SelectSeq(MPaths, LAMBDA p : msize[MPaths[1]] = 0 \/ msize[p] \in {0, msize[MPaths[1]]})
SizeMismatch == \E p \in MPathSet : msize[p] \notin {0, MapSize}

\* The states of the paths when the best group is chosen: checks that were
\* pending may have ended by then (wait_for_pending_paths()).
Resolved == {st \in [MPathSet -> {"up", "down", "pending"}] :
               \A p \in MPathSet : mstate[p] # "pending" => st[p] = mstate[p]}

\* domap() on the kernel's maps. A map that came into being since the maps were
\* read is reloaded, or refused if it is not ours. Any operation may fail.
domap(a, table, bestpg, size) ==
  LET map(n) == [alias |-> n, size |-> size, table |-> table, pg |-> bestpg]
      act    == IF a.action = "create" /\ kmap.alias = a.alias THEN "reload"
                ELSE IF a.action = "create" /\ kother = a.alias THEN "reject"
                ELSE a.action
      write(n) == kmap' = map(n) /\ settled' = TRUE
                  /\ loaded' = (\A p \in MPathSet : mstate[p] = "up")
      keep     == kmap' = kmap /\ settled' = FALSE /\ loaded' = FALSE
  IN  \/ act = "nothing" /\ kmap' = kmap /\ settled' = (kmap = curmp.own) /\ loaded' = FALSE
      \/ act \in {"reject", "impossible"} /\ keep
      \/ act = "switchpg" /\ kmap # NoKMap
           /\ kmap' = [kmap EXCEPT !.pg = bestpg] /\ settled' = (kmap = curmp.own) /\ loaded' = FALSE
      \/ act = "create" /\ kmap = NoKMap /\ write(a.alias)
      \/ act \in {"reload", "resize"} /\ kmap.alias = a.alias /\ write(a.alias)
      \/ /\ act \in {"rename", "forcerename"} /\ kmap # NoKMap /\ kother # a.alias
         /\ IF act = "forcerename" THEN write(a.alias)
            ELSE kmap' = [kmap EXCEPT !.alias = a.alias] /\ settled' = FALSE /\ loaded' = FALSE
      \/ act \in {"create", "reload", "resize", "rename", "forcerename", "switchpg"} /\ keep

setup_map(st) ==
  LET pgs  == group_paths(adopt_paths, mstate)
      best == select_path_group(pgs, st)
      ordered == [i \in 1..Len(pgs) |-> rr_optimize_path_order(pgs[i])]
  IN  [pgs |-> ordered, bestpg |-> best, params |-> assemble_map(ordered, best)]

coalesce_paths(force) ==
  \E st \in Resolved :
    LET m == setup_map(st)
    IN  /\ mstate' = st
        /\ IF SizeMismatch \/ MapSize = 0 \/ m.params = <<>>
           THEN kmap' = kmap /\ settled' = FALSE /\ loaded' = FALSE
           ELSE domap(select_action(m.pgs, m.bestpg, MapSize, curmp, force), m.params, m.bestpg, MapSize)
        /\ UNCHANGED <<mconf, mprio, mmarginal, msize, kother, curmp, changes>>

\* map_discovery(): the kernel's maps are read, before the paths.
map_discovery ==
  /\ curmp' = [own |-> kmap, other |-> kother]
  /\ UNCHANGED <<mconf, path_vars, kmap, kother, settled, loaded, changes>>

-----------------------------------------------------------------------------
(* Changes from outside.                                                   *)

Changed == changes < MaxMChanges /\ changes' = changes + 1 /\ settled' = FALSE /\ loaded' = FALSE

Reconfigured(c) ==
  /\ Changed /\ c # mconf /\ mconf' = c /\ UNCHANGED <<path_vars, kmap, kother, curmp>>

PathChanged(p) ==
  /\ Changed
  /\ \/ \E x \in MPrios \ {mprio[p]} : mprio' = [mprio EXCEPT ![p] = x] /\ UNCHANGED <<mstate, mmarginal, msize>>
     \/ \E x \in {"up", "down", "pending"} \ {mstate[p]} :
          mstate' = [mstate EXCEPT ![p] = x] /\ UNCHANGED <<mprio, mmarginal, msize>>
     \/ mmarginal' = [mmarginal EXCEPT ![p] = ~@] /\ UNCHANGED <<mprio, mstate, msize>>
     \/ \E x \in MSizes \ {msize[p]} : msize' = [msize EXCEPT ![p] = x] /\ UNCHANGED <<mprio, mstate, mmarginal>>
  /\ UNCHANGED <<mconf, kmap, kother, curmp>>

\* multipath(8) flushes the map, or gives the other LUN's map a name.
MapFlushed == Changed /\ kmap # NoKMap /\ kmap' = NoKMap /\ UNCHANGED <<mconf, path_vars, kother, curmp>>
OtherNamed(n) ==
  /\ Changed /\ n # kother /\ n # kmap.alias
  /\ kother' = n /\ UNCHANGED <<mconf, path_vars, kmap, curmp>>

MapSetupInit ==
  /\ mconf \in MConfs
  /\ mprio = [p \in MPathSet |-> CHOOSE x \in MPrios : \A y \in MPrios : y <= x]
  /\ mstate = [p \in MPathSet |-> "up"] /\ mmarginal = [p \in MPathSet |-> FALSE]
  /\ msize = [p \in MPathSet |-> CHOOSE x \in MSizes : \A y \in MSizes : y <= x]
  /\ kmap = NoKMap /\ kother = "none" /\ curmp = [own |-> NoKMap, other |-> "none"]
  /\ settled = FALSE /\ loaded = FALSE /\ changes = 0

MapSetupNext ==
  \/ map_discovery \/ \E force \in BOOLEAN : coalesce_paths(force)
  \/ \E c \in MConfs : Reconfigured(c)
  \/ \E p \in MPathSet : PathChanged(p)
  \/ MapFlushed \/ \E n \in {"none", "a", "b"} : OtherNamed(n)

MapSetupSpec == MapSetupInit /\ [][MapSetupNext]_setup_vars

-----------------------------------------------------------------------------
\* Two paths that the policy puts into one group.
GroupedTogether(p, q) ==
  /\ mconf.marginal_pathgroups => mmarginal[p] = mmarginal[q]
  /\ CASE mconf.policy = "failover" -> p = q
       [] mconf.policy = "multibus" -> TRUE
       [] mconf.policy = "serial" -> Serial[p] = Serial[q]
       [] mconf.policy = "prio" -> mprio[p] = mprio[q]
       [] mconf.policy = "node" -> Node[p] = Node[q]

\* Once a map is set up, the kernel's table, read back, has every path exactly
\* once, in the groups the policy asks for. If the table was just written, with
\* all paths up, its groups go from the best to the worst, marginal ones last,
\* and the kernel is told to start with one of the best.
GroupsFollowPolicy ==
  settled =>
    LET c == disassemble_map(kmap.table).pgs
        Better(x, y) == \/ ~marginal(x) /\ marginal(y)
                        \/ marginal(x) = marginal(y) /\ priority(x, mstate) > priority(y, mstate)
    IN  /\ {PathsOf(c[i]) : i \in 1..Len(c)} = {{q \in MPathSet : GroupedTogether(p, q)} : p \in MPathSet}
        /\ \A i \in 1..Len(c) : Len(c[i]) = Cardinality(PathsOf(c[i]))
        /\ loaded =>
             \A i \in 1..Len(c) :
               ~Better(c[i], c[kmap.pg]) /\ \A j \in 1..(i - 1) : ~Better(c[i], c[j])

\* A map that was set up is not reloaded again as long as nothing changes: what
\* select_action() compares survives being written to and read from the kernel.
NoReloadTwice ==
  settled /\ mconf.rr_weight = "uniform" =>
    LET m == setup_map(mstate)
        a == select_action(m.pgs, m.bestpg, MapSize, [own |-> kmap, other |-> kother], FALSE)
    IN  a.action \notin {"create", "reload", "resize"}
=============================================================================
