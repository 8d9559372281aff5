---------------------------- MODULE ServiceProofs ----------------------------
(***************************************************************************)
(* Proofs about two services of the daemon and its tools. Persist, for any *)
(* paths, hosts and keys: what mpathpersist reports of a registration or a *)
(* release is so on every path. IoErrStat, for any set of paths, any times *)
(* and any number of requests: a path that is kept out of use because it is*)
(* sampled is in the queue of the thread that samples it.                  *)
(***************************************************************************)
EXTENDS IoErrStat, Persist, SequenceTheorems, WellFoundedInduction, TLAPS

(***************************************************************************)
(* Persist: the inductive invariant                                        *)
(***************************************************************************)
Known == PrKeys \cup {ConfKey, PeerKey, NoKey}
Ops == {"register", "register_ignore", "reserve", "release", "clear", "preempt"}
Results == {PrSuccess, PrConflict, "error"}
\* The commands that only change registrations to their key sa.
Registering(c) == c.op \in {"register", "register_ignore"}

PrTypeOK ==
  /\ pr_reg \in [Nexuses -> Known]
  /\ pr_reg[Peer] \in {NoKey, PeerKey}
  /\ pr_file \in PrKeys \cup {NoKey}
  /\ pr_daemon = [key |-> SelectedKey(pr_file), flag |-> pr_daemon.flag]

\* A call is of one operation; what it sends is that, or the registration that
\* ends a release. Only what is sent to paths of the map is sent to them.
CallTypeOK(t) ==
  /\ DOMAIN t = {"pc", "op", "key", "sa", "ret", "view", "todo", "cmd", "res", "own",
                 "descr", "found", "before", "failed"}
  /\ t.pc \in {"check", "send", "rollback", "report", "clear", "again", "again2"}
  /\ t.op \in Ops
  /\ t.own \in PrKeys \cup {ConfKey, NoKey}
  /\ Registers(t) => t.sa \in PrKeys \cup {NoKey}
  /\ t.view \subseteq PrOwn /\ t.todo \subseteq PrOwn
  /\ t.res \in Seq(PrOwn \X Results)
  /\ t.cmd = [op |-> t.cmd.op, key |-> t.cmd.key, sa |-> t.cmd.sa, tid |-> "none"]
  /\ t.cmd.sa \in Known
Sends(t) ==
  \/ t.cmd.op = t.op /\ (Registers(t) => t.cmd.sa = t.sa)
  \/ /\ t.pc = "send" /\ t.op = "release" /\ t.found
     /\ t.cmd.op = "register" /\ t.cmd.sa = t.own
CallOK(t) ==
  /\ CallTypeOK(t)
  /\ t.pc \in {"check", "send"} => Sends(t)
  /\ t.pc = "check" => t.res = <<>>
  /\ t.pc = "rollback" => t.ret = PrConflict /\ Registering(t.cmd)
  /\ t.pc \in {"clear", "again", "again2"} => t.op = "release" /\ t.view # {}

\* A path that took the key has it, with all that are registered with it.
Answered(t, n) == \E i \in 1..Len(t.res) : t.res[i][1] = n
Sent(t) ==
  t.pc = "send" /\ Registering(t.cmd) =>
    /\ \A n \in PrTargets(t) : n \in t.todo \/ Answered(t, n)
    /\ pr_daemon.key = t.cmd.sa =>
         \A i \in 1..Len(t.res) : t.res[i][2] = PrSuccess =>
            \A q \in SameTarget(t.res[i][1]) : pr_reg[q] = t.cmd.sa

\* The hosts use different keys.
KeysDiffer == PeerKey \notin PrKeys \cup {ConfKey, NoKey}

\* What a release has found and has still to bring back: the key of the other
\* host is there, or is among the registrations d that are to be made again.
PeerListed(d, t) == [nexus |-> Peer, key |-> t.before[Peer]] \in d
PeerKept(t) == pr_reg[Peer] = t.before[Peer]
PeerBack(d, t) == KeysDiffer => t.failed \/ PeerKept(t) \/ PeerListed(d, t)
OwnKept(t) == \A q \in PrOwn : t.before[q] = t.own => pr_reg[q] = t.own
NextOf(d) == CHOOSE x \in d : TRUE
Intact(t) == t.pc \in {"check", "clear"} \/ (t.pc = "send" /\ t.cmd.op = "release")
Cleared(t) == t.pc \in {"again", "again2"}
ReleaseTypeOK(t) ==
  /\ t.own = pr_daemon.key
  /\ t.before \in [Nexuses -> Known] /\ t.before[Peer] \in {NoKey, PeerKey}
  /\ t.descr \subseteq [nexus : Nexuses, key : Known]
  /\ \A d \in t.descr : d.nexus = Peer => d.key = t.before[Peer]
Released(t) ==
  t.op = "release" =>
    /\ ReleaseTypeOK(t)
    /\ Intact(t) => PeerKept(t) /\ OwnKept(t)
    /\ (t.pc = "clear" \/ Cleared(t)) /\ t.own # NoKey =>
         \A q \in PrOwn : t.before[q] = t.own => t.found
    /\ t.pc = "clear" /\ t.own # NoKey /\ KeysDiffer =>
         t.before[Peer] = NoKey \/ PeerListed(t.descr, t)
    /\ Cleared(t) => t.own # NoKey
    /\ t.pc = "again" => PeerBack(t.descr, t)
    /\ t.pc = "again2" => t.descr # {} /\ PeerBack(t.descr \ {NextOf(t.descr)}, t)
    /\ t.pc = "send" /\ t.cmd.op # "release" => PeerBack({}, t)

Reported == RegisteredEverywhere /\ (KeysDiffer => ReleaseKeepsKeys)

PrInv ==
  /\ PrTypeOK
  /\ pr_tool.pc # "idle" => CallOK(pr_tool) /\ Sent(pr_tool) /\ Released(pr_tool)
  /\ Reported

(***************************************************************************)
(* Persist: paths and commands                                             *)
(***************************************************************************)
\* A set of natural numbers has a least element.
LEMMA LeastNat ==
  ASSUME NEW T, T \subseteq Nat, T # {}
  PROVE  \E x \in T : \A y \in T : x <= y
<1> DEFINE R == OpToRel(<, Nat)
<1>1. IsWellFoundedOn(R, Nat) BY NatLessThanWellFounded
<1>2. \A x, y \in Nat : x < y => <<x, y>> \in R BY DEF OpToRel
<1> HIDE DEF R
<1>3. PICK x \in T : \A y \in T : ~(<<y, x>> \in R) BY <1>1, WFMin
<1>4. ASSUME NEW y \in T PROVE x <= y
  <2>1. x \in Nat /\ y \in Nat OBVIOUS
  <2>2. ~(<<y, x>> \in R) BY <1>3
  <2>3. ~(y < x) BY <1>2, <2>1, <2>2
  <2> QED BY <2>1, <2>3
<1> QED BY <1>4

LEMMA FirstIs ==
  ASSUME NEW ps, ps \subseteq PrOwn, ps # {}
  PROVE  FirstOf(ps) \in ps
<1>1. PrPaths \in Seq(Range(PrPaths)) BY PrConstants
<1>2. DOMAIN PrPaths \subseteq Nat BY <1>1
<1>3. ASSUME NEW p \in PrOwn PROVE At(p) \in Nat
  <2>1. \E i \in DOMAIN PrPaths : PrPaths[i] = p BY DEF PrOwn, Range
  <2>2. At(p) \in DOMAIN PrPaths BY <2>1 DEF At
  <2> QED BY <1>2, <2>2
<1> DEFINE T == {At(p) : p \in ps}
<1>4. T \subseteq Nat /\ T # {} BY <1>3
<1>5. \E x \in T : \A y \in T : x <= y
  <2> HIDE DEF T
  <2> QED BY <1>4, LeastNat
<1>6. \E p \in ps : \A q \in ps : At(p) <= At(q) BY <1>5
<1> QED BY <1>6 DEF FirstOf

LEMMA SameTargetIs ==
  ASSUME NEW n \in PrOwn
  PROVE  n \in SameTarget(n) /\ SameTarget(n) \subseteq PrOwn
BY DEF SameTarget

LEMMA PeerIs == Peer \notin PrOwn /\ Peer \in Nexuses /\ PrOwn \subseteq Nexuses
BY PrConstants DEF PrOwn, Nexuses

\* The commands to one path of each host reach all paths.
LEMMA TargetsReachAll ==
  ASSUME NEW t, t.view \subseteq PrOwn, NEW p \in t.view
  PROVE  \E n \in PrTargets(t) : n \in PrOwn /\ p \in SameTarget(n)
<1>1. CASE ~AllTgPt
  <2>1. p \in PrTargets(t) BY <1>1 DEF PrTargets
  <2> QED BY <2>1, SameTargetIs
<1>2. CASE AllTgPt
  <2> DEFINE ps == {q \in t.view : PrHost[q] = PrHost[p]}
             n == FirstOf(ps)
  <2>1. n \in ps
    <3>1. ps \subseteq PrOwn /\ ps # {} OBVIOUS
    <3> HIDE DEF ps
    <3> QED BY <3>1, FirstIs
  <2>2. n \in t.view /\ PrHost[n] = PrHost[p]
    <3> HIDE DEF n
    <3> QED BY <2>1
  <2>3. ps = {q \in t.view : PrHost[q] = PrHost[n]}
    <3> HIDE DEF n
    <3> QED BY <2>2
  <2>4. n \in PrTargets(t)
    <3>1. n = FirstOf({q \in t.view : PrHost[q] = PrHost[n]})
      <4>1. n = FirstOf(ps) OBVIOUS
      <4> HIDE DEF ps, n
      <4> QED BY <2>3, <4>1
    <3> HIDE DEF n
    <3> QED BY <2>2, <3>1 DEF PrTargets
  <2> HIDE DEF n
  <2>5. p \in SameTarget(n) BY <1>2, <2>2 DEF SameTarget
  <2> QED BY <2>2, <2>4, <2>5
<1> QED BY <1>1, <1>2

LEMMA IoctlIs ==
  ASSUME NEW n, NEW c, NEW a \in prout_do_scsi_ioctl(n, c), PrOutcome(a)
  PROVE  LET r == PrCommand(PrLun, n, c)
         IN  /\ pr_reg' \in {pr_reg, r.lun.reg}
             /\ a.status \in Results
             /\ a.status = PrSuccess => r.status = "good" /\ pr_reg' = r.lun.reg
<1> DEFINE r == PrCommand(PrLun, n, c)
<1> HIDE DEF r
<1>1. PICK l \in {PrLun, r.lun}, s \in {r.status, "other"}, f \in {0, 1} :
        a = [lun |-> l, status |-> mpath_translate_response(s), faults |-> f]
        /\ (s = "other" \/ l = r.lun)
  BY DEF prout_do_scsi_ioctl, r
<1>2. pr_reg' = l.reg /\ a.status = mpath_translate_response(s) BY <1>1 DEF PrOutcome
<1>3. PrLun.reg = pr_reg BY DEF PrLun
<1>4. a.status \in Results BY <1>2 DEF mpath_translate_response, Results
<1>5. a.status = PrSuccess => s = "good" BY <1>2 DEF mpath_translate_response, PrSuccess, PrConflict
<1>6. a.status = PrSuccess => s = r.status /\ l = r.lun BY <1>1, <1>5
<1> QED BY <1>1, <1>2, <1>3, <1>4, <1>5, <1>6 DEF r

LEMMA RegisterIs ==
  ASSUME PrTypeOK, NEW n \in PrOwn, NEW c, Registering(c), c.tid = "none", c.sa \in Known,
         NEW a \in prout_do_scsi_ioctl(n, c), PrOutcome(a)
  PROVE  /\ pr_reg' \in [Nexuses -> Known] /\ pr_reg'[Peer] = pr_reg[Peer]
         /\ \A q \in PrOwn : pr_reg'[q] \in {pr_reg[q], c.sa}
         /\ a.status \in Results
         /\ a.status = PrSuccess => \A q \in SameTarget(n) : pr_reg'[q] = c.sa
<1> DEFINE r == PrCommand(PrLun, n, c)
           g == [q \in Nexuses |-> IF q \in SameTarget(n) THEN c.sa ELSE pr_reg[q]]
<1>1. r.lun.reg \in {pr_reg, g} /\ (r.status = "good" => r.lun.reg = g)
  <2>1. SetKey(PrLun, SameTarget(n), c.sa).reg = g BY DEF SetKey, PrLun
  <2>2. CASE c.op = "register" BY <2>1, <2>2 DEF PrCommand, PrAnswer, PrLun
  <2>3. CASE c.op = "register_ignore" BY <2>1, <2>3 DEF PrCommand, PrAnswer, PrLun
  <2> QED BY <2>2, <2>3 DEF Registering
<1> HIDE DEF r
<1>2. /\ pr_reg' \in {pr_reg, r.lun.reg}
      /\ a.status \in Results
      /\ a.status = PrSuccess => r.status = "good" /\ pr_reg' = r.lun.reg
  BY IoctlIs DEF r
<1>3. pr_reg' \in {pr_reg, g} /\ (a.status = PrSuccess => pr_reg' = g) BY <1>1, <1>2
<1>4. SameTarget(n) \subseteq PrOwn BY SameTargetIs
<1>5. /\ g \in [Nexuses -> Known] /\ g[Peer] = pr_reg[Peer]
      /\ \A q \in PrOwn : g[q] \in {pr_reg[q], c.sa}
      /\ \A q \in SameTarget(n) : g[q] = c.sa
  BY <1>4, PeerIs DEF PrTypeOK
<1> HIDE DEF g
<1> QED BY <1>2, <1>3, <1>5 DEF PrTypeOK

\* The commands of a call that are not registrations.
LEMMA OtherIs ==
  ASSUME PrTypeOK, NEW n \in PrOwn, NEW c, c.op \in Ops, ~Registering(c),
         NEW a \in prout_do_scsi_ioctl(n, c), PrOutcome(a)
  PROVE  /\ pr_reg' \in [Nexuses -> Known] /\ pr_reg'[Peer] \in {NoKey, PeerKey}
         /\ a.status \in Results
         /\ c.op = "release" => pr_reg' = pr_reg
<1> DEFINE r == PrCommand(PrLun, n, c)
<1>1. \E T \in SUBSET Nexuses :
         /\ r.lun.reg = [q \in Nexuses |-> IF q \in T THEN NoKey ELSE pr_reg[q]]
         /\ c.op = "release" => T = {}
  <2> DEFINE G(T) == [q \in Nexuses |-> IF q \in T THEN NoKey ELSE pr_reg[q]]
  <2>1. PrLun.reg = pr_reg /\ G({}) = pr_reg BY DEF PrLun, PrTypeOK
  <2>2. CASE c.op \in {"reserve", "release"}
    <3>1. r.lun.reg = pr_reg BY <2>1, <2>2 DEF PrCommand, PrAnswer, PrLun
    <3> QED BY <2>1, <3>1
  <2>3. CASE c.op = "clear"
    <3>1. r.lun.reg \in {pr_reg, [q \in Nexuses |-> NoKey]}
      BY <2>1, <2>3 DEF PrCommand, PrAnswer, PrLun
    <3>2. CASE r.lun.reg = pr_reg
      <4>1. r.lun.reg = G({}) /\ {} \in SUBSET Nexuses BY <2>1, <3>2
      <4> HIDE DEF r
      <4> QED BY <4>1
    <3>3. CASE r.lun.reg = [q \in Nexuses |-> NoKey]
      <4>1. r.lun.reg = G(Nexuses) BY <3>3
      <4> HIDE DEF r
      <4> QED BY <2>3, <4>1
    <3> QED BY <3>1, <3>2, <3>3
  <2>4. CASE c.op = "preempt"
    <3> DEFINE gone == {q \in Nexuses \ {n} : PrLun.reg[q] = c.sa}
    <3>1. SetKey(PrLun, gone, NoKey).reg = G(gone) BY DEF SetKey, PrLun
    <3>2. r.lun.reg \in {pr_reg, SetKey(PrLun, gone, NoKey).reg}
      BY <2>1, <2>4 DEF PrCommand, PrAnswer, SetKey
    <3>3. gone \in SUBSET Nexuses OBVIOUS
    <3> HIDE DEF gone, r
    <3>4. CASE r.lun.reg = pr_reg
      <4>1. r.lun.reg = G({}) /\ {} \in SUBSET Nexuses BY <2>1, <3>4
      <4> QED BY <4>1
    <3>5. CASE r.lun.reg = G(gone) BY <2>4, <3>3, <3>5
    <3> QED BY <3>1, <3>2, <3>4, <3>5
  <2> QED BY <2>2, <2>3, <2>4 DEF Ops, Registering
<1> HIDE DEF r
<1>2. /\ pr_reg' \in {pr_reg, r.lun.reg}
      /\ a.status \in Results
  BY IoctlIs DEF r
<1>3. PICK T \in SUBSET Nexuses :
         /\ r.lun.reg = [q \in Nexuses |-> IF q \in T THEN NoKey ELSE pr_reg[q]]
         /\ c.op = "release" => T = {}
  BY <1>1
<1>4. r.lun.reg \in [Nexuses -> Known] /\ r.lun.reg[Peer] \in {NoKey, PeerKey}
  BY <1>3, PeerIs DEF PrTypeOK, Known
<1>5. c.op = "release" => r.lun.reg = pr_reg BY <1>3 DEF PrTypeOK
<1> QED BY <1>2, <1>4, <1>5 DEF PrTypeOK

\* The CLEAR of a release.
LEMMA ClearIs ==
  ASSUME NEW n \in PrOwn, NEW c, c.op = "clear",
         NEW a \in prout_do_scsi_ioctl(n, c), PrOutcome(a), a.status = PrSuccess
  PROVE  c.key # NoKey /\ pr_reg' = [q \in Nexuses |-> NoKey]
<1> DEFINE r == PrCommand(PrLun, n, c)
<1>1. r.status = "good" => c.key # NoKey /\ r.lun.reg = [q \in Nexuses |-> NoKey]
  BY DEF PrCommand, PrAnswer
<1> HIDE DEF r
<1>2. r.status = "good" /\ pr_reg' = r.lun.reg BY IoctlIs DEF r
<1> QED BY <1>1, <1>2

\* A registration by TransportID.
LEMMA RegisterTidIs ==
  ASSUME PrTypeOK, NEW n \in PrOwn, NEW c, c.op = "register", c.tid \in Nexuses, c.tid # "none",
         c.sa \in Known, NEW a \in prout_do_scsi_ioctl(n, c), PrOutcome(a)
  PROVE  /\ pr_reg' \in [Nexuses -> Known]
         /\ c.tid # Peer => pr_reg'[Peer] = pr_reg[Peer]
         /\ c.tid = Peer => pr_reg'[Peer] \in {pr_reg[Peer], c.sa}
         /\ c.tid = Peer /\ a.status = PrSuccess => pr_reg'[Peer] = c.sa
<1> DEFINE r == PrCommand(PrLun, n, c)
           g == [q \in Nexuses |-> IF q \in SameTarget(n) \cup {c.tid} THEN c.sa ELSE pr_reg[q]]
<1>1. r.lun.reg \in {pr_reg, g} /\ (r.status = "good" => r.lun.reg = g)
  <2> DEFINE b == SetKey(PrLun, SameTarget(n), c.sa)
  <2>1. b.reg = [q \in Nexuses |-> IF q \in SameTarget(n) THEN c.sa ELSE pr_reg[q]]
    BY DEF SetKey, PrLun
  <2>2. r = PrAnswer(PrLun.reg[n] = c.key, PrLun, SetKey(b, {c.tid}, c.sa))
    BY DEF PrCommand
  <2> HIDE DEF b
  <2> DEFINE e == SetKey(b, {c.tid}, c.sa)
  <2>3. e.reg = g BY <2>1 DEF SetKey
  <2> HIDE DEF e
  <2>4. r \in {[status |-> "good", lun |-> e], [status |-> "reservation conflict", lun |-> PrLun]}
    BY <2>2 DEF PrAnswer, e
  <2>5. PrLun.reg = pr_reg BY DEF PrLun
  <2> HIDE DEF r, g
  <2>6. r.lun \in {e, PrLun} /\ (r.status = "good" => r.lun = e)
    <3>1. CASE r = [status |-> "good", lun |-> e] BY <3>1
    <3>2. CASE r = [status |-> "reservation conflict", lun |-> PrLun] BY <3>2
    <3> QED BY <2>4, <3>1, <3>2
  <2> QED BY <2>3, <2>5, <2>6
<1> HIDE DEF r
<1>2. /\ pr_reg' \in {pr_reg, r.lun.reg}
      /\ a.status = PrSuccess => r.status = "good" /\ pr_reg' = r.lun.reg
  BY IoctlIs DEF r
<1>3. pr_reg' \in {pr_reg, g} /\ (a.status = PrSuccess => pr_reg' = g) BY <1>1, <1>2
<1>4. SameTarget(n) \subseteq PrOwn BY SameTargetIs
<1>5. /\ g \in [Nexuses -> Known]
      /\ g[Peer] = IF c.tid = Peer THEN c.sa ELSE pr_reg[Peer]
  BY <1>4, PeerIs DEF PrTypeOK
<1> HIDE DEF g
<1> QED BY <1>3, <1>5 DEF PrTypeOK

(***************************************************************************)
(* Persist: the steps                                                      *)
(***************************************************************************)
LEMMA PrInitInv == PrInit => PrInv
<1> SUFFICES ASSUME PrInit PROVE PrInv OBVIOUS
<1>1. PrTypeOK
  <2>1. pr_reg \in [Nexuses -> Known] /\ pr_reg[Peer] \in {NoKey, PeerKey}
    BY PeerIs DEF PrInit, Known
  <2> QED BY <2>1 DEF PrInit, PrTypeOK
<1>2. pr_tool.pc = "idle" BY DEF PrInit, PrIdle
<1>3. Reported BY <1>2 DEF Reported, RegisteredEverywhere, ReleaseKeepsKeys
<1> QED BY <1>1, <1>2, <1>3 DEF PrInv

\* What may happen beside the call: a path gets the key of the daemon.
LEMMA BesideStep ==
  ASSUME PrInv, pr_tool' = pr_tool, pr_daemon'.key = pr_daemon.key, PrTypeOK',
         pr_reg'[Peer] = pr_reg[Peer],
         \A q \in PrOwn : pr_reg'[q] \in {pr_reg[q], pr_daemon.key}
  PROVE  PrInv'
<1> DEFINE t == pr_tool
<1>1. ASSUME t.pc # "idle" PROVE CallOK(t) /\ Sent(t) /\ Released(t) BY <1>1 DEF PrInv
<1> HIDE DEF t
<1>2. ASSUME t.pc # "idle" PROVE Sent(t)'
  <2> SUFFICES ASSUME t.pc = "send", Registering(t.cmd), pr_daemon.key = t.cmd.sa,
                      NEW i \in 1..Len(t.res), t.res[i][2] = PrSuccess,
                      NEW q \in SameTarget(t.res[i][1])
               PROVE  pr_reg'[q] = t.cmd.sa
    BY <1>1, <1>2 DEF Sent, t, Answered, PrTargets
  <2>1. pr_reg[q] = t.cmd.sa BY <1>1 DEF Sent
  <2>2. t.res[i] \in PrOwn \X Results BY <1>1 DEF CallOK, CallTypeOK
  <2>3. q \in PrOwn BY <2>2, SameTargetIs
  <2> QED BY <2>1, <2>3
<1>3. PeerKept(t)' = PeerKept(t) BY DEF PeerKept, t
<1>4. ASSUME t.own = pr_daemon.key, OwnKept(t) PROVE OwnKept(t)' BY <1>4 DEF OwnKept, t
<1>5. ASSUME t.pc # "idle" PROVE Released(t)'
  <2> SUFFICES ASSUME t.op = "release" PROVE Released(t)' BY DEF Released, t
  <2>1. Released(t) /\ ReleaseTypeOK(t) BY <1>1, <1>5 DEF Released
  <2>2. ReleaseTypeOK(t)' BY <2>1 DEF ReleaseTypeOK, t
  <2>3. Intact(t) => OwnKept(t)' /\ PeerKept(t)'
    BY <1>3, <1>4, <2>1 DEF Released, ReleaseTypeOK
  <2>4. \A d : PeerBack(d, t) => PeerBack(d, t)' BY <1>3 DEF PeerBack, PeerListed, t
  <2> QED BY <2>1, <2>2, <2>3, <2>4 DEF Released, Intact, Cleared, PeerListed, t
<1>6. Reported'
  <2>1. RegisteredEverywhere'
    <3> SUFFICES ASSUME t.pc = "report", t.ret = PrSuccess, Registers(t), t.sa # NoKey,
                        pr_daemon.key = t.sa, NEW p \in t.view
                 PROVE  pr_reg'[p] = t.sa
      BY DEF RegisteredEverywhere, Registers, t
    <3>1. pr_reg[p] = t.sa BY DEF PrInv, Reported, RegisteredEverywhere, t
    <3>2. p \in PrOwn BY <1>1 DEF CallOK, CallTypeOK
    <3> QED BY <3>1, <3>2
  <2>2. KeysDiffer => ReleaseKeepsKeys'
    <3> SUFFICES ASSUME KeysDiffer, t.pc = "report", t.op = "release", t.ret = PrSuccess, ~t.failed
                 PROVE  /\ pr_reg'[Peer] = t.before[Peer]
                        /\ \A p \in t.view : t.before[p] = t.own => pr_reg'[p] = t.own
      BY DEF ReleaseKeepsKeys, t
    <3>1. /\ pr_reg[Peer] = t.before[Peer]
          /\ \A p \in t.view : t.before[p] = t.own => pr_reg[p] = t.own
      BY DEF PrInv, Reported, ReleaseKeepsKeys, t
    <3>2. t.own = pr_daemon.key /\ t.view \subseteq PrOwn
      BY <1>1 DEF CallOK, CallTypeOK, Released, ReleaseTypeOK
    <3> QED BY <3>1, <3>2
  <2> QED BY <2>1, <2>2 DEF Reported, KeysDiffer
<1>7. t.pc # "idle" => CallOK(t)'
  BY <1>1 DEF CallOK, CallTypeOK, Sends, t, Registers
<1> QED BY <1>2, <1>5, <1>6, <1>7 DEF PrInv, t

LEMMA PrTypeEnv ==
  ASSUME PrTypeOK, pr_reg' \in [Nexuses -> Known], pr_reg'[Peer] \in {NoKey, PeerKey},
         UNCHANGED <<pr_file, pr_daemon>>
  PROVE  PrTypeOK'
BY DEF PrTypeOK, SelectedKey

LEMMA PrPathStep ==
  ASSUME PrInv, NEW p \in PrOwn, PrPathDown(p) \/ \E added \in BOOLEAN : PrPathUp(p, added)
  PROVE  PrInv'
<1> DEFINE c == [op |-> "register_ignore", key |-> NoKey, sa |-> pr_daemon.key, tid |-> "none"]
<1>1. CASE PrPathDown(p) \/ (UNCHANGED <<pr_reg, pr_daemon, pr_file, pr_tool>>)
  <2>1. UNCHANGED <<pr_reg, pr_daemon, pr_file, pr_tool>> BY <1>1 DEF PrPathDown
  <2>2. PrTypeOK' BY <2>1 DEF PrInv, PrTypeOK
  <2> QED BY <2>1, <2>2, BesideStep
<1>2. CASE \E added \in BOOLEAN : PrPathUp(p, added) /\ mpath_pr_event_handle(p)
  <2>1. UNCHANGED <<pr_file, pr_tool>> BY <1>2 DEF PrPathUp
  <2>2. /\ pr_daemon' = pr_daemon \/ pr_daemon' = [pr_daemon EXCEPT !.flag = TRUE]
        /\ pr_reg' \in {pr_reg, PrCommand(PrLun, p, c).lun.reg}
    BY <1>2 DEF mpath_pr_event_handle
  <2>3. PrTypeOK BY DEF PrInv
  <2> DEFINE g == SetKey(PrLun, SameTarget(p), pr_daemon.key).reg
  <2>4. PrCommand(PrLun, p, c).lun.reg = g BY DEF PrCommand, PrAnswer
  <2>5. g = [q \in Nexuses |-> IF q \in SameTarget(p) THEN pr_daemon.key ELSE pr_reg[q]]
    BY DEF SetKey, PrLun
  <2>6. pr_daemon.key \in Known BY <2>3 DEF PrTypeOK, SelectedKey, Known
  <2> HIDE DEF g, c
  <2>7. SameTarget(p) \subseteq PrOwn BY SameTargetIs
  <2>8. g \in [Nexuses -> Known] /\ g[Peer] = pr_reg[Peer]
        /\ \A q \in PrOwn : g[q] \in {pr_reg[q], pr_daemon.key}
    BY <2>3, <2>5, <2>6, <2>7, PeerIs DEF PrTypeOK
  <2>9. pr_reg' \in {pr_reg, g} BY <2>2, <2>4
  <2>10. pr_daemon'.key = pr_daemon.key /\ pr_daemon' = [key |-> pr_daemon'.key, flag |-> pr_daemon'.flag]
    <3>1. pr_daemon = [key |-> SelectedKey(pr_file), flag |-> pr_daemon.flag] BY <2>3 DEF PrTypeOK
    <3> QED BY <2>2, <3>1
  <2>11. PrTypeOK'
    BY <2>1, <2>3, <2>8, <2>9, <2>10 DEF PrTypeOK, SelectedKey
  <2> QED BY <2>1, <2>3, <2>8, <2>9, <2>10, <2>11, BesideStep
<1> QED BY <1>1, <1>2 DEF PrPathUp

LEMMA RestartStep ==
  ASSUME PrInv, DaemonRestart
  PROVE  PrInv'
<1>1. UNCHANGED <<pr_reg, pr_file, pr_tool>> BY DEF DaemonRestart
<1>2. pr_daemon' = [key |-> SelectedKey(pr_file), flag |-> pr_daemon'.flag] BY DEF DaemonRestart
<1>3. pr_daemon.key = SelectedKey(pr_file) BY DEF PrInv, PrTypeOK
<1>4. PrTypeOK' BY <1>1, <1>2 DEF PrInv, PrTypeOK, SelectedKey
<1> QED BY <1>1, <1>2, <1>3, <1>4, BesideStep

\* The steps of a call: u is the call after the step.
LEMMA CallStep ==
  ASSUME PrInv, PrTypeOK', NEW u, pr_tool' = u, CallOK(u), Sent(pr_tool)', Released(pr_tool)',
         u.pc = "report" => Reported'
  PROVE  PrInv'
<1>1. u.pc # "report" => Reported'
  BY DEF Reported, RegisteredEverywhere, ReleaseKeepsKeys
<1> QED BY <1>1 DEF PrInv

LEMMA PrCallStep ==
  ASSUME PrInv, NEW op \in Ops, NEW key, NEW sa \in Known,
         op \in {"register", "register_ignore"} => sa \in PrKeys \cup {NoKey},
         PrCall(op, key, sa)
  PROVE  PrInv'
<1> DEFINE u == PrStart(op, key, sa)
<1>1. pr_tool' = u /\ UNCHANGED <<pr_reg, pr_file, pr_daemon>> BY DEF PrCall
<1>2. /\ DOMAIN u = {"pc", "op", "key", "sa", "ret", "view", "todo", "cmd", "res", "own",
                     "descr", "found", "before", "failed"}
      /\ u.pc = "check" /\ u.op = op /\ u.sa = sa
      /\ u.view = PrOwn \cap pr_up /\ u.todo = {} /\ u.res = <<>> /\ u.own = SelectedKey(pr_file)
      /\ u.cmd = [op |-> op, key |-> key, sa |-> sa, tid |-> "none"]
      /\ u.descr = {} /\ (op = "release" => u.before = pr_reg)
  BY DEF PrStart
<1> HIDE DEF u
<1>3. PrTypeOK' BY <1>1, PrTypeEnv DEF PrInv, PrTypeOK
<1>4. u.own = pr_daemon.key /\ u.own \in PrKeys \cup {ConfKey, NoKey}
  BY <1>2 DEF PrInv, PrTypeOK, SelectedKey
<1>5. u.cmd.op = op /\ u.cmd.sa = sa /\ u.cmd.key = key BY <1>2
<1>6. CallOK(u)
  <2>1. CallTypeOK(u) BY <1>2, <1>4, <1>5 DEF CallTypeOK, Registers
  <2> QED BY <1>2, <1>5, <2>1 DEF CallOK, Sends
<1>7. Sent(pr_tool)' BY <1>1, <1>2 DEF Sent
<1>8. Released(pr_tool)'
  <2> SUFFICES ASSUME op = "release" PROVE Released(pr_tool)' BY <1>1, <1>2 DEF Released
  <2>1. ReleaseTypeOK(pr_tool)'
    BY <1>1, <1>2, <1>4 DEF ReleaseTypeOK, PrInv, PrTypeOK
  <2>2. (PeerKept(pr_tool) /\ OwnKept(pr_tool))' BY <1>1, <1>2 DEF PeerKept, OwnKept
  <2> QED BY <1>1, <1>2, <2>1, <2>2 DEF Released, Intact, Cleared
<1> QED BY <1>1, <1>2, <1>3, <1>6, <1>7, <1>8, CallStep

LEMMA CheckKeyStep ==
  ASSUME PrInv, CheckKey
  PROVE  PrInv'
<1> DEFINE t == pr_tool
           new == /\ PrSource = "file" /\ t.sa # NoKey
                  /\ (t.op = "register" /\ t.own = NoKey) \/ t.op = "register_ignore"
           own == IF new THEN t.sa ELSE t.own
           to == IF Registers(t) THEN PrTargets(t)
                 ELSE IF t.op = "release" THEN t.view
                 ELSE IF t.view = {} THEN {} ELSE {FirstOf(t.view)}
<1>1. t.pc = "check" /\ CallOK(t) /\ Released(t) BY DEF CheckKey, PrInv
<1>2. UNCHANGED pr_reg BY DEF CheckKey
<1>3. IF new THEN set_prkey(t.sa) ELSE UNCHANGED <<pr_file, pr_daemon>> BY DEF CheckKey
<1>4. \/ pr_tool' = [t EXCEPT !.pc = "report", !.ret = "syntax"]
      \/ pr_tool' = [t EXCEPT !.pc = "report", !.ret = "dmmp"]
      \/ pr_tool' = [t EXCEPT !.pc = "send", !.todo = to, !.own = own]
  BY DEF CheckKey
<1> HIDE DEF t
<1>5. new => t.sa \in PrKeys \cup {NoKey} /\ Registers(t) /\ t.op # "release"
  BY <1>1 DEF CallOK, CallTypeOK, Registers
<1>6. PrTypeOK'
  <2>1. CASE new
    <3>1. pr_file' = t.sa /\ pr_daemon' = [pr_daemon EXCEPT !.key = SelectedKey(t.sa)]
      BY <1>3, <2>1 DEF set_prkey
    <3>2. pr_daemon' = [key |-> SelectedKey(t.sa), flag |-> pr_daemon'.flag]
      BY <3>1 DEF PrInv, PrTypeOK
    <3> QED BY <1>2, <1>5, <2>1, <3>1, <3>2 DEF PrInv, PrTypeOK
  <2>2. CASE ~new BY <1>2, <1>3, <2>2, PrTypeEnv DEF PrInv, PrTypeOK
  <2> QED BY <2>1, <2>2
<1>7. own \in PrKeys \cup {ConfKey, NoKey} BY <1>1, <1>5 DEF CallOK, CallTypeOK
<1>8. t.op = "release" => own = t.own /\ UNCHANGED pr_daemon BY <1>3, <1>5
<1>9. to \subseteq PrOwn
  <2>1. t.view \subseteq PrOwn BY <1>1 DEF CallOK, CallTypeOK
  <2>2. PrTargets(t) \subseteq PrOwn BY <2>1 DEF PrTargets
  <2> QED BY <2>1, <2>2, FirstIs
<1> HIDE DEF new, own
<1>10. CASE pr_tool' = [t EXCEPT !.pc = "report", !.ret = "syntax"]
            \/ pr_tool' = [t EXCEPT !.pc = "report", !.ret = "dmmp"]
  <2> DEFINE u == pr_tool'
  <2>1. /\ u.pc = "report" /\ u.ret # PrSuccess
        /\ DOMAIN u = DOMAIN t /\ u.op = t.op /\ u.own = t.own /\ u.sa = t.sa /\ u.view = t.view
        /\ u.todo = t.todo /\ u.res = t.res /\ u.cmd = t.cmd /\ u.descr = t.descr
        /\ u.before = t.before
    <3>1. PICK r \in {"syntax", "dmmp"} : u = [t EXCEPT !.pc = "report", !.ret = r] BY <1>10
    <3>2. r # PrSuccess BY DEF PrSuccess
    <3> HIDE DEF u
    <3> QED BY <1>1, <3>1, <3>2 DEF CallOK, CallTypeOK
  <2> HIDE DEF u
  <2>2. CallOK(u) BY <1>1, <2>1 DEF CallOK, CallTypeOK, Registers
  <2>3. Sent(pr_tool)' BY <2>1 DEF Sent, u
  <2>4. Released(pr_tool)'
    BY <1>1, <1>8, <2>1 DEF Released, ReleaseTypeOK, Intact, Cleared, u
  <2>5. Reported' BY <2>1 DEF Reported, RegisteredEverywhere, ReleaseKeepsKeys, u
  <2> QED BY <1>6, <2>2, <2>3, <2>4, <2>5, CallStep DEF u
<1>11. CASE pr_tool' = [t EXCEPT !.pc = "send", !.todo = to, !.own = own]
  <2> DEFINE u == pr_tool'
  <2> HIDE DEF to
  <2>1. /\ u.pc = "send" /\ u.todo = to /\ u.own = own
        /\ DOMAIN u = DOMAIN t /\ u.op = t.op /\ u.sa = t.sa /\ u.view = t.view
        /\ u.res = t.res /\ u.cmd = t.cmd /\ u.descr = t.descr
        /\ u.before = t.before
    BY <1>1, <1>11 DEF CallOK, CallTypeOK
  <2> HIDE DEF u
  <2>2. CallOK(u)
    BY <1>1, <1>7, <1>9, <2>1 DEF CallOK, CallTypeOK, Registers, Sends
  <2>3. Sent(pr_tool)'
    <3> SUFFICES ASSUME Registering(t.cmd) PROVE Sent(pr_tool)' BY <2>1 DEF Sent, u
    <3>1. Registers(t) BY <1>1 DEF CallOK, Sends, Registering, Registers
    <3>2. u.res = <<>> BY <1>1, <2>1 DEF CallOK
    <3>3. to = PrTargets(u) BY <2>1, <3>1 DEF to, PrTargets
    <3> QED BY <2>1, <3>2, <3>3 DEF Sent, u
  <2>4. Released(pr_tool)'
    <3> SUFFICES ASSUME t.op = "release" PROVE Released(pr_tool)' BY <2>1 DEF Released, u
    <3>1. t.cmd.op = "release" BY <1>1 DEF CallOK, Sends
    <3>2. ReleaseTypeOK(t) /\ PeerKept(t) /\ OwnKept(t) BY <1>1 DEF Released, Intact
    <3>3. ReleaseTypeOK(pr_tool)' BY <1>8, <2>1, <3>2 DEF ReleaseTypeOK, u
    <3>4. (PeerKept(pr_tool) /\ OwnKept(pr_tool))'
      BY <1>2, <1>8, <2>1, <3>2 DEF PeerKept, OwnKept, u
    <3> QED BY <2>1, <3>1, <3>3, <3>4 DEF Released, Intact, Cleared, u
  <2> QED BY <1>6, <2>1, <2>2, <2>3, <2>4, CallStep DEF u
<1> QED BY <1>4, <1>10, <1>11

LEMMA SendStep ==
  ASSUME PrInv, NEW n \in PrOwn, PrSend(n)
  PROVE  PrInv'
<1> DEFINE t == pr_tool
           u == pr_tool'
<1>1. /\ t.pc = "send" /\ n \in t.todo /\ UNCHANGED <<pr_file, pr_daemon>>
      /\ CallOK(t) /\ Sent(t) /\ Released(t) /\ PrTypeOK
  BY DEF PrSend, PrInv
<1>2. PICK a \in prout_do_scsi_ioctl(n, t.cmd) :
        /\ PrOutcome(a)
        /\ u = [t EXCEPT !.todo = @ \ {n}, !.failed = @ \/ a.status = "error",
                         !.res = Append(@, <<n, a.status>>)]
  BY DEF PrSend
<1> HIDE DEF t
<1>3. /\ u.pc = "send" /\ u.todo = t.todo \ {n} /\ u.res = Append(t.res, <<n, a.status>>)
      /\ u.failed = (t.failed \/ a.status = "error")
      /\ DOMAIN u = DOMAIN t /\ u.op = t.op /\ u.own = t.own /\ u.sa = t.sa /\ u.view = t.view
      /\ u.cmd = t.cmd /\ u.descr = t.descr /\ u.before = t.before /\ u.found = t.found
  BY <1>1, <1>2 DEF CallOK, CallTypeOK
<1> HIDE DEF u
<1>4. t.cmd.op \in Ops /\ t.cmd.sa \in Known /\ t.cmd.tid = "none"
  BY <1>1 DEF CallOK, CallTypeOK, Sends, Ops
<1>5. /\ a.status \in Results
      /\ pr_reg' \in [Nexuses -> Known] /\ pr_reg'[Peer] \in {NoKey, PeerKey}
  <2>1. CASE Registering(t.cmd) BY <1>1, <1>2, <1>4, <2>1, RegisterIs DEF PrTypeOK
  <2>2. CASE ~Registering(t.cmd) BY <1>1, <1>2, <1>4, <2>2, OtherIs
  <2> QED BY <2>1, <2>2
<1>6. PrTypeOK' BY <1>1, <1>5, PrTypeEnv
<1>7. /\ u.res \in Seq(PrOwn \X Results) /\ Len(u.res) = Len(t.res) + 1
      /\ \A i \in 1..Len(t.res) : u.res[i] = t.res[i]
      /\ u.res[Len(t.res) + 1] = <<n, a.status>>
  <2>1. t.res \in Seq(PrOwn \X Results) /\ <<n, a.status>> \in PrOwn \X Results
    BY <1>1, <1>5 DEF CallOK, CallTypeOK
  <2> QED BY <1>3, <2>1, AppendProperties
<1>8. CallOK(u)
  <2>1. CallTypeOK(u) BY <1>1, <1>3, <1>7 DEF CallOK, CallTypeOK, Registers
  <2>2. Sends(u) BY <1>1, <1>3 DEF CallOK, Sends, Registers
  <2> QED BY <1>3, <2>1, <2>2 DEF CallOK
<1>9. t.res \in Seq(PrOwn \X Results) BY <1>1 DEF CallOK, CallTypeOK
<1>10. Sent(pr_tool)'
  <2> SUFFICES ASSUME Registering(t.cmd)
               PROVE  /\ \A m \in PrTargets(u) : m \in u.todo \/ Answered(u, m)
                      /\ pr_daemon'.key = u.cmd.sa =>
                           \A i \in 1..Len(u.res) : u.res[i][2] = PrSuccess =>
                              \A q \in SameTarget(u.res[i][1]) : pr_reg'[q] = u.cmd.sa
    BY <1>3 DEF Sent, u
  <2>1. PrTargets(u) = PrTargets(t) BY <1>3 DEF PrTargets
  <2>2. ASSUME NEW m \in PrTargets(t) PROVE m \in u.todo \/ Answered(u, m)
    <3>1. CASE m = n
      <4>1. Len(t.res) + 1 \in 1..Len(u.res) BY <1>7, <1>9
      <4> QED BY <1>7, <3>1, <4>1 DEF Answered
    <3>2. CASE m \in t.todo /\ m # n BY <1>3, <3>2
    <3>3. CASE Answered(t, m)
      <4>1. PICK i \in 1..Len(t.res) : t.res[i][1] = m BY <3>3 DEF Answered
      <4>2. i \in 1..Len(u.res) /\ u.res[i][1] = m BY <1>7, <1>9, <4>1
      <4> QED BY <4>2 DEF Answered
    <3> QED BY <1>1, <3>1, <3>2, <3>3 DEF Sent
  <2>3. ASSUME pr_daemon'.key = u.cmd.sa, NEW i \in 1..Len(u.res), u.res[i][2] = PrSuccess,
               NEW q \in SameTarget(u.res[i][1])
        PROVE  pr_reg'[q] = u.cmd.sa
    <3>1. CASE i = Len(t.res) + 1
      <4>1. u.res[i][1] = n /\ u.res[i][2] = a.status BY <1>7, <3>1
      <4> QED BY <1>1, <1>2, <1>3, <1>4, <2>3, <4>1, RegisterIs
    <3>2. CASE i # Len(t.res) + 1
      <4>1. i \in 1..Len(t.res) /\ u.res[i] = t.res[i] BY <1>7, <1>9, <3>2
      <4>2. pr_reg[q] = t.cmd.sa BY <1>1, <1>3, <2>3, <4>1 DEF Sent
      <4>3. t.res[i][1] \in PrOwn BY <1>9, <4>1
      <4>4. q \in PrOwn BY <2>3, <4>1, <4>3, SameTargetIs
      <4> QED BY <1>1, <1>2, <1>3, <1>4, <4>2, <4>4, RegisterIs
    <3> QED BY <3>1, <3>2
  <2> QED BY <2>1, <2>2, <2>3
<1>11. Released(pr_tool)'
  <2> SUFFICES ASSUME t.op = "release" PROVE Released(pr_tool)' BY <1>3 DEF Released, u
  <2>1. ReleaseTypeOK(pr_tool)' BY <1>1, <1>3 DEF Released, ReleaseTypeOK, u
  <2>2. CASE t.cmd.op = "release"
    <3>1. pr_reg' = pr_reg BY <1>1, <1>2, <1>4, <2>2, OtherIs DEF Registering
    <3>2. PeerKept(t) /\ OwnKept(t) BY <1>1, <2>2 DEF Released, Intact
    <3>3. (PeerKept(pr_tool) /\ OwnKept(pr_tool))'
      BY <1>3, <3>1, <3>2 DEF PeerKept, OwnKept, u
    <3> QED BY <1>3, <2>1, <2>2, <3>3 DEF Released, Intact, Cleared, u
  <2>3. CASE t.cmd.op # "release"
    <3>1. t.cmd.op = "register" BY <1>1, <2>3 DEF CallOK, Sends
    <3>2. pr_reg'[Peer] = pr_reg[Peer]
      BY <1>1, <1>2, <1>4, <3>1, RegisterIs DEF Registering
    <3>3. PeerBack({}, t) BY <1>1, <2>3 DEF Released
    <3>4. PeerBack({}, pr_tool)'
      BY <1>3, <3>2, <3>3 DEF PeerBack, PeerKept, PeerListed, u, KeysDiffer
    <3> QED BY <1>3, <2>1, <2>3, <3>4 DEF Released, Intact, Cleared, u
  <2> QED BY <2>2, <2>3
<1> QED BY <1>3, <1>6, <1>8, <1>10, <1>11, CallStep DEF u

\* The registration was taken by every path that got the command.
LEMMA AllRegistered ==
  ASSUME NEW t, CallOK(t), Sent(t), t.pc = "send", t.todo = {}, Registering(t.cmd),
         reg_status(t) = PrSuccess, pr_daemon.key = t.cmd.sa, NEW p \in t.view
  PROVE  pr_reg[p] = t.cmd.sa
<1>1. t.view \subseteq PrOwn /\ t.res \in Seq(PrOwn \X Results) BY DEF CallOK, CallTypeOK
<1>2. PICK n \in PrTargets(t) : n \in PrOwn /\ p \in SameTarget(n) BY <1>1, TargetsReachAll
<1>3. PICK i \in 1..Len(t.res) : t.res[i][1] = n BY DEF Sent, Answered
<1>4. t.res[i][2] = PrSuccess
  <2>1. Statuses(t) \subseteq {PrSuccess} BY DEF reg_status, PrSuccess, PrConflict
  <2>2. i \in DOMAIN t.res BY <1>1, <1>3
  <2> QED BY <2>1, <2>2 DEF Statuses
<1> QED BY <1>2, <1>3, <1>4 DEF Sent

LEMMA JoinedRegStep ==
  ASSUME PrInv, Joined_reg
  PROVE  PrInv'
<1> DEFINE t == pr_tool
           u == pr_tool'
           back == {t.res[i][1] : i \in {i \in DOMAIN t.res : t.res[i][2] = PrSuccess}}
           k == [op |-> "register", key |-> t.cmd.sa, sa |-> NoKey, tid |-> "none"]
<1>1. /\ t.pc = "send" /\ t.todo = {} /\ Registering(t.cmd)
      /\ UNCHANGED <<pr_reg, pr_file, pr_daemon>>
      /\ CallOK(t) /\ Sent(t) /\ Released(t) /\ PrTypeOK
  BY DEF Joined_reg, PrInv, Registering
<1>2. \/ u = [t EXCEPT !.pc = "rollback", !.ret = PrConflict, !.todo = back,
                       !.cmd = k]
      \/ u = [t EXCEPT !.pc = "report", !.ret = reg_status(t)]
  BY DEF Joined_reg
<1> HIDE DEF t
<1>3. PrTypeOK' BY <1>1, PrTypeEnv DEF PrTypeOK
<1>4. CASE u = [t EXCEPT !.pc = "rollback", !.ret = PrConflict, !.todo = back,
                         !.cmd = k]
  <2>1. back \subseteq PrOwn
    <3>1. t.res \in Seq(PrOwn \X Results) BY <1>1 DEF CallOK, CallTypeOK
    <3>2. ASSUME NEW i \in DOMAIN t.res PROVE t.res[i][1] \in PrOwn BY <3>1, <3>2
    <3> QED BY <3>2
  <2> HIDE DEF back, k
  <2>2. /\ u.pc = "rollback" /\ u.ret = PrConflict /\ u.todo = back
        /\ u.cmd = k
        /\ DOMAIN u = DOMAIN t /\ u.op = t.op /\ u.own = t.own /\ u.sa = t.sa /\ u.view = t.view
        /\ u.res = t.res /\ u.descr = t.descr /\ u.before = t.before
    BY <1>1, <1>4 DEF CallOK, CallTypeOK
  <2> HIDE DEF u
  <2>4. u.cmd.op = "register" /\ u.cmd.key = t.cmd.sa /\ u.cmd.sa = NoKey
        /\ u.cmd = [op |-> "register", key |-> t.cmd.sa, sa |-> NoKey, tid |-> "none"]
    BY <2>2 DEF k
  <2>5. CallOK(u) BY <1>1, <2>1, <2>2, <2>4 DEF CallOK, CallTypeOK, Registers, Registering, Known
  <2>6. Sent(pr_tool)' BY <2>2 DEF Sent, u
  <2>7. Released(pr_tool)' BY <1>1, <2>2 DEF Released, ReleaseTypeOK, Intact, Cleared, u
  <2> QED BY <1>3, <2>2, <2>5, <2>6, <2>7, CallStep DEF u
<1>5. CASE u = [t EXCEPT !.pc = "report", !.ret = reg_status(t)]
  <2>1. /\ u.pc = "report" /\ u.ret = reg_status(t)
        /\ DOMAIN u = DOMAIN t /\ u.op = t.op /\ u.own = t.own /\ u.sa = t.sa /\ u.view = t.view
        /\ u.todo = t.todo /\ u.res = t.res /\ u.cmd = t.cmd /\ u.descr = t.descr
        /\ u.before = t.before /\ u.failed = t.failed
    BY <1>1, <1>5 DEF CallOK, CallTypeOK
  <2> HIDE DEF u
  <2>2. CallOK(u) BY <1>1, <2>1 DEF CallOK, CallTypeOK, Registers
  <2>3. Sent(pr_tool)' BY <2>1 DEF Sent, u
  <2>4. Released(pr_tool)' BY <1>1, <2>1 DEF Released, ReleaseTypeOK, Intact, Cleared, u
  <2>5. RegisteredEverywhere'
    <3> SUFFICES ASSUME reg_status(t) = PrSuccess, Registers(t), pr_daemon.key = t.sa,
                        NEW p \in t.view
                 PROVE  pr_reg[p] = t.sa
      BY <1>1, <2>1 DEF RegisteredEverywhere, Registers, u
    <3>1. t.cmd.sa = t.sa BY <1>1 DEF CallOK, Sends, Registers
    <3> QED BY <1>1, <3>1, AllRegistered
  <2>6. KeysDiffer => ReleaseKeepsKeys'
    <3> SUFFICES ASSUME KeysDiffer, t.op = "release", reg_status(t) = PrSuccess, ~t.failed
                 PROVE  /\ pr_reg[Peer] = t.before[Peer]
                        /\ \A p \in t.view : pr_reg[p] = t.own
      BY <1>1, <2>1 DEF ReleaseKeepsKeys, u
    <3>1. t.cmd.op = "register" /\ t.cmd.sa = t.own
      BY <1>1 DEF CallOK, Sends, Registering
    <3>2. PeerBack({}, t) /\ t.own = pr_daemon.key BY <1>1, <3>1 DEF Released, ReleaseTypeOK
    <3>3. pr_reg[Peer] = t.before[Peer] BY <3>2 DEF PeerBack, PeerKept, PeerListed
    <3>4. ASSUME NEW p \in t.view PROVE pr_reg[p] = t.own BY <1>1, <3>1, <3>2, AllRegistered
    <3> QED BY <3>3, <3>4
  <2>7. Reported' BY <2>5, <2>6 DEF Reported, KeysDiffer
  <2> QED BY <1>3, <2>2, <2>3, <2>4, <2>7, CallStep DEF u
<1> QED BY <1>2, <1>4, <1>5

LEMMA RollbackStep ==
  ASSUME PrInv, NEW n \in PrOwn, PrRollback(n)
  PROVE  PrInv'
<1> DEFINE t == pr_tool
           u == pr_tool'
<1>1. /\ t.pc = "rollback" /\ UNCHANGED <<pr_file, pr_daemon>>
      /\ CallOK(t) /\ Released(t) /\ PrTypeOK
  BY DEF PrRollback, PrInv
<1>2. PICK a \in prout_do_scsi_ioctl(n, t.cmd) :
        /\ PrOutcome(a)
        /\ u = [t EXCEPT !.todo = @ \ {n}, !.failed = @ \/ a.status # PrSuccess]
  BY DEF PrRollback
<1> HIDE DEF t
<1>3. /\ u.pc = "rollback" /\ u.todo = t.todo \ {n} /\ u.ret = t.ret
      /\ DOMAIN u = DOMAIN t /\ u.op = t.op /\ u.own = t.own /\ u.sa = t.sa /\ u.view = t.view
      /\ u.res = t.res /\ u.cmd = t.cmd /\ u.descr = t.descr /\ u.before = t.before
  BY <1>1, <1>2 DEF CallOK, CallTypeOK
<1> HIDE DEF u
<1>4. t.cmd.sa \in Known /\ t.cmd.tid = "none" BY <1>1 DEF CallOK, CallTypeOK
<1>5. pr_reg' \in [Nexuses -> Known] /\ pr_reg'[Peer] \in {NoKey, PeerKey}
  <2>1. Registering(t.cmd) BY <1>1 DEF CallOK
  <2> QED BY <1>1, <1>2, <1>4, <2>1, RegisterIs DEF PrTypeOK
<1>6. PrTypeOK' BY <1>1, <1>5, PrTypeEnv
<1>7. CallOK(u) BY <1>1, <1>3 DEF CallOK, CallTypeOK, Registers
<1>8. Sent(pr_tool)' BY <1>3 DEF Sent, u
<1>9. Released(pr_tool)'
  BY <1>1, <1>3 DEF Released, ReleaseTypeOK, Intact, Cleared, u
<1> QED BY <1>3, <1>6, <1>7, <1>8, <1>9, CallStep DEF u

\* A call that ends without success, or that is not one the reports are about.
LEMMA EndStep ==
  ASSUME PrInv, NEW ret, pr_tool.pc # "idle",
         pr_tool' = [pr_tool EXCEPT !.pc = "report", !.ret = ret],
         UNCHANGED <<pr_reg, pr_file, pr_daemon>>,
         ret # PrSuccess \/ (~Registers(pr_tool) /\ pr_tool.op # "release")
  PROVE  PrInv'
<1> DEFINE t == pr_tool
           u == pr_tool'
<1>1. CallOK(t) /\ Released(t) /\ PrTypeOK BY DEF PrInv
<1> HIDE DEF t
<1>2. /\ u.pc = "report" /\ u.ret = ret
      /\ DOMAIN u = DOMAIN t /\ u.op = t.op /\ u.own = t.own /\ u.sa = t.sa /\ u.view = t.view
      /\ u.todo = t.todo /\ u.res = t.res /\ u.cmd = t.cmd /\ u.descr = t.descr
      /\ u.before = t.before
  BY <1>1 DEF CallOK, CallTypeOK, t
<1> HIDE DEF u
<1>3. PrTypeOK' BY <1>1, PrTypeEnv DEF PrTypeOK
<1>4. CallOK(u) BY <1>1, <1>2 DEF CallOK, CallTypeOK, Registers
<1>5. Sent(pr_tool)' BY <1>2 DEF Sent, u
<1>6. Released(pr_tool)' BY <1>1, <1>2 DEF Released, ReleaseTypeOK, Intact, Cleared, u
<1>7. Reported'
  BY <1>2 DEF Reported, RegisteredEverywhere, ReleaseKeepsKeys, Registers, t, u
<1> QED BY <1>3, <1>4, <1>5, <1>6, <1>7, CallStep DEF u

LEMMA CommonStep ==
  ASSUME PrInv, RolledBack \/ Joined_common
  PROVE  PrInv'
<1>1. CASE RolledBack
  <2>1. pr_tool.pc = "rollback" /\ pr_tool.ret = PrConflict BY <1>1 DEF RolledBack, PrInv, CallOK
  <2>2. pr_tool' = [pr_tool EXCEPT !.pc = "report", !.ret = PrConflict]
    BY <1>1, <2>1 DEF RolledBack, PrInv, CallOK, CallTypeOK
  <2> QED BY <1>1, <2>1, <2>2, EndStep DEF RolledBack, PrSuccess, PrConflict
<1>2. CASE Joined_common
  <2>1. CallOK(pr_tool) /\ pr_tool.pc = "send" /\ pr_tool.cmd.op \in {"reserve", "clear", "preempt"}
    BY <1>2 DEF Joined_common, PrInv
  <2>2. ~Registers(pr_tool) /\ pr_tool.op # "release" BY <2>1 DEF CallOK, Sends, Registers
  <2> QED BY <1>2, <2>1, <2>2, EndStep DEF Joined_common
<1> QED BY <1>1, <1>2

LEMMA JoinedRelStep ==
  ASSUME PrInv, Joined_rel
  PROVE  PrInv'
<1> DEFINE t == pr_tool
           u == pr_tool'
           all == ReadFullStatus
           others == {n \in all : t.own \notin {NoKey, pr_reg[n]}}
           keys == {[nexus |-> n, key |-> pr_reg[n]] : n \in others}
           found == t.own # NoKey /\ \E n \in all : pr_reg[n] = t.own
<1>1. /\ t.pc = "send" /\ t.cmd.op = "release" /\ UNCHANGED <<pr_reg, pr_file, pr_daemon>>
      /\ CallOK(t) /\ Released(t) /\ PrTypeOK
  BY DEF Joined_rel, PrInv
<1>2. t.op = "release" BY <1>1 DEF CallOK, Sends
<1>3. /\ ReleaseTypeOK(t) /\ PeerKept(t) /\ OwnKept(t)
  BY <1>1, <1>2 DEF Released, Intact
<1>4. \/ u = [[t EXCEPT !.ret = "other"] EXCEPT !.pc = "report"]
      \/ u = [[t EXCEPT !.ret = PrSuccess] EXCEPT !.pc = "report"]
      \/ /\ PrReadable(t)
         /\ \E pc \in {"report", "clear"} :
              u = [[t EXCEPT !.ret = PrSuccess, !.found = found, !.descr = keys] EXCEPT !.pc = pc]
  BY DEF Joined_rel, RelTo
<1> HIDE DEF t
<1>5. /\ DOMAIN u = DOMAIN t /\ u.op = t.op /\ u.own = t.own /\ u.sa = t.sa /\ u.view = t.view
      /\ u.todo = t.todo /\ u.res = t.res /\ u.cmd = t.cmd /\ u.before = t.before
      /\ u.failed = t.failed
      /\ \/ u.pc = "report" /\ u.descr = t.descr
         \/ u.pc \in {"report", "clear"} /\ u.view # {} /\ u.descr = keys /\ u.found = found
  <2> HIDE DEF keys, found
  <2>1. CASE u = [[t EXCEPT !.ret = "other"] EXCEPT !.pc = "report"]
             \/ u = [[t EXCEPT !.ret = PrSuccess] EXCEPT !.pc = "report"]
    <3>1. PICK r : u = [[t EXCEPT !.ret = r] EXCEPT !.pc = "report"] BY <2>1
    <3>2. u = [t EXCEPT !.ret = r, !.pc = "report"] BY <3>1
    <3> HIDE DEF u
    <3> QED BY <1>1, <3>2 DEF CallOK, CallTypeOK
  <2>2. ASSUME NEW pc \in {"report", "clear"}, PrReadable(t),
               u = [[t EXCEPT !.ret = PrSuccess, !.found = found, !.descr = keys] EXCEPT !.pc = pc]
        PROVE  /\ DOMAIN u = DOMAIN t /\ u.op = t.op /\ u.own = t.own /\ u.sa = t.sa
               /\ u.view = t.view /\ u.todo = t.todo /\ u.res = t.res /\ u.cmd = t.cmd
               /\ u.before = t.before /\ u.failed = t.failed
               /\ u.pc = pc /\ u.view # {} /\ u.descr = keys /\ u.found = found
    BY <1>1, <2>2 DEF CallOK, CallTypeOK, PrReadable
  <2> QED BY <1>4, <2>1, <2>2
<1> HIDE DEF u
<1>6. PrTypeOK' BY <1>1, PrTypeEnv DEF PrTypeOK
<1>7. CallOK(u) BY <1>1, <1>2, <1>5 DEF CallOK, CallTypeOK, Registers
<1>8. Sent(pr_tool)' BY <1>5 DEF Sent, u
<1>9. /\ keys \subseteq [nexus : Nexuses, key : Known]
      /\ \A d \in keys : d.nexus = Peer => d.key = t.before[Peer]
      /\ t.own # NoKey /\ KeysDiffer => t.before[Peer] = NoKey \/ PeerListed(keys, t)
      /\ t.own # NoKey => \A q \in PrOwn : t.before[q] = t.own => found
  <2>1. all = {n \in Nexuses : pr_reg[n] # NoKey} BY DEF ReadFullStatus
  <2>2. \A n \in Nexuses : pr_reg[n] \in Known BY <1>1 DEF PrTypeOK
  <2>3. pr_reg[Peer] = t.before[Peer] BY <1>3 DEF PeerKept
  <2>4. ASSUME NEW d \in keys
        PROVE  d \in [nexus : Nexuses, key : Known] /\ (d.nexus = Peer => d.key = t.before[Peer])
    <3>1. PICK n \in others : d = [nexus |-> n, key |-> pr_reg[n]] OBVIOUS
    <3> QED BY <2>1, <2>2, <2>3, <3>1
  <2>5. ASSUME t.own # NoKey, KeysDiffer, t.before[Peer] # NoKey PROVE PeerListed(keys, t)
    <3>1. t.before[Peer] = PeerKey BY <1>3, <2>5 DEF ReleaseTypeOK
    <3>2. t.own # PeerKey BY <1>1, <2>5 DEF CallOK, CallTypeOK, KeysDiffer
    <3>3. Peer \in others BY <2>1, <2>3, <2>5, <3>1, <3>2, PeerIs
    <3> QED BY <2>3, <3>3 DEF PeerListed
  <2>6. ASSUME t.own # NoKey, NEW q \in PrOwn, t.before[q] = t.own PROVE found
    <3>1. pr_reg[q] = t.own /\ q \in Nexuses BY <1>3, <2>6, PeerIs DEF OwnKept
    <3> QED BY <2>1, <2>6, <3>1
  <2> HIDE DEF keys, found
  <2> QED BY <2>4, <2>5, <2>6
<1> HIDE DEF keys, found
<1>10. (PeerKept(pr_tool) /\ OwnKept(pr_tool))'
  BY <1>1, <1>3, <1>5 DEF PeerKept, OwnKept, u
<1>11. ReleaseTypeOK(pr_tool)' BY <1>1, <1>3, <1>5, <1>9 DEF ReleaseTypeOK, u
<1>12. Released(pr_tool)'
  BY <1>5, <1>9, <1>10, <1>11 DEF Released, Intact, Cleared, PeerListed, KeysDiffer, u
<1>13. u.pc = "report" => Reported'
  <2>1. ~Registers(u) BY <1>2, <1>5 DEF Registers
  <2>2. u.view \subseteq PrOwn BY <1>7 DEF CallOK, CallTypeOK
  <2> QED BY <1>10, <2>1, <2>2
       DEF Reported, RegisteredEverywhere, ReleaseKeepsKeys, PeerKept, OwnKept, u
<1> QED BY <1>5, <1>6, <1>7, <1>8, <1>12, <1>13, CallStep DEF u

LEMMA RelClearStep ==
  ASSUME PrInv, RelClear
  PROVE  PrInv'
<1> DEFINE t == pr_tool
           u == pr_tool'
           c == [op |-> "clear", key |-> t.own, sa |-> NoKey, tid |-> "none"]
           n == FirstOf(t.view)
<1>1. /\ t.pc = "clear" /\ UNCHANGED <<pr_file, pr_daemon>>
      /\ CallOK(t) /\ Released(t) /\ PrTypeOK
  BY DEF RelClear, PrInv
<1>2. PICK a \in prout_do_scsi_ioctl(n, c) :
        /\ PrOutcome(a)
        /\ u = [t EXCEPT !.ret = a.status, !.failed = @ \/ a.status = "error",
                         !.pc = IF a.status = PrSuccess THEN "again" ELSE "report"]
  BY DEF RelClear
<1> HIDE DEF t
<1>3. t.op = "release" /\ t.view # {} /\ t.view \subseteq PrOwn BY <1>1 DEF CallOK, CallTypeOK
<1>4. n \in PrOwn BY <1>3, FirstIs
<1>5. /\ u.pc = IF a.status = PrSuccess THEN "again" ELSE "report"
      /\ u.ret = a.status
      /\ DOMAIN u = DOMAIN t /\ u.op = t.op /\ u.own = t.own /\ u.sa = t.sa /\ u.view = t.view
      /\ u.todo = t.todo /\ u.res = t.res /\ u.cmd = t.cmd /\ u.descr = t.descr
      /\ u.before = t.before /\ u.found = t.found
  BY <1>1, <1>2 DEF CallOK, CallTypeOK
<1> HIDE DEF u, n
<1>6. c.op = "clear" /\ c.key = t.own OBVIOUS
<1> HIDE DEF c
<1>7. pr_reg' \in [Nexuses -> Known] /\ pr_reg'[Peer] \in {NoKey, PeerKey}
  BY <1>1, <1>2, <1>4, <1>6, OtherIs DEF Ops, Registering
<1>8. a.status = PrSuccess => t.own # NoKey /\ pr_reg'[Peer] = NoKey
  BY <1>2, <1>4, <1>6, ClearIs, PeerIs
<1>9. PrTypeOK' BY <1>1, <1>7, PrTypeEnv
<1>10. CallOK(u) BY <1>1, <1>3, <1>5 DEF CallOK, CallTypeOK, Registers
<1>11. Sent(pr_tool)' BY <1>5 DEF Sent, u
<1>12. ReleaseTypeOK(t) /\ ReleaseTypeOK(pr_tool)'
  BY <1>1, <1>3, <1>5 DEF Released, ReleaseTypeOK, u
<1>13. CASE a.status = PrSuccess
  <2>1. u.pc = "again" /\ t.own # NoKey /\ pr_reg'[Peer] = NoKey BY <1>5, <1>8, <1>13
  <2>2. PeerBack(pr_tool.descr, pr_tool)'
    BY <1>1, <1>3, <1>5, <2>1 DEF Released, PeerBack, PeerKept, PeerListed, KeysDiffer, u
  <2>3. \A q \in PrOwn : t.before[q] = t.own => t.found BY <1>1, <1>3, <2>1 DEF Released
  <2>4. Released(pr_tool)'
    BY <1>5, <1>12, <2>1, <2>2, <2>3 DEF Released, Intact, Cleared, u
  <2> QED BY <1>9, <1>10, <1>11, <2>1, <2>4, CallStep DEF u
<1>14. CASE a.status # PrSuccess
  <2>1. u.pc = "report" /\ u.ret # PrSuccess BY <1>5, <1>14
  <2>2. Released(pr_tool)' BY <1>12, <2>1 DEF Released, Intact, Cleared, u
  <2>3. Reported' BY <2>1 DEF Reported, RegisteredEverywhere, ReleaseKeepsKeys, u
  <2> QED BY <1>9, <1>10, <1>11, <2>1, <2>2, <2>3, CallStep DEF u
<1> QED BY <1>13, <1>14

\* A registration is made again: by its TransportID, then without the path that
\* got it as well.
LEMMA RelAgainStep ==
  ASSUME PrInv, NEW first \in BOOLEAN, RelAgain(first)
  PROVE  PrInv'
<1> DEFINE t == pr_tool
           u == pr_tool'
           d == NextOf(t.descr)
           n == FirstOf(t.view)
           c1 == [op |-> "register", key |-> NoKey, sa |-> d.key, tid |-> d.nexus]
           c2 == [op |-> "register", key |-> d.key, sa |-> NoKey, tid |-> "none"]
           left == t.descr \ {d}
<1>1. /\ t.pc \in {"again", "again2"} /\ t.descr # {} /\ UNCHANGED <<pr_file, pr_daemon>>
      /\ t.pc = (IF first THEN "again" ELSE "again2")
      /\ CallOK(t) /\ Released(t) /\ PrTypeOK
  BY DEF RelAgain, PrInv
<1>2. PICK a \in prout_do_scsi_ioctl(n, IF first THEN c1 ELSE c2) :
        /\ PrOutcome(a)
        /\ u = [t EXCEPT !.ret = a.status, !.failed = @ \/ a.status # PrSuccess,
                         !.pc = IF first THEN "again2" ELSE "again",
                         !.descr = IF first THEN @ ELSE left]
  BY DEF RelAgain, NextOf
<1> HIDE DEF t
<1>3. t.op = "release" /\ t.view # {} /\ t.view \subseteq PrOwn BY <1>1 DEF CallOK, CallTypeOK
<1>4. n \in PrOwn BY <1>3, FirstIs
<1> HIDE DEF n
<1>5. d \in t.descr BY <1>1 DEF NextOf
<1> HIDE DEF d
<1>6. ReleaseTypeOK(t) /\ t.own # NoKey BY <1>1, <1>3 DEF Released, Cleared
<1>7. d.nexus \in Nexuses /\ d.key \in Known /\ (d.nexus = Peer => d.key = t.before[Peer])
  BY <1>5, <1>6 DEF ReleaseTypeOK
<1> HIDE DEF left
<1>8. /\ u.pc = (IF first THEN "again2" ELSE "again")
      /\ u.failed = (t.failed \/ a.status # PrSuccess)
      /\ u.descr = (IF first THEN t.descr ELSE left)
      /\ DOMAIN u = DOMAIN t /\ u.op = t.op /\ u.own = t.own /\ u.sa = t.sa /\ u.view = t.view
      /\ u.todo = t.todo /\ u.res = t.res /\ u.cmd = t.cmd
      /\ u.before = t.before /\ u.found = t.found
  BY <1>1, <1>2 DEF CallOK, CallTypeOK
<1> HIDE DEF u
<1>9. CallOK(u) BY <1>1, <1>3, <1>8 DEF CallOK, CallTypeOK, Registers
<1>10. Sent(pr_tool)' BY <1>8 DEF Sent, u
<1>11. ReleaseTypeOK(pr_tool)'
  BY <1>1, <1>6, <1>8 DEF ReleaseTypeOK, u, left
<1>12. CASE first
  <2>1. c1.op = "register" /\ c1.sa = d.key /\ c1.tid = d.nexus OBVIOUS
  <2>2. d.nexus # "none" BY <1>7, PrConstants DEF Nexuses, PrOwn
  <2> HIDE DEF c1, c2
  <2>3. /\ pr_reg' \in [Nexuses -> Known]
        /\ d.nexus # Peer => pr_reg'[Peer] = pr_reg[Peer]
        /\ d.nexus = Peer => pr_reg'[Peer] \in {pr_reg[Peer], d.key}
        /\ d.nexus = Peer /\ a.status = PrSuccess => pr_reg'[Peer] = d.key
    BY <1>1, <1>2, <1>4, <1>7, <1>12, <2>1, <2>2, RegisterTidIs
  <2>4. PrTypeOK'
    <3>1. pr_reg'[Peer] \in {NoKey, PeerKey}
      BY <1>1, <1>6, <1>7, <2>3 DEF PrTypeOK, ReleaseTypeOK
    <3> QED BY <1>1, <2>3, <3>1, PrTypeEnv
  <2>5. PeerBack(t.descr, t) BY <1>1, <1>3, <1>12 DEF Released
  <2>6. ASSUME KeysDiffer
        PROVE  \/ u.failed \/ pr_reg'[Peer] = u.before[Peer]
               \/ [nexus |-> Peer, key |-> u.before[Peer]] \in left
    <3>1. CASE t.failed BY <1>8, <3>1
    <3>2. CASE d.nexus = Peer BY <1>7, <1>8, <2>3, <3>2
    <3>3. CASE d.nexus # Peer /\ PeerKept(t) BY <1>8, <2>3, <3>3 DEF PeerKept
    <3>4. CASE d.nexus # Peer /\ PeerListed(t.descr, t) BY <1>8, <3>4 DEF PeerListed, left
    <3> QED BY <2>5, <2>6, <3>1, <3>2, <3>3, <3>4 DEF PeerBack
  <2>7. u.descr # {} /\ left = u.descr \ {NextOf(u.descr)} BY <1>1, <1>8, <1>12 DEF left, d
  <2>8. PeerBack(pr_tool.descr \ {NextOf(pr_tool.descr)}, pr_tool)'
    BY <2>6, <2>7 DEF PeerBack, PeerKept, PeerListed, KeysDiffer, NextOf, u
  <2>9. u.pc = "again2" BY <1>8, <1>12
  <2>10. Released(pr_tool)'
    BY <1>1, <1>3, <1>6, <1>8, <1>11, <2>7, <2>8, <2>9 DEF Released, Intact, Cleared, u
  <2> QED BY <1>9, <1>10, <2>4, <2>9, <2>10, CallStep DEF u
<1>13. CASE ~first
  <2>1. Registering(c2) /\ c2.sa = NoKey /\ c2.tid = "none" BY DEF Registering
  <2>2. NoKey \in Known BY DEF Known
  <2> HIDE DEF c1, c2
  <2>3. pr_reg' \in [Nexuses -> Known] /\ pr_reg'[Peer] = pr_reg[Peer]
    BY <1>1, <1>2, <1>4, <1>13, <2>1, <2>2, RegisterIs
  <2>4. PrTypeOK' BY <1>1, <2>3, PrTypeEnv DEF PrTypeOK
  <2>5. PeerBack(left, t) BY <1>1, <1>3, <1>13 DEF Released, left, d
  <2>6. PeerBack(pr_tool.descr, pr_tool)'
    <3>1. u.descr = left BY <1>8, <1>13
    <3>2. ASSUME KeysDiffer
          PROVE  \/ u.failed \/ pr_reg'[Peer] = u.before[Peer]
                 \/ [nexus |-> Peer, key |-> u.before[Peer]] \in u.descr
      <4>1. CASE t.failed BY <1>8, <4>1
      <4>2. CASE PeerKept(t) BY <1>8, <2>3, <4>2 DEF PeerKept
      <4>3. CASE PeerListed(left, t) BY <1>8, <3>1, <4>3 DEF PeerListed
      <4> QED BY <2>5, <3>2, <4>1, <4>2, <4>3 DEF PeerBack
    <3> QED BY <3>2 DEF PeerBack, PeerKept, PeerListed, KeysDiffer, u
  <2>7. u.pc = "again" BY <1>8, <1>13
  <2>8. Released(pr_tool)'
    BY <1>1, <1>3, <1>6, <1>8, <1>11, <2>6, <2>7 DEF Released, Intact, Cleared, u
  <2> QED BY <1>9, <1>10, <2>4, <2>7, <2>8, CallStep DEF u
<1> QED BY <1>12, <1>13

LEMMA RelEndStep ==
  ASSUME PrInv, RelEnd
  PROVE  PrInv'
<1> DEFINE t == pr_tool
           u == pr_tool'
           c == [op |-> "register", key |-> NoKey, sa |-> t.own, tid |-> "none"]
<1>1. /\ t.pc = "again" /\ t.descr = {} /\ UNCHANGED <<pr_reg, pr_file, pr_daemon>>
      /\ CallOK(t) /\ Released(t) /\ PrTypeOK
  BY DEF RelEnd, PrInv
<1>2. u = IF ~t.found THEN [t EXCEPT !.pc = "report"]
          ELSE [t EXCEPT !.pc = "send", !.todo = PrTargets(t), !.res = <<>>, !.cmd = c]
  BY DEF RelEnd
<1> HIDE DEF t
<1>3. t.op = "release" /\ t.own # NoKey /\ ReleaseTypeOK(t) /\ PeerBack({}, t)
  BY <1>1 DEF CallOK, Released, Cleared
<1>4. /\ t.own \in Known /\ c.op = "register" /\ c.sa = t.own
      /\ c = [op |-> c.op, key |-> c.key, sa |-> c.sa, tid |-> "none"]
  BY <1>1 DEF CallOK, CallTypeOK, Known
<1> HIDE DEF c
<1>5. PrTypeOK' BY <1>1, PrTypeEnv DEF PrTypeOK
<1>6. /\ DOMAIN u = DOMAIN t /\ u.op = t.op /\ u.own = t.own /\ u.sa = t.sa /\ u.view = t.view
      /\ u.descr = t.descr /\ u.before = t.before /\ u.found = t.found /\ u.failed = t.failed
      /\ t.found => u.pc = "send" /\ u.todo = PrTargets(t) /\ u.res = <<>> /\ u.cmd = c
      /\ ~t.found => u.pc = "report" /\ u.todo = t.todo /\ u.res = t.res /\ u.cmd = t.cmd
  BY <1>1, <1>2 DEF CallOK, CallTypeOK
<1> HIDE DEF u
<1>7. ReleaseTypeOK(pr_tool)' BY <1>1, <1>3, <1>6 DEF ReleaseTypeOK, u
<1>8. PeerBack({}, pr_tool)' BY <1>1, <1>3, <1>6 DEF PeerBack, PeerKept, PeerListed, KeysDiffer, u
<1>9. CASE t.found
  <2>1. u.pc = "send" /\ u.todo = PrTargets(t) /\ u.res = <<>> /\ u.cmd = c BY <1>6, <1>9
  <2>2. PrTargets(t) \subseteq PrOwn BY <1>1 DEF CallOK, CallTypeOK, PrTargets
  <2>3. CallOK(u)
    BY <1>1, <1>3, <1>4, <1>6, <1>9, <2>1, <2>2 DEF CallOK, CallTypeOK, Registers, Sends
  <2>4. PrTargets(u) = PrTargets(t) BY <1>6 DEF PrTargets
  <2>5. Sent(pr_tool)' BY <2>1, <2>4 DEF Sent, u
  <2>6. Released(pr_tool)' BY <1>4, <1>7, <1>8, <2>1 DEF Released, Intact, Cleared, u
  <2> QED BY <1>5, <2>1, <2>3, <2>5, <2>6, CallStep DEF u
<1>10. CASE ~t.found
  <2>1. u.pc = "report" /\ u.todo = t.todo /\ u.res = t.res /\ u.cmd = t.cmd BY <1>6, <1>10
  <2>2. CallOK(u) BY <1>1, <1>3, <1>6, <2>1 DEF CallOK, CallTypeOK, Registers
  <2>3. Sent(pr_tool)' BY <2>1 DEF Sent, u
  <2>4. Released(pr_tool)' BY <1>7, <2>1 DEF Released, Intact, Cleared, u
  <2>5. \A q \in PrOwn : t.before[q] # t.own BY <1>1, <1>3, <1>10 DEF Released, Cleared
  <2>6. u.view \subseteq PrOwn BY <2>2 DEF CallOK, CallTypeOK
  <2>7. Reported'
    BY <1>3, <1>6, <1>8, <2>5, <2>6
    DEF Reported, RegisteredEverywhere, ReleaseKeepsKeys, Registers, PeerBack, PeerKept,
        PeerListed, u
  <2> QED BY <1>5, <2>1, <2>2, <2>3, <2>4, <2>7, CallStep DEF u
<1> QED BY <1>9, <1>10

LEMMA PrReportStep ==
  ASSUME PrInv, PrReport
  PROVE  PrInv'
<1>1. pr_tool'.pc = "idle" /\ UNCHANGED pr_reg BY DEF PrReport, PrIdle
<1>2. \/ pr_file' = NoKey /\ pr_daemon' = [key |-> SelectedKey(NoKey), flag |-> FALSE]
      \/ /\ UNCHANGED pr_file
         /\ pr_daemon' = pr_daemon \/ pr_daemon' = [pr_daemon EXCEPT !.flag = TRUE]
  BY DEF PrReport
<1>3. PrTypeOK BY DEF PrInv
<1>4. PrTypeOK'
  <2>1. CASE pr_file' = NoKey /\ pr_daemon' = [key |-> SelectedKey(NoKey), flag |-> FALSE]
    BY <1>1, <1>3, <2>1 DEF PrTypeOK, SelectedKey
  <2>2. CASE /\ UNCHANGED pr_file
             /\ pr_daemon' = pr_daemon \/ pr_daemon' = [pr_daemon EXCEPT !.flag = TRUE]
    <3>1. pr_daemon' = [key |-> SelectedKey(pr_file), flag |-> pr_daemon'.flag]
      BY <1>3, <2>2 DEF PrTypeOK
    <3> QED BY <1>1, <1>3, <2>2, <3>1 DEF PrTypeOK, SelectedKey
  <2> QED BY <1>2, <2>1, <2>2
<1>5. Reported' BY <1>1 DEF Reported, RegisteredEverywhere, ReleaseKeepsKeys
<1> QED BY <1>1, <1>4, <1>5 DEF PrInv

LEMMA PrInvariant == PrSpec => []PrInv
<1>1. PrInit => PrInv BY PrInitInv
<1>2. PrInv /\ [PrNext]_pr_vars => PrInv'
  <2> SUFFICES ASSUME PrInv, [PrNext]_pr_vars PROVE PrInv' OBVIOUS
  <2>1. ASSUME NEW op \in Ops, NEW k \in PrKeys \cup {NoKey}, NEW s \in PrKeys \cup {NoKey, PeerKey},
               op \in {"register", "register_ignore"} => s \in PrKeys \cup {NoKey},
               PrCall(op, k, s)
        PROVE  PrInv'
    BY <2>1, PrCallStep DEF Known
  <2>2. ASSUME NEW k \in PrKeys \cup {NoKey}, NEW s \in PrKeys \cup {NoKey},
               \/ PrCall("register", k, s) \/ PrCall("register_ignore", NoKey, s)
               \/ PrCall("reserve", k, NoKey) \/ PrCall("release", k, NoKey)
               \/ PrCall("clear", k, NoKey) \/ PrCall("preempt", k, PeerKey)
        PROVE  PrInv'
    BY <2>1, <2>2 DEF Ops
  <2>3. CASE CheckKey BY <2>3, CheckKeyStep
  <2>4. CASE Joined_reg BY <2>4, JoinedRegStep
  <2>5. CASE RolledBack \/ Joined_common BY <2>5, CommonStep
  <2>6. CASE Joined_rel BY <2>6, JoinedRelStep
  <2>7. CASE RelClear BY <2>7, RelClearStep
  <2>8. CASE RelAgain(TRUE) \/ RelAgain(FALSE) BY <2>8, RelAgainStep
  <2>9. CASE RelEnd BY <2>9, RelEndStep
  <2>10. CASE PrReport BY <2>10, PrReportStep
  <2>11. ASSUME NEW n \in PrOwn, PrSend(n) \/ PrRollback(n) PROVE PrInv'
    BY <2>11, SendStep, RollbackStep
  <2>12. ASSUME NEW n \in PrOwn, PrPathDown(n) \/ \E added \in BOOLEAN : PrPathUp(n, added)
         PROVE  PrInv'
    BY <2>12, PrPathStep
  <2>13. CASE DaemonRestart BY <2>13, RestartStep
  <2>14. CASE UNCHANGED pr_vars
    <3>1. PrTypeOK' BY <2>14 DEF PrInv, PrTypeOK, pr_vars
    <3> QED BY <2>14, <3>1, BesideStep DEF pr_vars
  <2> QED BY <2>2, <2>3, <2>4, <2>5, <2>6, <2>7, <2>8, <2>9, <2>10, <2>11, <2>12, <2>13, <2>14
       DEF PrNext
<1> QED BY <1>1, <1>2, PTL DEF PrSpec

(***************************************************************************)
(* Whatever the paths, the hosts and the keys are: a registration that     *)
(* mpathpersist reports as done holds on all paths that it found usable    *)
(* (mpath_prout_reg() with its rollback), while paths come and go, commands*)
(* fail or conflict and the daemon registers paths of its own accord.      *)
(***************************************************************************)
THEOREM RegisteredEverywhereTheorem == PrSpec => []RegisteredEverywhere
<1>1. PrInv => RegisteredEverywhere BY DEF PrInv, Reported
<1> QED BY <1>1, PrInvariant, PTL

(***************************************************************************)
(* If the other host uses a key of its own, a release that reports success *)
(* has brought back what its CLEAR removed as well (mpath_prout_rel()).    *)
(* With a shared key a release skips the other host, as it does the paths  *)
(* of the map, and registers only the paths again.                         *)
(***************************************************************************)
THEOREM ReportsTrueTheorem == ASSUME KeysDiffer PROVE PrSpec => []ReportsTrue
<1>1. PrInv => ReportsTrue BY DEF PrInv, Reported, ReportsTrue
<1> QED BY <1>1, PrInvariant, PTL

USE SampleTimeAssumption
USE DEF IN_CHECKING, WAITING_TO_CHECK, FLAKY_PATHFAIL_THRESHOLD, Never

(***************************************************************************)
(* IoErrStat: the inductive invariant                                      *)
(***************************************************************************)
PathRecord == [state : {"up", "down", "delayed", "gone"}, cnt : Int, disable : BOOLEAN,
               start : Int, dis : Int]

IoTypeOK ==
  /\ ie_now \in Nat
  /\ ie_path \in [IoPaths -> PathRecord]
  /\ ie_queue \in Seq(IoPaths)
  /\ ie_chk \in [pc : {"idle", "lookup", "setup", "append"}, p : IoPaths \cup {"none"}]
  /\ ie_chk.pc # "idle" => ie_chk.p \in IoPaths
  /\ ie_thr \in [pc : {"off", "idle", "loop", "evaluate", "stopped"}, i : Nat]

\* The checker keeps vecs->lock while it enqueues a path, the thread keeps
\* paths->mutex while it services them.
LocksHeld ==
  /\ ie_chk.pc # "idle" => ie_vecs = "checker" /\ ie_path[ie_chk.p].disable
  /\ ie_thr.pc \in {"loop", "evaluate"} => ie_mutex = "thread" /\ ie_thr.i >= 1

\* The thread evaluates a path of the queue.
Evaluable == ie_thr.pc = "evaluate" => ie_thr.i \in 1..Len(ie_queue)

\* A path that was removed is not on probation, although it may be queued.
RemovedUnchecked == \A p \in IoPaths : ie_path[p].cnt = IN_CHECKING => ie_path[p].state # "gone"

IoInv == IoTypeOK /\ LocksHeld /\ Evaluable /\ CheckedIsQueued /\ RemovedUnchecked
-----------------------------------------------------------------------------
\* The thread has not been started.
LEMMA IoInitInv == IoInit => IoInv
<1> SUFFICES ASSUME IoInit PROVE IoInv
  OBVIOUS
<1> USE DEF IoInit, NoCheck, NewPath
<1>1. IoTypeOK
  <2>1. NewPath \in PathRecord BY DEF PathRecord
  <2> QED BY <2>1 DEF IoTypeOK
<1>2. LocksHeld /\ Evaluable BY DEF LocksHeld, Evaluable
<1>3. CheckedIsQueued /\ RemovedUnchecked BY DEF CheckedIsQueued, RemovedUnchecked
<1> QED BY <1>1, <1>2, <1>3 DEF IoInv

(***************************************************************************)
(* What the steps do to the clock, a path and the queue                    *)
(***************************************************************************)
\* The clock in seconds.
LEMMA SecondsAre == ASSUME IoTypeOK PROVE tv_sec(ie_now) \in Int
<1>1. ie_now \in Int /\ Second \in Int /\ Second > 0 BY SampleTimeAssumption DEF IoTypeOK
<1> QED BY <1>1 DEF tv_sec

\* A path that is recovered, or new, or loses its state is not sampled.
LEMMA PathTypes ==
  ASSUME NEW r \in PathRecord
  PROVE  /\ Recovered(r) \in PathRecord /\ Recovered(r).cnt = 0
         /\ \A s \in {"up", "down", "delayed"} :
              LET t == [r EXCEPT !.state = s] IN
              t \in PathRecord /\ t.cnt = r.cnt /\ t.disable = r.disable /\ t.state = s
         /\ NewPath \in PathRecord /\ NewPath.cnt = 0
         /\ [NewPath EXCEPT !.state = "gone"] \in PathRecord
         /\ [NewPath EXCEPT !.state = "gone"].cnt = 0
<1>1. Recovered(r) \in PathRecord /\ Recovered(r).cnt = 0
  <2> DEFINE a == [r EXCEPT !.cnt = 0]
             b == [a EXCEPT !.disable = FALSE]
             c == [b EXCEPT !.start = Never]
             d == [c EXCEPT !.dis = Never]
  <2>1. a \in PathRecord /\ a.cnt = 0 BY DEF PathRecord
  <2> HIDE DEF a
  <2>2. b \in PathRecord /\ b.cnt = 0 BY <2>1 DEF PathRecord
  <2> HIDE DEF b
  <2>3. c \in PathRecord /\ c.cnt = 0 BY <2>2 DEF PathRecord
  <2> HIDE DEF c
  <2>4. d \in PathRecord /\ d.cnt = 0 BY <2>3 DEF PathRecord
  <2>5. Recovered(r) = d BY DEF Recovered, a, b, c
  <2> HIDE DEF d
  <2> QED BY <2>4, <2>5
<1>2. ASSUME NEW s \in {"up", "down", "delayed"}
      PROVE  LET t == [r EXCEPT !.state = s] IN
             t \in PathRecord /\ t.cnt = r.cnt /\ t.disable = r.disable /\ t.state = s
  BY DEF PathRecord
<1>3. NewPath \in PathRecord /\ NewPath.cnt = 0
  BY DEF NewPath, PathRecord
<1>4. /\ [NewPath EXCEPT !.state = "gone"] \in PathRecord
      /\ [NewPath EXCEPT !.state = "gone"].cnt = 0
  BY <1>3 DEF PathRecord
<1> QED BY <1>1, <1>2, <1>3, <1>4

\* Deleting one element of a sequence keeps the others.
LEMMA RemoveIs ==
  ASSUME NEW S, NEW s \in Seq(S), NEW i \in 1..Len(s)
  PROVE  /\ RemoveAt(s, i) \in Seq(S)
         /\ \A j \in 1..Len(s) : j # i =>
              \E k \in 1..Len(RemoveAt(s, i)) : RemoveAt(s, i)[k] = s[j]
<1> DEFINE a == SubSeq(s, 1, i - 1)
           b == SubSeq(s, i + 1, Len(s))
<1>1. /\ a \in Seq(S) /\ Len(a) = i - 1
      /\ \A j \in 1..(i - 1) : a[j] = s[j]
  OBVIOUS
<1>2. /\ b \in Seq(S) /\ Len(b) = Len(s) - i
      /\ \A j \in 1..(Len(s) - i) : b[j] = s[i + j]
  OBVIOUS
<1>3. RemoveAt(s, i) = a \o b BY DEF RemoveAt
<1> HIDE DEF a, b
<1>4. /\ a \o b \in Seq(S) /\ Len(a \o b) = Len(s) - 1
      /\ \A j \in 1..(Len(s) - 1) : (a \o b)[j] = IF j <= i - 1 THEN a[j] ELSE b[j - (i - 1)]
  <2>1. Len(s) \in Nat /\ i \in Int OBVIOUS
  <2>2. /\ a \o b \in Seq(S) /\ Len(a \o b) = Len(a) + Len(b)
        /\ \A j \in 1..(Len(a) + Len(b)) : (a \o b)[j] = IF j <= Len(a) THEN a[j] ELSE b[j - Len(a)]
    BY <1>1, <1>2, ConcatProperties, Zenon
  <2>3. Len(a) + Len(b) = Len(s) - 1 BY <1>1, <1>2, <2>1
  <2> QED BY <1>1, <2>2, <2>3, Zenon
<1>5. ASSUME NEW j \in 1..Len(s), j # i
      PROVE  \E k \in 1..(Len(s) - 1) : (a \o b)[k] = s[j]
  <2>1. CASE j < i
    <3>1. j \in 1..(i - 1) /\ j \in 1..(Len(s) - 1) /\ j <= i - 1 BY <2>1
    <3>2. (a \o b)[j] = s[j] BY <1>1, <1>4, <3>1
    <3> QED BY <3>1, <3>2
  <2>2. CASE j > i
    <3>1. /\ j - 1 \in 1..(Len(s) - 1) /\ ~(j - 1 <= i - 1) /\ (j - 1) - (i - 1) = j - i
          /\ j - i \in 1..(Len(s) - i) /\ i + (j - i) = j
      BY <2>2
    <3>2. (a \o b)[j - 1] = b[j - i] BY <1>4, <3>1
    <3>3. b[j - i] = s[j] BY <1>2, <3>1
    <3> QED BY <3>1, <3>2, <3>3
  <2>3. j \in Int /\ i \in Int OBVIOUS
  <2>4. j < i \/ j > i BY <1>5, <2>3
  <2> QED BY <2>1, <2>2, <2>4, Zenon
<1> QED BY <1>3, <1>4, <1>5

(***************************************************************************)
(* The steps                                                               *)
(***************************************************************************)
\* vecs->lock is held and a path changes, which is not put on probation.
PathsChanged ==
  /\ ie_vecs = "free" /\ ie_vecs' = ie_vecs /\ ie_chk' = ie_chk
  /\ UNCHANGED <<ie_now, ie_queue, ie_entry, ie_mutex, ie_thr>>
  /\ ie_path' \in [IoPaths -> PathRecord]
  /\ \A p \in IoPaths : ie_path'[p].cnt = IN_CHECKING =>
       /\ ie_path[p].cnt = IN_CHECKING /\ ie_path'[p].disable = ie_path[p].disable
       /\ ie_path'[p].state # "gone"

\* Such a step keeps the invariant.
LEMMA PathsChangedKeeps == ASSUME IoInv, PathsChanged PROVE IoInv'
<1> USE DEF PathsChanged
<1>1. IoTypeOK' BY DEF IoInv, IoTypeOK, LocksHeld
<1>2. LocksHeld' BY DEF IoInv, IoTypeOK, LocksHeld
<1>3. Evaluable' BY DEF IoInv, Evaluable
<1>4. CheckedIsQueued'
  <2>1. \A p : find_err_path_by_dev(p)' <=> find_err_path_by_dev(p) BY DEF find_err_path_by_dev
  <2> QED BY <2>1 DEF IoInv, CheckedIsQueued
<1>5. RemovedUnchecked' BY DEF RemovedUnchecked
<1> QED BY <1>1, <1>2, <1>3, <1>4, <1>5 DEF IoInv

\* The same for one path.
LEMMA OnePath ==
  ASSUME IoInv, NEW p \in IoPaths, NEW x \in PathRecord, ie_vecs = "free",
         UNCHANGED <<ie_now, ie_queue, ie_entry, ie_vecs, ie_mutex, ie_chk, ie_thr>>,
         ie_path' = [ie_path EXCEPT ![p] = x],
         \/ x.cnt # IN_CHECKING
         \/ /\ x.cnt = ie_path[p].cnt /\ x.disable = ie_path[p].disable
            /\ x.state # "gone"
  PROVE  IoInv'
<1>1. \A q \in IoPaths : ie_path[q].cnt = IN_CHECKING => ie_path[q].state # "gone"
  BY DEF IoInv, RemovedUnchecked
<1>2. PathsChanged BY <1>1 DEF PathsChanged, IoInv, IoTypeOK
<1> QED BY <1>2, PathsChangedKeeps

\* A failure is counted, and the second one in a short time fails the path.
LEMMA PathfailStep ==
  ASSUME IoInv, NEW p \in IoPaths, io_err_stat_handle_pathfail(p) PROVE IoInv'
<1> DEFINE r == ie_path[p]
           old == r.cnt > 0 /\ tv_sec(ie_now) - r.start > DoubleFailedTime
           n == IF old THEN 1 ELSE r.cnt + 1
           z == IF n = 1 THEN tv_sec(ie_now) ELSE r.start
           a == [r EXCEPT !.cnt = n]
           counted == [a EXCEPT !.start = z]
           b == [counted EXCEPT !.cnt = WAITING_TO_CHECK]
           c == [b EXCEPT !.disable = TRUE]
           d == [c EXCEPT !.start = Never]
           e == [d EXCEPT !.dis = Never]
           f == [e EXCEPT !.state = "down"]
<1>1. r \in PathRecord /\ tv_sec(ie_now) \in Int BY SecondsAre DEF IoInv, IoTypeOK
<1>2. n \in Nat \ {0}
  BY <1>1 DEF io_err_stat_handle_pathfail, PathRecord
<1>3. ie_path' = [ie_path EXCEPT ![p] = IF n < FLAKY_PATHFAIL_THRESHOLD THEN counted ELSE f]
  BY DEF io_err_stat_handle_pathfail
<1>4. z \in Int BY <1>1 DEF PathRecord
<1> HIDE DEF r, n, z
<1>5. a \in PathRecord /\ a.cnt = n BY <1>1, <1>2 DEF PathRecord
<1> HIDE DEF a
<1>6. counted \in PathRecord /\ counted.cnt = n BY <1>4, <1>5 DEF PathRecord
<1> HIDE DEF counted
<1>7. b \in PathRecord /\ b.cnt = WAITING_TO_CHECK BY <1>6 DEF PathRecord
<1> HIDE DEF b
<1>8. c \in PathRecord /\ c.cnt = WAITING_TO_CHECK BY <1>7 DEF PathRecord
<1> HIDE DEF c
<1>9. d \in PathRecord /\ d.cnt = WAITING_TO_CHECK BY <1>8 DEF PathRecord
<1> HIDE DEF d
<1>10. e \in PathRecord /\ e.cnt = WAITING_TO_CHECK BY <1>9 DEF PathRecord
<1> HIDE DEF e
<1>11. f \in PathRecord /\ f.cnt = WAITING_TO_CHECK BY <1>10 DEF PathRecord
<1> HIDE DEF f
<1>12. /\ ie_vecs = "free"
       /\ UNCHANGED <<ie_now, ie_queue, ie_entry, ie_vecs, ie_mutex, ie_chk, ie_thr>>
  BY DEF io_err_stat_handle_pathfail
<1>13. CASE n < FLAKY_PATHFAIL_THRESHOLD
  <2>1. ie_path' = [ie_path EXCEPT ![p] = counted] BY <1>3, <1>13
  <2>2. counted.cnt # IN_CHECKING BY <1>2, <1>6
  <2> QED BY <1>6, <1>12, <2>1, <2>2, OnePath
<1>14. CASE ~(n < FLAKY_PATHFAIL_THRESHOLD)
  <2>1. ie_path' = [ie_path EXCEPT ![p] = f] BY <1>3, <1>14
  <2>2. f.cnt # IN_CHECKING BY <1>11
  <2> QED BY <1>11, <1>12, <2>1, <2>2, OnePath
<1> QED BY <1>13, <1>14

\* A path that answers is reinstated, stays delayed or is to be enqueued.
LEMMA CheckUpStep == ASSUME IoInv, NEW p \in IoPaths, CheckUp(p) PROVE IoInv'
<1> DEFINE r == ie_path[p]
           keep == r.disable /\ IoRunning /\ count_active_paths
           due == r.cnt = WAITING_TO_CHECK /\ tv_sec(ie_now) - r.dis > GapTime
<1>1. r \in PathRecord BY DEF IoInv, IoTypeOK
<1>2. ie_vecs = "free" /\ UNCHANGED <<ie_now, ie_queue, ie_entry, ie_mutex, ie_thr>>
  BY DEF CheckUp
<1>3. CASE ~keep /\ UNCHANGED <<ie_vecs, ie_chk>> /\ ie_path' = [ie_path EXCEPT ![p] =
             [(IF r.disable /\ IoRunning THEN Recovered(r) ELSE r) EXCEPT !.state = "up"]]
  <2> DEFINE q == IF r.disable /\ IoRunning THEN Recovered(r) ELSE r
             x == [q EXCEPT !.state = "up"]
  <2>1. /\ q \in PathRecord
        /\ q.cnt = IN_CHECKING => r.cnt = IN_CHECKING /\ q.disable = r.disable
    <3> HIDE DEF r
    <3>1. Recovered(r) \in PathRecord /\ Recovered(r).cnt = 0 BY <1>1, PathTypes
    <3>2. CASE r.disable /\ IoRunning
      <4>1. q = Recovered(r) BY <3>2
      <4> HIDE DEF q
      <4> QED BY <3>1, <4>1
    <3>3. CASE ~(r.disable /\ IoRunning) BY <1>1, <3>3
    <3> QED BY <3>2, <3>3
  <2> HIDE DEF q
  <2>2. x \in PathRecord /\ x.cnt = q.cnt /\ x.disable = q.disable /\ x.state = "up"
    BY <2>1, PathTypes
  <2>3. ie_path' = [ie_path EXCEPT ![p] = x] BY <1>3 DEF q
  <2> HIDE DEF x
  <2>4. \/ x.cnt # IN_CHECKING
        \/ x.cnt = ie_path[p].cnt /\ x.disable = ie_path[p].disable /\ x.state # "gone"
    BY <2>1, <2>2
  <2> QED BY <1>2, <1>3, <2>2, <2>3, <2>4, OnePath
<1>4. CASE ie_path' = [ie_path EXCEPT ![p].state = "delayed"] /\ UNCHANGED <<ie_vecs, ie_chk>>
  <2> DEFINE x == [r EXCEPT !.state = "delayed"]
  <2>1. x \in PathRecord /\ x.cnt = r.cnt /\ x.disable = r.disable /\ x.state # "gone"
    BY <1>1, PathTypes
  <2>2. ie_path' = [ie_path EXCEPT ![p] = x] BY <1>4
  <2> HIDE DEF x
  <2> QED BY <1>2, <1>4, <2>1, <2>2, OnePath
<1>5. CASE /\ keep /\ due /\ ie_vecs' = "checker" /\ ie_path' = ie_path
           /\ ie_chk' = [pc |-> "lookup", p |-> p]
  <2>1. IoTypeOK' BY <1>2, <1>5 DEF IoInv, IoTypeOK
  <2>2. LocksHeld' BY <1>2, <1>5 DEF IoInv, LocksHeld
  <2>3. Evaluable' /\ CheckedIsQueued' /\ RemovedUnchecked'
    BY <1>2, <1>5 DEF IoInv, Evaluable, CheckedIsQueued, find_err_path_by_dev, RemovedUnchecked
  <2> QED BY <2>1, <2>2, <2>3 DEF IoInv
<1> QED BY <1>3, <1>4, <1>5 DEF CheckUp

\* A path fails, goes or comes.
LEMMA PathStep ==
  ASSUME IoInv, NEW p \in IoPaths, CheckDown(p) \/ RemovePath(p) \/ AddPath(p) PROVE IoInv'
<1>1. ie_path[p] \in PathRecord BY DEF IoInv, IoTypeOK
<1>2. /\ ie_vecs = "free"
      /\ UNCHANGED <<ie_now, ie_queue, ie_entry, ie_vecs, ie_mutex, ie_chk, ie_thr>>
  BY DEF CheckDown, RemovePath, AddPath
<1>3. CASE CheckDown(p)
  <2> DEFINE x == [ie_path[p] EXCEPT !.state = "down"]
  <2>1. ie_path' = [ie_path EXCEPT ![p] = x] BY <1>3 DEF CheckDown
  <2>2. x \in PathRecord /\ x.cnt = ie_path[p].cnt /\ x.disable = ie_path[p].disable
        /\ x.state # "gone"
    BY <1>1, PathTypes
  <2> HIDE DEF x
  <2> QED BY <1>2, <2>1, <2>2, OnePath
<1>4. CASE RemovePath(p)
  <2> DEFINE x == [NewPath EXCEPT !.state = "gone"]
  <2>1. ie_path' = [ie_path EXCEPT ![p] = x] BY <1>4 DEF RemovePath
  <2>2. x \in PathRecord /\ x.cnt = 0 BY <1>1, PathTypes
  <2> HIDE DEF x
  <2>3. x.cnt # IN_CHECKING BY <2>2
  <2> QED BY <1>2, <2>1, <2>2, <2>3, OnePath
<1>5. CASE AddPath(p)
  <2>1. ie_path' = [ie_path EXCEPT ![p] = NewPath] BY <1>5 DEF AddPath
  <2>2. NewPath \in PathRecord /\ NewPath.cnt = 0 BY <1>1, PathTypes
  <2>3. NewPath.cnt # IN_CHECKING BY <2>2
  <2> QED BY <1>2, <2>1, <2>2, <2>3, OnePath
<1> QED BY <1>3, <1>4, <1>5

\* The path was enqueued, or not.
LEMMA EnqueuedTypes ==
  ASSUME IoInv, ie_chk.pc # "idle", NEW ok \in BOOLEAN, Enqueued(ok)
  PROVE  /\ ie_chk.p \in IoPaths /\ ie_vecs' = "free" /\ ie_chk' = NoCheck
         /\ ie_path' \in [IoPaths -> PathRecord]
         /\ \A q \in IoPaths : q # ie_chk.p => ie_path'[q] = ie_path[q]
         /\ ie_path'[ie_chk.p].cnt = IN_CHECKING =>
              ok /\ ie_path'[ie_chk.p].disable /\ ie_path'[ie_chk.p].state # "gone"
<1> DEFINE p == ie_chk.p
           r == ie_path[p]
<1>1. p \in IoPaths /\ r \in PathRecord /\ r.disable /\ ie_path \in [IoPaths -> PathRecord]
  BY DEF IoInv, IoTypeOK, LocksHeld
<1>2. ie_vecs' = "free" /\ ie_chk' = NoCheck BY DEF Enqueued
<1>3. CASE ok = TRUE
  <2> DEFINE a == [r EXCEPT !.cnt = IN_CHECKING]
             b == [a EXCEPT !.dis = Never]
             c == [b EXCEPT !.state = "delayed"]
  <2>1. ie_path' = [ie_path EXCEPT ![p] = c] BY <1>3 DEF Enqueued
  <2> HIDE DEF r
  <2>2. a \in PathRecord /\ a.disable BY <1>1 DEF PathRecord
  <2> HIDE DEF a
  <2>3. b \in PathRecord /\ b.disable BY <2>2 DEF PathRecord
  <2> HIDE DEF b
  <2>4. c \in PathRecord /\ c.disable /\ c.state = "delayed" BY <2>3 DEF PathRecord
  <2> HIDE DEF c
  <2> QED BY <1>1, <1>2, <1>3, <2>1, <2>4
<1>4. CASE ok = FALSE
  <2> DEFINE x == [Recovered(r) EXCEPT !.state = "up"]
  <2>1. ie_path' = [ie_path EXCEPT ![p] = x] BY <1>4 DEF Enqueued
  <2> HIDE DEF r
  <2>2. Recovered(r) \in PathRecord /\ Recovered(r).cnt = 0 BY <1>1, PathTypes
  <2>3. x \in PathRecord /\ x.cnt = 0 BY <2>2, PathTypes
  <2> HIDE DEF x
  <2> QED BY <1>1, <1>2, <1>4, <2>1, <2>3
<1> QED BY <1>3, <1>4

\* The checker enqueues a path or finds that it is queued already.
LEMMA EnqueueStep == ASSUME IoInv, Checker PROVE IoInv'
<1> DEFINE p == ie_chk.p
<1>1. ie_chk.pc # "idle" /\ ie_vecs = "checker" /\ p \in IoPaths
  BY DEF IoInv, IoTypeOK, LocksHeld, Checker, EnqueueLookup, EnqueueSetup, EnqueueAppend
<1>2. UNCHANGED <<ie_now, ie_mutex, ie_thr>>
  BY DEF Checker, EnqueueLookup, EnqueueSetup, EnqueueAppend
<1>3. ASSUME UNCHANGED <<ie_path, ie_vecs, ie_queue, ie_entry>>, NEW s \in {"setup", "append"},
             ie_chk' = [ie_chk EXCEPT !.pc = s]
      PROVE  IoInv'
  <2>1. IoTypeOK' BY <1>1, <1>2, <1>3 DEF IoInv, IoTypeOK
  <2>2. LocksHeld' BY <1>1, <1>2, <1>3 DEF IoInv, IoTypeOK, LocksHeld
  <2>3. Evaluable' /\ CheckedIsQueued' /\ RemovedUnchecked'
    BY <1>2, <1>3 DEF IoInv, Evaluable, CheckedIsQueued, find_err_path_by_dev, RemovedUnchecked
  <2> QED BY <2>1, <2>2, <2>3 DEF IoInv
<1>4. ASSUME NEW ok \in BOOLEAN, Enqueued(ok), UNCHANGED <<ie_queue, ie_entry>>,
             ok = TRUE => find_err_path_by_dev(p)
      PROVE  IoInv'
  <2> USE <1>1, <1>4, EnqueuedTypes DEF NoCheck
  <2>1. IoTypeOK' BY <1>2 DEF IoInv, IoTypeOK
  <2>2. LocksHeld' BY <1>2 DEF IoInv, LocksHeld
  <2>3. Evaluable' BY <1>2 DEF IoInv, Evaluable
  <2>4. CheckedIsQueued'
    <3>1. \A q : find_err_path_by_dev(q)' <=> find_err_path_by_dev(q) BY DEF find_err_path_by_dev
    <3>2. ASSUME NEW q \in IoPaths, ie_path'[q].cnt = IN_CHECKING
          PROVE  ie_path'[q].disable /\ find_err_path_by_dev(q)
      <4>1. CASE q = p BY <3>2, <4>1
      <4>2. CASE q # p BY <3>2, <4>2 DEF IoInv, CheckedIsQueued
      <4> QED BY <4>1, <4>2
    <3> QED BY <3>1, <3>2 DEF CheckedIsQueued
  <2>5. RemovedUnchecked' BY DEF IoInv, RemovedUnchecked
  <2> QED BY <2>1, <2>2, <2>3, <2>4, <2>5 DEF IoInv
<1>5. CASE EnqueueAppend
  <2> USE <1>1
  <2>1. /\ Enqueued(TRUE) /\ ie_mutex = "free"
        /\ ie_queue' = Append(ie_queue, p) /\ ie_entry' = [ie_entry EXCEPT ![p] = NewEntry]
    BY <1>5 DEF EnqueueAppend
  <2>9. /\ ie_vecs' = "free" /\ ie_chk' = [pc |-> "idle", p |-> "none"]
        /\ ie_path' \in [IoPaths -> PathRecord]
        /\ \A q \in IoPaths : q # p => ie_path'[q] = ie_path[q]
        /\ ie_path'[p].cnt = IN_CHECKING => ie_path'[p].disable /\ ie_path'[p].state # "gone"
    BY <2>1, EnqueuedTypes DEF NoCheck
  <2>3. ie_queue' \in Seq(IoPaths)
    BY <2>1 DEF IoInv, IoTypeOK
  <2>4. IoTypeOK' BY <1>2, <2>3, <2>9 DEF IoInv, IoTypeOK
  <2>5. LocksHeld' /\ ie_thr.pc # "evaluate" BY <1>2, <2>1, <2>9 DEF IoInv, LocksHeld
  <2>7. Evaluable' BY <1>2, <2>5 DEF Evaluable
  <2>8. CheckedIsQueued'
    <3>1. /\ ie_queue \in Seq(IoPaths) /\ Len(ie_queue') = Len(ie_queue) + 1
          /\ \A i \in 1..Len(ie_queue) : ie_queue'[i] = ie_queue[i]
          /\ ie_queue'[Len(ie_queue) + 1] = p
      BY <2>1, AppendProperties DEF IoInv, IoTypeOK
    <3>2. /\ DOMAIN ie_queue = 1..Len(ie_queue) /\ DOMAIN ie_queue' = 1..Len(ie_queue')
          /\ Len(ie_queue) \in Nat
      BY <2>3, <3>1
    <3>5. ASSUME NEW q, find_err_path_by_dev(q) PROVE find_err_path_by_dev(q)'
      <4>1. PICK i \in 1..Len(ie_queue) : ie_queue[i] = q BY <3>2, <3>5 DEF find_err_path_by_dev
      <4>2. i \in DOMAIN ie_queue' /\ ie_queue'[i] = q BY <3>1, <3>2, <4>1
      <4> QED BY <4>2 DEF find_err_path_by_dev
    <3>3. ASSUME NEW q, q = p PROVE find_err_path_by_dev(q)'
      <4>1. Len(ie_queue) + 1 \in DOMAIN ie_queue' BY <3>1, <3>2
      <4> QED BY <3>1, <3>3, <4>1 DEF find_err_path_by_dev
    <3>4. ASSUME NEW q \in IoPaths, ie_path'[q].cnt = IN_CHECKING
          PROVE  ie_path'[q].disable /\ find_err_path_by_dev(q)'
      <4>1. CASE q = p BY <2>9, <3>3, <3>4, <4>1
      <4>2. CASE q # p BY <2>9, <3>5, <3>4, <4>2 DEF IoInv, CheckedIsQueued
      <4> QED BY <4>1, <4>2
    <3> QED BY <3>4 DEF CheckedIsQueued
  <2>10. RemovedUnchecked' BY <2>9 DEF IoInv, RemovedUnchecked
  <2> QED BY <2>4, <2>5, <2>7, <2>8, <2>10 DEF IoInv
<1>6. CASE EnqueueLookup
  <2>1. CASE find_err_path_by_dev(p)
    BY <1>4, <1>6, <2>1 DEF EnqueueLookup
  <2>2. CASE ~find_err_path_by_dev(p)
    BY <1>3, <1>6, <2>2 DEF EnqueueLookup
  <2> QED BY <2>1, <2>2
<1>7. CASE EnqueueSetup
  BY <1>3, <1>4, <1>7 DEF EnqueueSetup
<1> QED BY <1>5, <1>6, <1>7 DEF Checker

(***************************************************************************)
(* The thread                                                              *)
(***************************************************************************)
\* One path is served: a request may be sent, answered or timed out.
LEMMA ServeStep == ASSUME IoInv, ServicePath PROVE IoInv'
<1>1. /\ ie_thr.pc = "loop" /\ ie_thr.i \in 1..Len(ie_queue)
      /\ UNCHANGED <<ie_now, ie_path, ie_queue, ie_vecs, ie_mutex, ie_chk>>
  BY DEF ServicePath, IoInv, IoTypeOK, LocksHeld
<1>2. ie_thr' \in {[ie_thr EXCEPT !.pc = "evaluate"], [ie_thr EXCEPT !.i = @ + 1]}
  BY DEF ServicePath
<1>3. /\ ie_thr' \in [pc : {"off", "idle", "loop", "evaluate", "stopped"}, i : Nat]
      /\ ie_thr'.pc = "evaluate" => ie_thr'.i = ie_thr.i
      /\ ie_thr'.pc \in {"loop", "evaluate"} /\ ie_thr'.i >= 1
  <2> DEFINE T == [pc : {"off", "idle", "loop", "evaluate", "stopped"}, i : Nat]
  <2>1. ie_thr \in T /\ ie_thr.i \in Nat BY DEF IoInv, IoTypeOK
  <2>2. CASE ie_thr' = [ie_thr EXCEPT !.pc = "evaluate"] BY <1>1, <2>1, <2>2
  <2>3. CASE ie_thr' = [ie_thr EXCEPT !.i = @ + 1] BY <1>1, <2>1, <2>3
  <2> QED BY <1>2, <2>2, <2>3
<1>4. IoTypeOK' BY <1>1, <1>3 DEF IoInv, IoTypeOK
<1>5. LocksHeld' BY <1>1, <1>3 DEF IoInv, LocksHeld
<1>6. Evaluable' BY <1>1, <1>3 DEF Evaluable
<1>7. CheckedIsQueued' /\ RemovedUnchecked'
  BY <1>1 DEF IoInv, CheckedIsQueued, find_err_path_by_dev, RemovedUnchecked
<1> QED BY <1>4, <1>5, <1>6, <1>7 DEF IoInv

\* The path that was sampled is taken off the queue and off probation.
LEMMA EvaluateStep == ASSUME IoInv, EvaluatePath PROVE IoInv'
<1> DEFINE p == ie_queue[ie_thr.i]
           e == ie_entry[p]
           good == IF e.nr = 0 THEN TRUE ELSE e.err * 1000 <= ErrRate * e.nr
           r == ie_path[p]
           x == IF r.state = "gone" THEN r
                ELSE IF ~good /\ count_active_paths
                THEN [r EXCEPT !.cnt = WAITING_TO_CHECK, !.disable = TRUE, !.dis = tv_sec(ie_now)]
                ELSE Recovered(r)
<1>1. /\ ie_thr.pc = "evaluate" /\ ie_vecs = "free"
      /\ ie_path' = [ie_path EXCEPT ![p] = x]
      /\ ie_queue' = RemoveAt(ie_queue, ie_thr.i)
      /\ ie_entry' = [ie_entry EXCEPT ![p] = NewEntry]
      /\ ie_thr' = [pc |-> "loop", i |-> ie_thr.i + 1]
      /\ UNCHANGED <<ie_now, ie_vecs, ie_mutex, ie_chk>>
  BY DEF EvaluatePath
<1> HIDE DEF good
<1>2. /\ ie_thr.i \in 1..Len(ie_queue) /\ p \in IoPaths /\ r \in PathRecord
      /\ ie_queue \in Seq(IoPaths) /\ tv_sec(ie_now) \in Int /\ ie_thr.i \in Nat
      /\ ie_now \in Nat
  BY <1>1, SecondsAre DEF IoInv, IoTypeOK, Evaluable
<1>3. x \in PathRecord /\ x.cnt # IN_CHECKING
  <2>6. r.state = "gone" => r.cnt # IN_CHECKING BY <1>2 DEF IoInv, RemovedUnchecked
  <2> DEFINE a == [r EXCEPT !.cnt = WAITING_TO_CHECK]
             b == [a EXCEPT !.disable = TRUE]
             c == [b EXCEPT !.dis = tv_sec(ie_now)]
  <2>1. Recovered(r) \in PathRecord /\ Recovered(r).cnt = 0 BY <1>2, PathTypes
  <2> HIDE DEF r
  <2>2. a \in PathRecord /\ a.cnt = WAITING_TO_CHECK BY SMTT(40), <1>2 DEF PathRecord
  <2> HIDE DEF a
  <2>3. b \in PathRecord /\ b.cnt = WAITING_TO_CHECK BY <2>2 DEF PathRecord
  <2> HIDE DEF b
  <2>4. c \in PathRecord /\ c.cnt = WAITING_TO_CHECK
    BY <1>2, <2>3 DEF PathRecord
  <2>5. c = [r EXCEPT !.cnt = WAITING_TO_CHECK, !.disable = TRUE, !.dis = tv_sec(ie_now)] BY DEF a, b
  <2> HIDE DEF c
  <2>7. CASE r.state = "gone" BY <1>2, <2>6, <2>7
  <2>8. CASE r.state # "gone" /\ x = Recovered(r)
    <3> HIDE DEF x
    <3> QED BY <2>1, <2>8
  <2>9. CASE r.state # "gone" /\ x = c
    <3> HIDE DEF x
    <3> QED BY <2>4, <2>9
  <2> QED BY <2>5, <2>7, <2>8, <2>9
<1> HIDE DEF x
<1>5. /\ ie_queue' \in Seq(IoPaths)
      /\ \A j \in 1..Len(ie_queue) :
           j # ie_thr.i => \E k \in 1..Len(ie_queue') : ie_queue'[k] = ie_queue[j]
  BY <1>1, <1>2, RemoveIs
<1>6. IoTypeOK'
  <2>1. ie_path' \in [IoPaths -> PathRecord]
    BY <1>1, <1>3 DEF IoInv, IoTypeOK
  <2> QED BY <1>1, <1>2, <1>5, <2>1 DEF IoInv, IoTypeOK
<1>7. LocksHeld' BY <1>1, <1>2 DEF IoInv, LocksHeld, IoTypeOK
<1>9. Evaluable' BY <1>1 DEF Evaluable
<1>10. CheckedIsQueued'
  <2> SUFFICES ASSUME NEW q \in IoPaths, ie_path'[q].cnt = IN_CHECKING
               PROVE  ie_path'[q].disable /\ find_err_path_by_dev(q)'
    BY DEF CheckedIsQueued
  <2>1. q # p /\ ie_path'[q] = ie_path[q] BY <1>1, <1>2, <1>3 DEF IoInv, IoTypeOK
  <2>2. ie_path[q].disable /\ find_err_path_by_dev(q) BY <2>1 DEF IoInv, CheckedIsQueued
  <2>3. PICK j \in 1..Len(ie_queue) : ie_queue[j] = q BY <1>2, <2>2 DEF find_err_path_by_dev
  <2>4. PICK k \in 1..Len(ie_queue') : ie_queue'[k] = q BY <1>5, <2>1, <2>3
  <2>5. find_err_path_by_dev(q)' BY <1>5, <2>4 DEF find_err_path_by_dev
  <2> QED BY <2>1, <2>2, <2>5
<1>11. RemovedUnchecked' BY <1>1, <1>2, <1>3 DEF IoInv, IoTypeOK, RemovedUnchecked
<1> QED BY <1>6, <1>7, <1>9, <1>10, <1>11 DEF IoInv

\* The thread starts, goes through the paths, or is stopped; time passes.
LEMMA ThreadStep ==
  ASSUME IoInv, \/ ServiceStart \/ ServiceEnd \/ start_io_err_stat_thread
                \/ stop_io_err_stat_thread \/ IoTick
  PROVE  IoInv'
<1>1. CASE ServiceStart \/ ServiceEnd \/ start_io_err_stat_thread
  <2>1. /\ UNCHANGED <<ie_now, ie_path, ie_queue, ie_entry, ie_vecs, ie_chk>>
        /\ ie_thr'.pc = "loop" => ie_mutex' = "thread" /\ ie_thr'.i = 1
        /\ ie_thr' \in [pc : {"idle", "loop"}, i : Nat]
    BY <1>1 DEF ServiceStart, ServiceEnd, start_io_err_stat_thread
  <2>2. IoTypeOK' BY <2>1 DEF IoInv, IoTypeOK
  <2>3. LocksHeld' /\ Evaluable' BY <2>1 DEF IoInv, LocksHeld, Evaluable
  <2>4. CheckedIsQueued' /\ RemovedUnchecked'
    BY <2>1 DEF IoInv, CheckedIsQueued, find_err_path_by_dev, RemovedUnchecked
  <2> QED BY <2>2, <2>3, <2>4 DEF IoInv
<1>2. CASE stop_io_err_stat_thread
  <2> DEFINE x == [NewPath EXCEPT !.state = "gone"]
  <2>1. x \in PathRecord /\ x.cnt = 0
    <3>1. NewPath \in PathRecord /\ NewPath.cnt = 0 BY DEF NewPath, PathRecord
    <3> QED BY <3>1 DEF PathRecord
  <2>3. /\ ie_thr' = [pc |-> "stopped", i |-> 0] /\ ie_queue' = <<>> /\ ie_vecs = "free"
        /\ ie_path' = [p \in IoPaths |-> x]
        /\ UNCHANGED <<ie_now, ie_vecs, ie_mutex, ie_chk>>
    BY <1>2 DEF stop_io_err_stat_thread
  <2> HIDE DEF x
  <2>4. IoTypeOK' BY <2>1, <2>3 DEF IoInv, IoTypeOK
  <2>5. LocksHeld' /\ Evaluable' BY <2>3 DEF IoInv, LocksHeld, Evaluable
  <2>7. CheckedIsQueued' /\ RemovedUnchecked'
    BY <2>1, <2>3 DEF CheckedIsQueued, RemovedUnchecked
  <2> QED BY <2>4, <2>5, <2>7 DEF IoInv
<1>3. CASE IoTick
  <2>1. /\ ie_now' \in Nat
        /\ UNCHANGED <<ie_path, ie_queue, ie_entry, ie_vecs, ie_mutex, ie_chk, ie_thr>>
    BY <1>3 DEF IoTick, IoInv, IoTypeOK
  <2> QED BY <2>1 DEF IoInv, IoTypeOK, LocksHeld, Evaluable, CheckedIsQueued,
              find_err_path_by_dev, RemovedUnchecked
<1> QED BY <1>1, <1>2, <1>3

\* Every step keeps the invariant.
LEMMA IoInvariant == IoSpec => []IoInv
<1>1. ASSUME IoInv, [IoNext]_ie_vars PROVE IoInv'
  <2>1. CASE UNCHANGED ie_vars
    BY <1>1, <2>1 DEF ie_vars, IoInv, IoTypeOK, LocksHeld, Evaluable,
       CheckedIsQueued, find_err_path_by_dev, RemovedUnchecked
  <2>2. ASSUME NEW p \in IoPaths,
               \/ io_err_stat_handle_pathfail(p) \/ CheckUp(p) \/ CheckDown(p)
               \/ RemovePath(p) \/ AddPath(p)
        PROVE  IoInv'
    BY <1>1, <2>2, PathfailStep, CheckUpStep, PathStep
  <2>3. CASE Checker BY <1>1, <2>3, EnqueueStep
  <2>4. CASE Thread BY <1>1, <2>4, ThreadStep, ServeStep, EvaluateStep DEF Thread
  <2>5. CASE IoTick \/ start_io_err_stat_thread \/ stop_io_err_stat_thread
    BY <1>1, <2>5, ThreadStep
  <2> QED BY <1>1, <2>1, <2>2, <2>3, <2>4, <2>5 DEF IoNext
<1> QED BY <1>1, IoInitInv, PTL DEF IoSpec

\* For any number of paths, times, requests and late answers: a path that
\* check_path() keeps delayed because it is sampled is queued for the thread
\* that samples it, although look-up and insertion are two critical sections
\* and entries outlive their paths.
THEOREM CheckedIsQueuedTheorem == IoSpec => []CheckedIsQueued
<1>1. IoInv => CheckedIsQueued BY DEF IoInv
<1> QED BY <1>1, IoInvariant, PTL
=============================================================================
