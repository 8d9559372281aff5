------------------------------- MODULE Persist -------------------------------
(***************************************************************************)
(* Persistent reservations (libmpathpersist, libmultipath/prkey.c and the  *)
(* daemon's part in multipathd). A registration belongs to one I_T nexus,  *)
(* that is to one path, and a map should look like one. mpathpersist sends *)
(* each command to the paths that it finds usable and tells the daemon the *)
(* key and that the map is registered; the daemon registers the paths that *)
(* come up later.                                                          *)
(*                                                                         *)
(* One LUN: its paths, and a nexus of another host. Keys are strings, NoKey*)
(* is the key 0. Commands of one call run in threads, in any order; any of *)
(* them may fail with or without having taken effect.                      *)
(***************************************************************************)
EXTENDS Integers, Sequences, FiniteSets, Functions

CONSTANTS
  PrPaths,         \* the paths of the map, a sequence in the order of its groups
  PrHost,          \* [path -> host_no]
  AllTgPt,         \* the array registers all paths of a host at once and
                   \* all_tg_pt is set
  PrKeys,          \* the keys that the operator may use
  PrSource,        \* "conf": reservation_key is ConfKey; "file": the prkeys file
  ConfKey,
  Peer, PeerKey,   \* the nexus of another host and its key
  MaxPrFaults      \* bound: commands that fail

ASSUME PrConstants ==
  /\ PrPaths \in Seq(Range(PrPaths))
  /\ Peer \notin Range(PrPaths) /\ "none" \notin Range(PrPaths) \cup {Peer}

VARIABLES
  pr_reg,          \* the LUN: [nexus -> key]
  pr_holder,       \* the LUN: the nexus that holds the reservation or "none"
  pr_up,           \* the paths that work
  pr_file,         \* the prkeys file: the key of this map, or NoKey for a
                   \* line that is not there or begins with "#"
  pr_daemon,       \* struct multipath in the daemon: [key, flag]
  pr_tool,         \* the call of mpath_persistent_reserve_out()
  pr_faults        \* commands that have failed
pr_vars == <<pr_reg, pr_holder, pr_up, pr_file, pr_daemon, pr_tool, pr_faults>>

NoKey == "0"
PrOwn == Range(PrPaths)
Nexuses == PrOwn \cup {Peer}
PrSuccess == "success"
PrConflict == "conflict"

(************************* the LUN: SPC-4 commands *************************)
\* A LUN is [reg, holder]; each command gives the status and the LUN after it.
PrLun == [reg |-> pr_reg, holder |-> pr_holder]
\* The nexuses that are registered with n.
SameTarget(n) ==
  IF AllTgPt /\ n \in PrOwn THEN {q \in PrOwn : PrHost[q] = PrHost[n]} ELSE {n}
SetKey(l, ns, k) ==
  [reg |-> [q \in Nexuses |-> IF q \in ns THEN k ELSE l.reg[q]],
   holder |-> IF l.holder \in ns /\ k = NoKey THEN "none" ELSE l.holder]
PrAnswer(ok, l, after) == IF ok THEN [status |-> "good", lun |-> after]
                        ELSE [status |-> "reservation conflict", lun |-> l]
\* c: [op, key, sa, tid]; tid is the nexus of a TransportID or "none".
PrCommand(l, n, c) ==
  LET mine == l.reg[n] = c.key IN
  CASE c.op = "register" ->
         LET reg == SetKey(l, SameTarget(n), c.sa)
         IN  PrAnswer(mine, l, IF c.tid = "none" THEN reg ELSE SetKey(reg, {c.tid}, c.sa))
    [] c.op = "register_ignore" -> PrAnswer(TRUE, l, SetKey(l, SameTarget(n), c.sa))
    [] c.op = "reserve" ->
         PrAnswer(mine /\ c.key # NoKey /\ l.holder \in {"none", n}, l,
                [l EXCEPT !.holder = n])
    [] c.op = "release" ->
         PrAnswer(mine /\ c.key # NoKey, l,
                IF l.holder = n THEN [l EXCEPT !.holder = "none"] ELSE l)
    [] c.op = "clear" ->
         PrAnswer(mine /\ c.key # NoKey, l,
                [reg |-> [q \in Nexuses |-> NoKey], holder |-> "none"])
    [] c.op = "preempt" ->
         LET gone == {q \in Nexuses \ {n} : l.reg[q] = c.sa}
         IN  PrAnswer(mine /\ c.key # NoKey /\ gone # {}, l,
                    [SetKey(l, gone, NoKey) EXCEPT
                       !.holder = IF l.holder \in gone THEN n ELSE l.holder])

\* The status of the SCSI command, of the host and of the driver.
mpath_translate_response(status) ==
  IF status = "good" THEN PrSuccess
  ELSE IF status = "reservation conflict" THEN PrConflict ELSE "error"
\* prout_do_scsi_ioctl(), with its retries for unit attentions: the command is
\* executed, or it fails and may have been executed.
prout_do_scsi_ioctl(n, c) ==
  LET a == PrCommand(PrLun, n, c)
      lost(l, faults) == [lun |-> l, status |-> mpath_translate_response("other"), faults |-> faults]
  IN  IF n \notin pr_up THEN {lost(PrLun, 0)}
      ELSE {[lun |-> a.lun, status |-> mpath_translate_response(a.status), faults |-> 0]}
           \cup (IF pr_faults < MaxPrFaults THEN {lost(PrLun, 1), lost(a.lun, 1)} ELSE {})
\* One of these outcomes, of which the caller uses the status.
PrOutcome(a) ==
  /\ pr_reg' = a.lun.reg /\ pr_holder' = a.lun.holder
  /\ pr_faults' = pr_faults + a.faults

(**************************** keys and the daemon **************************)
SelectedKey(file) == IF PrSource = "file" THEN file ELSE ConfKey
\* cli_setprkey(), cli_unsetprkey(): set_prkey() fails if the key that is
\* selected then is another one, as it is without "reservation_key file".
set_prkey(k) ==
  /\ pr_file' = k
  /\ pr_daemon' = [pr_daemon EXCEPT !.key = SelectedKey(k)]

\* mpath_pr_event_handler_fn() for a path that came up (check_path()) or was
\* added (ev_add_path()). prflag is set although the registration may fail.
mpath_pr_event_handle(p) ==
  LET c == [op |-> "register_ignore", key |-> NoKey, sa |-> pr_daemon.key, tid |-> "none"]
      found == \E n \in Nexuses : pr_reg[n] = pr_daemon.key
      l == PrCommand(PrLun, p, c).lun
  IN  IF pr_daemon.key = NoKey \/ ~found
      THEN UNCHANGED <<pr_reg, pr_holder, pr_daemon, pr_faults>>
      ELSE /\ \/ pr_reg' = l.reg /\ pr_holder' = l.holder /\ UNCHANGED pr_faults
              \/ /\ pr_faults < MaxPrFaults
                 /\ pr_faults' = pr_faults + 1
                 /\ UNCHANGED <<pr_reg, pr_holder>>
           /\ pr_daemon' = [pr_daemon EXCEPT !.flag = TRUE]
PrPathUp(p, added) ==
  /\ p \notin pr_up
  /\ pr_up' = pr_up \cup {p}
  /\ IF added \/ pr_daemon.flag THEN mpath_pr_event_handle(p)
     ELSE UNCHANGED <<pr_reg, pr_holder, pr_daemon, pr_faults>>
  /\ UNCHANGED <<pr_file, pr_tool>>
PrPathDown(p) ==
  /\ p \in pr_up
  /\ pr_up' = pr_up \ {p}
  /\ UNCHANGED <<pr_reg, pr_holder, pr_file, pr_daemon, pr_tool, pr_faults>>
\* configure() in a new daemon: update_map_pr() looks for the key. A key found
\* sets prflag.
DaemonRestart ==
  LET k == SelectedKey(pr_file)
  IN  /\ pr_daemon' = [key |-> k,
            flag |-> k # NoKey /\ pr_up # {} /\ \E n \in Nexuses : pr_reg[n] = k]
      /\ UNCHANGED <<pr_reg, pr_holder, pr_up, pr_file, pr_tool, pr_faults>>

(******************************** the tool *********************************)
PrIdle == [pc |-> "idle"]
\* view: the paths found usable when the map was read; todo: those still to be
\* sent cmd; res: what the others answered; descr, found: the registrations to
\* make again, as [nexus, key]. before (of a release) and failed are history.
PrStart(op, key, sa) ==
  [pc |-> "check", op |-> op, key |-> key, sa |-> sa, ret |-> PrSuccess,
   view |-> PrOwn \cap pr_up,
   todo |-> {}, cmd |-> [op |-> op, key |-> key, sa |-> sa, tid |-> "none"],
   res |-> <<>>, own |-> SelectedKey(pr_file), descr |-> {}, found |-> FALSE,
   before |-> IF op = "release" THEN pr_reg ELSE <<>>, failed |-> FALSE]
PrCall(op, key, sa) ==
  /\ pr_tool.pc = "idle"
  /\ pr_tool' = PrStart(op, key, sa)
  /\ UNCHANGED <<pr_reg, pr_holder, pr_up, pr_file, pr_daemon, pr_faults>>
Registers(t) == t.op \in {"register", "register_ignore"}
\* With all_tg_pt the first path of each host gets the command.
At(p) == CHOOSE i \in DOMAIN PrPaths : PrPaths[i] = p
FirstOf(ps) == CHOOSE p \in ps : \A q \in ps : At(p) <= At(q)
PrTargets(t) ==
  {p \in t.view : AllTgPt => p = FirstOf({q \in t.view : PrHost[q] = PrHost[p]})}

\* __mpath_persistent_reserve_out() up to the switch. A new key goes to the
\* daemon first.
CheckKey ==
  LET t == pr_tool
      new == /\ PrSource = "file" /\ t.sa # NoKey
             /\ (t.op = "register" /\ t.own = NoKey) \/ t.op = "register_ignore"
      own == IF new THEN t.sa ELSE t.own
      match == own \in {t.key, t.sa}
      to == IF Registers(t) THEN PrTargets(t)
            ELSE IF t.op = "release" THEN t.view
            ELSE IF t.view = {} THEN {} ELSE {FirstOf(t.view)}
  IN  /\ t.pc = "check"
      /\ IF new THEN set_prkey(t.sa) ELSE UNCHANGED <<pr_file, pr_daemon>>
      /\ pr_tool' =
           IF ~match THEN [t EXCEPT !.pc = "report", !.ret = "syntax"]
           ELSE IF Registers(t) /\ t.view = {}
           THEN [t EXCEPT !.pc = "report", !.ret = "dmmp"]
           ELSE [t EXCEPT !.pc = "send", !.todo = to, !.own = own]
      /\ UNCHANGED <<pr_reg, pr_holder, pr_up, pr_faults>>
\* mpath_prout_pthread_fn() of one of the threads.
PrSend(n) ==
  LET Res(s) == pr_tool' = [pr_tool EXCEPT !.todo = @ \ {n},
                              !.failed = @ \/ s = "error",
                              !.res = Append(@, <<n, s>>)]
  IN  /\ pr_tool.pc = "send" /\ n \in pr_tool.todo
      /\ \E a \in prout_do_scsi_ioctl(n, pr_tool.cmd) : PrOutcome(a) /\ Res(a.status)
      /\ UNCHANGED <<pr_up, pr_file, pr_daemon>>

Statuses(t) == {t.res[i][2] : i \in DOMAIN t.res}
\* Mutant: the status of the thread joined last.
reg_status_Last(t) == IF t.res = <<>> THEN PrSuccess ELSE t.res[Len(t.res)][2]
\* A conflict wins over every other failure.
reg_status(t) ==
  IF PrConflict \in Statuses(t) THEN PrConflict
  ELSE IF Statuses(t) \subseteq {PrSuccess} THEN PrSuccess ELSE "error"
\* The end of mpath_prout_reg(): after a conflict the paths that took a new key
\* are unregistered.
Joined_reg ==
  LET t == pr_tool
      back == {t.res[i][1] : i \in {i \in DOMAIN t.res : t.res[i][2] = PrSuccess}}
  IN  /\ t.pc = "send" /\ t.todo = {} /\ t.cmd.op \in {"register", "register_ignore"}
      /\ pr_tool' =
           IF reg_status(t) = PrConflict /\ t.cmd.op = "register" /\ t.cmd.sa # NoKey
           THEN [t EXCEPT !.pc = "rollback", !.ret = PrConflict, !.todo = back,
                          !.cmd = [op |-> "register", key |-> t.cmd.sa, sa |-> NoKey,
                                   tid |-> "none"]]
           ELSE [t EXCEPT !.pc = "report", !.ret = reg_status(t)]
      /\ UNCHANGED <<pr_reg, pr_holder, pr_up, pr_file, pr_daemon, pr_faults>>
PrRollback(n) ==
  LET Res(s) == pr_tool' = [pr_tool EXCEPT !.todo = @ \ {n},
                              !.failed = @ \/ s # PrSuccess]
  IN  /\ pr_tool.pc = "rollback" /\ n \in pr_tool.todo
      /\ \E a \in prout_do_scsi_ioctl(n, pr_tool.cmd) : PrOutcome(a) /\ Res(a.status)
      /\ UNCHANGED <<pr_up, pr_file, pr_daemon>>
RolledBack ==
  /\ pr_tool.pc = "rollback" /\ pr_tool.todo = {}
  /\ pr_tool' = [pr_tool EXCEPT !.pc = "report"]
  /\ UNCHANGED <<pr_reg, pr_holder, pr_up, pr_file, pr_daemon, pr_faults>>
\* mpath_prout_common(): the status of the one path, success without a path.
Joined_common ==
  LET t == pr_tool
  IN  /\ t.pc = "send" /\ t.todo = {} /\ t.cmd.op \in {"reserve", "clear", "preempt"}
      /\ pr_tool' = [t EXCEPT !.pc = "report",
                       !.ret = IF t.res = <<>> THEN PrSuccess ELSE t.res[1][2]]
      /\ UNCHANGED <<pr_reg, pr_holder, pr_up, pr_file, pr_daemon, pr_faults>>

(**************************** mpath_prout_rel() ****************************)
\* mpath_prin_activepath(): some path of the view answers.
PrReadable(t) == t.view \cap pr_up # {}
ReadFullStatus == {n \in Nexuses : pr_reg[n] # NoKey}
RelTo(pc, t) == pr_tool' = [t EXCEPT !.pc = pc]
\* The statuses of the release itself are dropped. If there still is a
\* reservation, its holder is taken for a path of the map that is gone; then
\* all registrations are read, cleared and made again.
Joined_rel ==
  LET t == pr_tool
      all == ReadFullStatus
      others == {n \in all : t.own \notin {NoKey, pr_reg[n]}}
  IN  /\ t.pc = "send" /\ t.todo = {} /\ t.cmd.op = "release"
      /\ \/ ~PrReadable(t) /\ RelTo("report", [t EXCEPT !.ret = "other"])
         \/ PrReadable(t) /\ pr_holder = "none" /\ RelTo("report", [t EXCEPT !.ret = PrSuccess])
         \/ /\ PrReadable(t) /\ pr_holder # "none"
            /\ RelTo(IF all = {} THEN "report" ELSE "clear",
                     [t EXCEPT !.ret = PrSuccess,
                        !.found = t.own # NoKey /\ \E n \in all : pr_reg[n] = t.own,
                        !.descr = {[nexus |-> n, key |-> pr_reg[n]] : n \in others}])
      /\ UNCHANGED <<pr_reg, pr_holder, pr_up, pr_file, pr_daemon, pr_faults>>
RelClear ==
  LET t == pr_tool
      c == [op |-> "clear", key |-> t.own, sa |-> NoKey, tid |-> "none"]
      Res(s) == pr_tool' = [t EXCEPT !.ret = s, !.failed = @ \/ s = "error",
                              !.pc = IF s = PrSuccess THEN "again" ELSE "report"]
  IN  /\ t.pc = "clear"
      /\ \E a \in prout_do_scsi_ioctl(FirstOf(t.view), c) : PrOutcome(a) /\ Res(a.status)
      /\ UNCHANGED <<pr_up, pr_file, pr_daemon>>
\* A descriptor of another key is registered from the first path by its
\* TransportID, and that path, which got the key as well, is unregistered.
RelAgain(first) ==
  LET t == pr_tool
      d == CHOOSE d \in t.descr : TRUE
      c == IF first
           THEN [op |-> "register", key |-> NoKey, sa |-> d.key, tid |-> d.nexus]
           ELSE [op |-> "register", key |-> d.key, sa |-> NoKey, tid |-> "none"]
      Res(s) == pr_tool' = [t EXCEPT !.ret = s, !.failed = @ \/ s # PrSuccess,
                              !.pc = IF first THEN "again2" ELSE "again",
                              !.descr = IF first THEN @ ELSE @ \ {d}]
  IN  /\ t.pc = (IF first THEN "again" ELSE "again2")
      /\ t.descr # {}
      /\ \E a \in prout_do_scsi_ioctl(FirstOf(t.view), c) : PrOutcome(a) /\ Res(a.status)
      /\ UNCHANGED <<pr_up, pr_file, pr_daemon>>
\* Mutant: the own key is not registered again.
RelEnd_Forgets ==
  /\ pr_tool.pc = "again" /\ pr_tool.descr = {}
  /\ pr_tool' = [pr_tool EXCEPT !.pc = "report"]
  /\ UNCHANGED <<pr_reg, pr_holder, pr_up, pr_file, pr_daemon, pr_faults>>
\* The own key is registered on all paths again with mpath_prout_reg().
RelEnd ==
  LET t == pr_tool
  IN  /\ t.pc = "again" /\ t.descr = {}
      /\ pr_tool' =
           IF ~t.found THEN [t EXCEPT !.pc = "report"]
           ELSE [t EXCEPT !.pc = "send", !.todo = PrTargets(t), !.res = <<>>,
                          !.cmd = [op |-> "register", key |-> NoKey, sa |-> t.own,
                                   tid |-> "none"]]
      /\ UNCHANGED <<pr_reg, pr_holder, pr_up, pr_file, pr_daemon, pr_faults>>

\* The daemon is told of a registration: update_prflag(), update_prkey().
PrReport ==
  LET t == pr_tool
      off == (Registers(t) /\ t.sa = NoKey) \/ t.op = "clear"
  IN  /\ t.pc = "report"
      /\ pr_tool' = PrIdle
      /\ IF t.ret = PrSuccess /\ off
         THEN /\ pr_file' = NoKey
              /\ pr_daemon' = [key |-> SelectedKey(NoKey), flag |-> FALSE]
         ELSE /\ pr_daemon' = IF t.ret = PrSuccess /\ Registers(t)
                              THEN [pr_daemon EXCEPT !.flag = TRUE] ELSE pr_daemon
              /\ UNCHANGED pr_file
      /\ UNCHANGED <<pr_reg, pr_holder, pr_up, pr_faults>>

(***************************** specification *******************************)
PrInit ==
  /\ pr_reg \in {[n \in Nexuses |-> IF n = Peer THEN k ELSE NoKey] : k \in {NoKey, PeerKey}}
  /\ pr_holder \in {"none"} \cup {n \in {Peer} : pr_reg[n] # NoKey}
  /\ pr_up = PrOwn
  /\ pr_file = NoKey
  /\ pr_daemon = [key |-> SelectedKey(NoKey), flag |-> FALSE]
  /\ pr_tool = PrIdle /\ pr_faults = 0

PrNext ==
  \/ \E k, s \in PrKeys \cup {NoKey} :
       \/ PrCall("register", k, s) \/ PrCall("register_ignore", NoKey, s)
       \/ PrCall("reserve", k, NoKey) \/ PrCall("release", k, NoKey)
       \/ PrCall("clear", k, NoKey) \/ PrCall("preempt", k, PeerKey)
  \/ CheckKey \/ Joined_reg \/ RolledBack \/ Joined_common \/ Joined_rel
  \/ RelClear \/ RelAgain(TRUE) \/ RelAgain(FALSE) \/ RelEnd \/ PrReport
  \/ \E n \in PrOwn : PrSend(n) \/ PrRollback(n) \/ PrPathDown(n)
  \/ \E n \in PrOwn, added \in BOOLEAN : PrPathUp(n, added)
  \/ DaemonRestart
PrSpec == PrInit /\ [][PrNext]_pr_vars

(****************************** properties *********************************)
(***************************************************************************)
(* A registration that mpathpersist reports as done holds on all paths it  *)
(* found usable, whichever of the commands failed or conflicted and        *)
(* although the daemon registers paths of its own accord meanwhile. It     *)
(* need not hold if the daemon works with another key, for it then may put *)
(* its own key back on a path that comes up.                               *)
(***************************************************************************)
RegisteredEverywhere ==
  pr_tool.pc = "report" /\ pr_tool.ret = PrSuccess /\ Registers(pr_tool)
  /\ pr_tool.sa # NoKey /\ pr_daemon.key = pr_tool.sa
    => \A p \in pr_tool.view : pr_reg[p] = pr_tool.sa

(***************************************************************************)
(* mpath_prout_rel() clears the registrations of all hosts if it believes  *)
(* that the path with the reservation is gone. When it reports success and *)
(* none of its commands failed, other hosts are registered as before and   *)
(* so are the paths of the map that it can reach.                          *)
(***************************************************************************)
ReleaseKeepsKeys ==
  pr_tool.pc = "report" /\ pr_tool.op = "release" /\ pr_tool.ret = PrSuccess
  /\ ~pr_tool.failed
    => /\ pr_reg[Peer] = pr_tool.before[Peer]
       /\ \A p \in pr_tool.view :
            pr_tool.before[p] = pr_tool.own => pr_reg[p] = pr_tool.own

(***************************************************************************)
(* What mpathpersist reports as done is so on every path.                  *)
(***************************************************************************)
ReportsTrue == RegisteredEverywhere /\ ReleaseKeepsKeys
=============================================================================
