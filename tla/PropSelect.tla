----------------------------- MODULE PropSelect -----------------------------
(***************************************************************************)
(* Selecting the properties of a map and of a path from the configuration  *)
(* layers (libmultipath/propsel.c, called by setup_map() and pathinfo()).  *)
(*                                                                         *)
(* A layer is a function on the options that are set in it; the hwe layer  *)
(* is the sequence of hwtable entries that match the device, the last one  *)
(* of the table first. Options have their names in multipath.conf, and the *)
(* values "no" and 0 of numbers are NU_NO = -1 and an option outside the   *)
(* domain. A map keeps its struct multipath over reloads, so that what is  *)
(* selected may depend on what was there before.                           *)
(***************************************************************************)
EXTENDS Integers, Sequences

CONSTANTS
  LayerSets,       \* [mpe, overrides, hwe, defaults, cmdline]: configurations
  Hardware         \* [tpgs, dh_state, dm_rq, dm_retain, linux43]: what the
                   \* paths of the map and the kernel support

VARIABLES
  layers,          \* the configuration in use
  hw,              \* the hardware of the map's paths
  smp,             \* the struct multipath, a function on what is set in it
  spp,             \* a struct path of the map: [checker, prio, detect, uid]
  asked            \* "setup": smp is as setup_map() left it; "cli", "flushed": a
                   \* command or the last path's removal changed it since
sel_vars == <<layers, hw, smp, spp, asked>>

No == -1                               \* NU_NO
MaxCheckint == 20                      \* max_polling_interval
IOTIMEOUT_SEC == 60

(*************************** the layers ************************************)
FirstOf(srcs, o, dflt) ==
  LET s == SelectSeq(srcs, LAMBDA l : o \in DOMAIN l)
  IN  IF s = <<>> THEN dflt ELSE s[1][o]
\* mp_set_mpe, mp_set_ovr, mp_set_hwe, mp_set_conf: the usual order, and the
\* one of the options that a multipath section does not have.
MpLayers(c) == <<c.mpe, c.overrides>> \o c.hwe \o <<c.defaults>>
OvrLayers(c) == <<c.overrides>> \o c.hwe \o <<c.defaults>>
HweLayers(c) == c.hwe \o <<c.defaults>>
\* deferred_remove is "yes" or "no" in a configuration, with and without the
\* hwtable's entries; "in progress" is a value of maps only.
ASSUME SelAssumption ==
  /\ Hardware \subseteq
       [tpgs : Seq(STRING), dh_state : Seq(STRING), dm_rq : BOOLEAN,
        dm_retain : BOOLEAN, linux43 : BOOLEAN, rdac : BOOLEAN, sysfs_state : BOOLEAN]
  /\ \A c \in LayerSets : \A x \in {c, [c EXCEPT !.hwe = <<>>]} :
       FirstOf(MpLayers(x), "deferred_remove", "no") \in {"yes", "no"}
Put(m, o, v) == [x \in DOMAIN m \cup {o} |-> IF x = o THEN v ELSE m[x]]
Drop(m, o) == [x \in DOMAIN m \ {o} |-> m[x]]
SetMp(c, m, o, dflt) == Put(m, o, FirstOf(MpLayers(c), o, dflt))
SetOvr(c, m, o, dflt) == Put(m, o, FirstOf(OvrLayers(c), o, dflt))
Num(m, o) == IF o \in DOMAIN m THEN m[o] ELSE 0

(*************************** properties of a map ***************************)
\* do_attr_set(): mode, uid and gid, with their flag.
select_attr(c, m, a) ==
  LET set == SelectSeq(<<c.mpe, c.defaults>>, LAMBDA l : a \in DOMAIN l)
  IN  IF set = <<>> THEN Drop(m, a) ELSE Put(m, a, set[1][a])
select_mode(c, m) == select_attr(c, m, "mode")
select_uid(c, m) == select_attr(c, m, "uid")
select_gid(c, m) == select_attr(c, m, "gid")
select_rr_weight(c, m) == SetMp(c, m, "rr_weight", "uniform")
select_pgfailback(c, m) == SetMp(c, m, "failback", "manual")
select_pgpolicy(c, m) ==
  IF "path_grouping_policy" \in DOMAIN c.cmdline
  THEN Put(m, "path_grouping_policy", c.cmdline["path_grouping_policy"])
  ELSE SetMp(c, m, "path_grouping_policy", "failover")
select_selector(c, m) == SetMp(c, m, "path_selector", "service-time 0")

\* The alias of a new map. Which letters follow the prefix, and the WWID
\* where none can be had, are in module Aliases.
want_user_friendly_names(c) ==
  FirstOf(MpLayers(c), "user_friendly_names", "no") = "yes"
select_alias_prefix(c) == FirstOf(OvrLayers(c), "alias_prefix", "mpath")
SelectAlias(c) ==
  IF "alias" \in DOMAIN c.mpe THEN <<c.mpe["alias"]>>
  ELSE IF want_user_friendly_names(c) THEN <<select_alias_prefix(c), "letters">>
  ELSE <<"wwid">>

\* no_path_retry has no default: a map keeps the value that it has.
select_no_path_retry(c, m) ==
  IF m["disable_queueing"] THEN Put(m, "no_path_retry", "fail")
  ELSE LET v == FirstOf(MpLayers(c), "no_path_retry", "")
       IN  IF v = "" THEN m ELSE Put(m, "no_path_retry", v)
select_retain_hwhandler(c, h, m) ==
  IF ~h.dm_retain THEN Put(m, "retain_attached_hw_handler", "no")
  ELSE IF h.linux43 THEN Put(m, "retain_attached_hw_handler", "yes")
  ELSE SetOvr(c, m, "retain_attached_hw_handler", "yes")
\* After no_path_retry and retain_attached_hw_handler: a feature that stands
\* for one of them only counts if that one is not set.
select_features(c, m) ==
  LET f == FirstOf(MpLayers(c), "features", {})
      m1 == IF "queue_if_no_path" \in f /\ "no_path_retry" \notin DOMAIN m
            THEN Put(m, "no_path_retry", "queue") ELSE m
  IN  Put(m1, "features", f \ {"queue_if_no_path", "retain_attached_hw_handler"})

\* TPGS_UNDEF on some paths does not matter if some other path has support.
all_tpgs(h) == /\ \A i \in DOMAIN h.tpgs : h.tpgs[i] # "none"
               /\ \E i \in DOMAIN h.tpgs : h.tpgs[i] \notin {"none", "undef"}
select_hwhandler(c, h, m) ==
  LET attached == SelectSeq(h.dh_state, LAMBDA d : d \notin {"", "detached"})
      retained == m["retain_attached_hw_handler"] # "no" /\ attached # <<>>
      set == FirstOf(HweLayers(c), "hardware_handler", "")
      v == IF retained THEN attached[1] ELSE IF set # "" THEN set ELSE "0"
  IN  Put(m, "hardware_handler",
        IF all_tpgs(h) /\ ~retained /\ set = "" THEN "alua"
        ELSE IF ~all_tpgs(h) /\ v = "alua" THEN "0" ELSE v)

select_minio_rq(c, m) == Put(m, "minio", FirstOf(MpLayers(c), "rr_min_io_rq", 1))
select_minio_bio(c, m) == Put(m, "minio", FirstOf(MpLayers(c), "rr_min_io", 1000))
select_minio(c, h, m) == IF h.dm_rq THEN select_minio_rq(c, m) ELSE select_minio_bio(c, m)
select_fast_io_fail(c, m) == SetOvr(c, m, "fast_io_fail_tmo", 5)
select_dev_loss(c, m) ==
  LET v == FirstOf(OvrLayers(c), "dev_loss_tmo", 0)
  IN  IF v = 0 THEN Drop(m, "dev_loss_tmo") ELSE Put(m, "dev_loss_tmo", v)
select_flush_on_last_del(c, m) == SetMp(c, m, "flush_on_last_del", "no")
\* prkeys is the key that get_prkey() finds in prkeys_file.
select_reservation_key(c, m) ==
  LET k == FirstOf(<<c.mpe, c.defaults>>, "reservation_key", "")
  IN  IF k = "" THEN Drop(m, "reservation_key")
      ELSE IF k = "file"
      THEN Put(m, "reservation_key",
               IF "prkeys" \in DOMAIN c.defaults THEN c.defaults["prkeys"] ELSE "0")
      ELSE Put(m, "reservation_key", k)
select_deferred_remove(c, m) ==
  IF "deferred_remove" \in DOMAIN m /\ m["deferred_remove"] = "in progress" THEN m
  ELSE SetMp(c, m, "deferred_remove", "no")

(****************** the three methods to find shaky paths ******************)
MarginalOptions ==
  {"marginal_path_err_sample_time", "marginal_path_err_rate_threshold",
   "marginal_path_err_recheck_gap_time", "marginal_path_double_failed_time"}
SanOptions ==
  {"san_path_err_threshold", "san_path_err_forget_rate",
   "san_path_err_recovery_time"}
select_marginal_path_err_sample_time(c, m) ==
  LET v == FirstOf(MpLayers(c), "marginal_path_err_sample_time", No)
  IN  Put(m, "marginal_path_err_sample_time",
          IF v > 0 /\ v < 2 * IOTIMEOUT_SEC THEN 2 * IOTIMEOUT_SEC ELSE v)
select_marginal_path_err_rate_threshold(c, m) ==
  SetMp(c, m, "marginal_path_err_rate_threshold", No)
select_marginal_path_err_recheck_gap_time(c, m) ==
  SetMp(c, m, "marginal_path_err_recheck_gap_time", No)
select_marginal_path_double_failed_time(c, m) ==
  SetMp(c, m, "marginal_path_double_failed_time", No)
marginal_path_check_enabled(m) ==
  /\ \A o \in MarginalOptions \ {"marginal_path_err_rate_threshold"} : Num(m, o) > 0
  /\ Num(m, "marginal_path_err_rate_threshold") >= 0
select_san(c, m, o) ==
  IF marginal_path_check_enabled(m) THEN Put(m, o, No) ELSE SetMp(c, m, o, No)
select_san_path_err_threshold(c, m) == select_san(c, m, "san_path_err_threshold")
select_san_path_err_forget_rate(c, m) == select_san(c, m, "san_path_err_forget_rate")
select_san_path_err_recovery_time(c, m) == select_san(c, m, "san_path_err_recovery_time")
san_path_check_enabled(m) == \A o \in SanOptions : Num(m, o) > 0

san_path_check_options_set(m) == \E o \in SanOptions : Num(m, o) > 0
use_delay_watch_checks(c) == FirstOf(MpLayers(c), "delay_watch_checks", 0)
use_delay_wait_checks(c) == FirstOf(MpLayers(c), "delay_wait_checks", 0)
select_delay_checks(c, m) ==
  LET watch == use_delay_watch_checks(c)
      wait == use_delay_wait_checks(c)
      m1 == Put(m, "san_path_err_threshold", 1)
      m2 == IF watch > 0 THEN Put(m1, "san_path_err_forget_rate", watch) ELSE m1
      m3 == IF wait > 0
            THEN Put(m2, "san_path_err_recovery_time", wait * MaxCheckint) ELSE m2
  IN  IF (watch <= 0 /\ wait <= 0) \/ san_path_check_options_set(m) THEN m ELSE m3

select_skip_kpartx(c, m) == SetMp(c, m, "skip_kpartx", "no")
select_max_sectors_kb(c, m) == SetMp(c, m, "max_sectors_kb", 0)
select_ghost_delay(c, m) == SetMp(c, m, "ghost_delay", No)

(************************* properties of a path ****************************)
select_detect_prio(c) == FirstOf(OvrLayers(c), "detect_prio", "yes")
select_detect_checker(c) == FirstOf(OvrLayers(c), "detect_checker", "yes")
\* The VPD page is not asked for if the hwtable names another checker.
check_rdac(c, h) ==
  /\ FirstOf(c.hwe, "path_checker", "rdac") = "rdac"
  /\ h.rdac
select_checker(c, h) ==
  IF select_detect_checker(c) = "yes" /\ check_rdac(c, h) THEN "rdac"
  ELSE IF select_detect_checker(c) = "yes" /\ h.tpgs[1] \notin {"none", "undef"}
  THEN "tur"
  ELSE FirstOf(OvrLayers(c), "path_checker", "tur")
\* uid_attrs, then getuid before uid_attribute in each layer.
select_getuid(c) ==
  LET in(l) == {"getuid_callout", "uid_attribute"} \cap DOMAIN l # {}
      s == SelectSeq(OvrLayers(c), in)
  IN  IF "uid_attrs" \in DOMAIN c.defaults THEN "uid_attrs"
      ELSE IF s = <<>> THEN "ID_SERIAL"
      ELSE IF "getuid_callout" \in DOMAIN s[1] THEN "callout"
      ELSE s[1]["uid_attribute"]
\* "" : nothing was detected. TPGS_UNDEF counts as support here.
detect_prio(c, h) ==
  IF h.tpgs[1] = "none" THEN ""
  ELSE IF (h.tpgs[1] = "explicit" \/ ~check_rdac(c, h)) /\ h.sysfs_state
  THEN "sysfs" ELSE "alua"
\* Of the hwtable entries the first name and the first arguments count, be
\* they of different entries.
\* The storage's answer does not count (mutant).
select_prio_Configured(c, h) ==
  IF select_detect_prio(c) = "yes" /\ detect_prio(c, h) # "" THEN detect_prio(c, h)
  ELSE FirstOf(MpLayers(c), "prio", "const")
select_prio(c, h) ==
  LET detected == IF select_detect_prio(c) = "yes" THEN detect_prio(c, h) ELSE ""
      p == IF detected # "" THEN detected
           ELSE FirstOf(MpLayers(c), "prio", "const")
  IN  IF p = "alua" /\ h.tpgs[1] = "none" THEN "const" ELSE p
select_find_multipaths_timeout(c) ==
  LET v == FirstOf(<<c.defaults>>, "find_multipaths_timeout", -10)
  IN  IF v >= 0 THEN v ELSE IF c.hwe = <<>> THEN 1 ELSE -v
select_vpd_vendor_id(c) == FirstOf(c.hwe, "vpd_vendor", 0)

(***************************** the operations ******************************)
\* setup_map(): the selectors in the order of the code. The flag that
\* disables queueing goes as soon as the map has paths.
select_properties(c, h, m0) ==
  LET m1  == select_pgpolicy(c, select_pgfailback(c, m0))
      m2  == select_no_path_retry(c, select_selector(c, m1))
      m3  == select_features(c, select_retain_hwhandler(c, h, m2))
      m4  == select_rr_weight(c, select_hwhandler(c, h, m3))
      m5  == select_gid(c, select_uid(c, select_mode(c, select_minio(c, h, m4))))
      m6  == select_dev_loss(c, select_fast_io_fail(c, m5))
      m7  == select_deferred_remove(c, select_reservation_key(c, m6))
      m8  == select_marginal_path_err_rate_threshold(c,
               select_marginal_path_err_sample_time(c, m7))
      m9  == select_marginal_path_double_failed_time(c,
               select_marginal_path_err_recheck_gap_time(c, m8))
      m10 == select_san_path_err_forget_rate(c, select_san_path_err_threshold(c, m9))
      m11 == select_delay_checks(c, select_san_path_err_recovery_time(c, m10))
      m12 == select_max_sectors_kb(c, select_skip_kpartx(c, m11))
  IN  select_flush_on_last_del(c, select_ghost_delay(c, m12))
\* A map without paths has no mpp->hwe.
SetupMap(c, h, m) ==
  select_properties(IF h.tpgs = <<>> THEN [c EXCEPT !.hwe = <<>>] ELSE c, h,
    IF h.tpgs # <<>> THEN Put(m, "disable_queueing", FALSE) ELSE m)

\* add_map_with_path(), setup_map().
NewMap(c) ==
  [o \in {"alias", "disable_queueing"} |-> IF o = "alias" THEN SelectAlias(c) ELSE FALSE]
Fresh(c, h) == SetupMap(c, h, NewMap(c))
SelectPath(c, h) ==
  [checker |-> IF h.tpgs = <<>> THEN "" ELSE select_checker(c, h),
   prio |-> IF h.tpgs = <<>> THEN "" ELSE select_prio(c, h),
   uid |-> select_getuid(c),
   timeout |-> select_find_multipaths_timeout(c),
   vpd |-> select_vpd_vendor_id(c)]

SelInit ==
  /\ layers \in LayerSets /\ hw \in {h \in Hardware : h.tpgs # <<>>}
  /\ smp = Fresh(layers, hw)
  /\ spp = SelectPath(layers, hw)
  /\ asked = "setup"

\* reload_map(), resize_map(), ev_add_path() after paths came or went; with
\* other hardware the first path is another one.
Reload(h) ==
  /\ hw' = h
  /\ smp' = SetupMap(layers, h, smp)
  /\ spp' = IF h.tpgs = <<>> THEN spp ELSE SelectPath(layers, h)
  /\ asked' = "setup"
  /\ UNCHANGED layers
\* reconfigure() frees all maps and reads them anew.
Reconfigure(c) ==
  /\ layers' = c
  /\ smp' = Fresh(c, hw)
  /\ spp' = IF hw.tpgs = <<>> THEN spp ELSE SelectPath(c, hw)
  /\ asked' = "setup"
  /\ UNCHANGED hw
cli_disable_queueing ==
  /\ smp' = Put(Put(smp, "no_path_retry", "fail"), "disable_queueing", TRUE)
  /\ asked' = "cli"
  /\ UNCHANGED <<layers, hw, spp>>
\* Only the flag is reset (mutant).
cli_restore_queueing_Flag ==
  /\ smp' = Put(smp, "disable_queueing", FALSE)
  /\ asked' = "setup"
  /\ UNCHANGED <<layers, hw, spp>>
cli_restore_queueing ==
  /\ smp' = select_no_path_retry(layers, Put(smp, "disable_queueing", FALSE))
  /\ asked' = "setup"
  /\ UNCHANGED <<layers, hw, spp>>
\* ev_remove_path() of the last path: flush_map() fails since the map is in
\* use, or leaves the removal to the kernel, and the map is set up.
LastPathRemoved ==
  /\ hw.tpgs # <<>>
  /\ hw' = [hw EXCEPT !.tpgs = <<>>, !.dh_state = <<>>]
  /\ LET off == IF smp["flush_on_last_del"] = "yes"
                THEN Put(Put(smp, "no_path_retry", "fail"), "disable_queueing", TRUE)
                ELSE smp
         flushed == IF smp["deferred_remove"] = "no" THEN off
                    ELSE Put(off, "deferred_remove", "in progress")
     IN  smp' = SetupMap(layers, hw', flushed)
  /\ asked' = "flushed"
  /\ UNCHANGED <<layers, spp>>
\* __setup_multipath() of a map that has paths again (update_map()).
dm_cancel_deferred_remove ==
  /\ hw.tpgs # <<>> /\ smp["deferred_remove"] = "in progress"
  /\ smp' = Put(smp, "deferred_remove", "yes")
  /\ UNCHANGED <<layers, hw, spp, asked>>

SelNext ==
  \/ LastPathRemoved \/ dm_cancel_deferred_remove
  \/ \E h \in Hardware : Reload(h)
  \/ \E c \in LayerSets : Reconfigure(c)
  \/ cli_disable_queueing \/ cli_restore_queueing

SelSpec == SelInit /\ [][SelNext]_sel_vars

(****************************** properties *********************************)
(***************************************************************************)
(* What a map is set up with depends on the configuration and the hardware *)
(* and not on what the map went through: after a reload, and after the     *)
(* operator disabled and restored queueing, its properties are those of a  *)
(* map that is new. no_path_retry is excepted if no layer sets it: it has  *)
(* no default, so that "fail" stays after queueing was disabled once.      *)
(***************************************************************************)
SelectStable ==
  LET fresh == Fresh(layers, hw)
  IN  asked = "setup" /\ hw.tpgs # <<>> =>
        \A o \in DOMAIN smp \cup DOMAIN fresh :
          \/ o = "no_path_retry" /\ FirstOf(MpLayers(layers), o, "") = ""
          \/ o = "deferred_remove" /\ smp[o] = "in progress"
          \/ o \in DOMAIN smp \cap DOMAIN fresh /\ smp[o] = fresh[o]

(***************************************************************************)
(* ALUA is only used where the storage supports it, whatever the           *)
(* configuration, the kernel and detection say: the hardware handler needs *)
(* a path that supports it and no path that does not, the prioritizer a    *)
(* path that is not known not to.                                          *)
(***************************************************************************)
AluaSupported ==
  hw.tpgs # <<>> =>
    /\ smp["hardware_handler"] = "alua" => all_tpgs(hw)
    /\ spp.prio = "alua" => hw.tpgs[1] # "none"

(***************************************************************************)
(* The selected properties are those that the configuration asks for and   *)
(* the hardware supports.                                                  *)
(***************************************************************************)
SelectedRight == SelectStable /\ AluaSupported

(***************************************************************************)
(* multipath.conf.5, "Shaky paths detection": "If the marginal_path method *)
(* is active, the san_path_err parameters are implicitly set to 0." The    *)
(* code does not keep this: select_delay_checks() tests the san_path_err   *)
(* parameters, which the marginal_path method has just set to "no", and    *)
(* sets them from delay_watch_checks and delay_wait_checks.                *)
(***************************************************************************)
MarginalExclusive ==
  marginal_path_check_enabled(smp) => ~san_path_check_enabled(smp)
=============================================================================
