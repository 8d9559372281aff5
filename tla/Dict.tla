-------------------------------- MODULE Dict --------------------------------
(***************************************************************************)
(* The options of multipath.conf (libmultipath/dict.c): how the text of a  *)
(* line is parsed into the value the program keeps, and how "show config"  *)
(* and "multipath -t/-T" print that value again.                           *)
(*                                                                         *)
(* Every integer option keeps 0 for "not set". A text is one of            *)
(*   <<"w", word>>   a word, quoted or not                                 *)
(*   <<"d", n>>      the decimal numeral of n                              *)
(*   <<"o", n>>      the octal numeral of n with a leading 0               *)
(*   <<"k", n>>, <<"f", n>>  a reservation key in hexadecimal, without and *)
(*                   with the flag ":aptpl"                                *)
(*   <<"l", s>>      the words s in quotes; <<"u", s>> without quotes      *)
(*   None            nothing is printed                                    *)
(* A value that is a string is kept as its text.                           *)
(***************************************************************************)
EXTENDS Integers, Sequences

None == <<"none">>
Null == <<"null">>            \* a string option that is not set
Sections == {"defaults", "devices", "overrides", "multipaths"}

(************************** numerals and words *****************************)
\* A decimal reading of octal digits, and an octal one of decimal digits.
\* Three digits are enough for the numbers of the models.
OctAsDec(n) == 100 * (n \div 64) + 10 * ((n \div 8) % 8) + (n % 8)
DecAsOct(n) == 64 * (n \div 100) + 8 * ((n \div 10) % 10) + (n % 10)

\* What set_value() leaves of the line: of words that are not in quotes only
\* the first one.
set_value(t) == IF t[1] = "u" THEN <<"l", <<t[2][1]>>>> ELSE t

IsNumeral(t) == t[1] \in {"d", "o"}
\* strtol(..., 10), sscanf("%d"), atoi(): 0 for a word.
atoi(t) ==
  CASE t[1] = "d" -> t[2]
    [] t[1] = "o" -> OctAsDec(t[2])
    [] OTHER -> 0
Is(t, word) == t = <<"w", word>>
\* The value the line leaves: rc # 0 is a parsing failure, and then the
\* option keeps its value.
Ok(v) == [rc |-> 0, v |-> v]
Bad(old) == [rc |-> 1, v |-> old]
Quoted(word) == <<"w", word>>

(*************************** the basic handlers ****************************)
YN_NO == 0
YN_YES == 1
YNU_UNDEF == 0
YNU_NO == 1
YNU_YES == 2

set_int(t, old) == IF IsNumeral(t) THEN Ok(atoi(t)) ELSE Bad(old)
set_uint(t, old) ==
  IF IsNumeral(t) /\ atoi(t) >= 0 THEN Ok(atoi(t)) ELSE Bad(old)
set_str(t, old) == Ok(t)
set_yes_no(t, old) ==
  IF Is(t, "yes") \/ t = <<"d", 1>> THEN Ok(YN_YES) ELSE Ok(YN_NO)
set_yes_no_undef(t, old) ==
  IF Is(t, "no") \/ t = <<"d", 0>> THEN Ok(YNU_NO)
  ELSE IF Is(t, "yes") \/ t = <<"d", 1>> THEN Ok(YNU_YES)
  ELSE Ok(YNU_UNDEF)

print_int(v) == <<"d", v>>
print_nonzero(v) == IF v = 0 THEN None ELSE <<"d", v>>
\* A quotation mark in the string is printed twice, which alloc_strvec()
\* reads as one.
print_str(v) == IF v = Null THEN None ELSE v
print_yes_no(v) == Quoted(IF v = YN_NO THEN "no" ELSE "yes")
print_yes_no_undef(v) ==
  IF v = YNU_UNDEF THEN None ELSE Quoted(IF v = YNU_NO THEN "no" ELSE "yes")

(************************* handlers of one option **************************)
MaxUint == 999        \* CHECKINT_UNDEF, MAX_DEV_LOSS_TMO: UINT_MAX
checkint_handler(t, old) ==
  LET r == set_uint(t, old)
  IN  IF r.rc = 0 /\ r.v = MaxUint THEN Ok(MaxUint - 1) ELSE r

def_partition_delim_handler(t, old) ==
  IF Is(t, "/UNSET/") THEN Ok(Null) ELSE Ok(t)
\* default_partition_delim is NULL.
snprint_def_partition_delim(v) == print_str(v)

find_multipaths_optvals == <<"off", "on", "greedy", "smart", "strict">>
DEFAULT_FIND_MULTIPATHS == 5
def_find_multipaths_handler(t, old) ==
  LET yn == set_yes_no_undef(t, old).v
      i  == {n \in DOMAIN find_multipaths_optvals :
               Is(t, find_multipaths_optvals[n])}
  IN  IF yn # YNU_UNDEF THEN Ok(yn)
      ELSE IF i # {} THEN Ok(CHOOSE n \in i : TRUE)
      ELSE Ok(DEFAULT_FIND_MULTIPATHS)
snprint_def_find_multipaths(v) == Quoted(find_multipaths_optvals[v])

\* uid_attrs is kept as the sequence of its records "type:attribute"; a
\* record without a colon is left out (parse_uid_attrs()).
uid_attrs_handler(t, old) ==
  IF t[1] = "l"
  THEN Ok(<<"l", SelectSeq(t[2], LAMBDA w : w # "nocolon")>>)
  ELSE Ok(<<"l", <<>>>>)
snprint_uid_attrs(v) == IF v[2] = <<>> THEN None ELSE <<"u", v[2]>>

snprint_def_queue_without_daemon(v) ==
  Quoted(CASE v = 0 -> "no" [] v = 1 -> "yes" [] v = 2 -> "forced")

\* mode, uid and gid: 0 stands for a clear bit in attribute_flags, n + 1 for
\* the value n. getpwnam_r() knows one user, root.
set_mode(t, old) ==
  LET m == IF t[1] = "o" THEN t[2] ELSE DecAsOct(t[2])
  IN  IF IsNumeral(t) /\ t[2] >= 0 /\ m <= 511 THEN Ok(m + 1) ELSE Ok(old)
set_uid(t, old) ==
  IF Is(t, "root") THEN Ok(1)
  ELSE IF IsNumeral(t) /\ atoi(t) >= 0 THEN Ok(atoi(t) + 1) ELSE Ok(old)
print_mode(v) == IF v = 0 THEN None ELSE <<"o", v - 1>>
print_uid(v) == IF v = 0 THEN None ELSE <<"o", v - 1>>

MP_FAST_IO_FAIL_OFF == -1
MP_FAST_IO_FAIL_ZERO == -2
set_fast_io_fail(t, old) ==
  IF Is(t, "off") THEN Ok(MP_FAST_IO_FAIL_OFF)
  ELSE IF ~IsNumeral(t) \/ atoi(t) < MP_FAST_IO_FAIL_ZERO THEN Ok(0)
  ELSE IF atoi(t) = 0 THEN Ok(MP_FAST_IO_FAIL_ZERO) ELSE Ok(atoi(t))
print_fast_io_fail(v) ==
  CASE v = 0 -> None
    [] v = MP_FAST_IO_FAIL_OFF -> Quoted("off")
    [] v = MP_FAST_IO_FAIL_ZERO -> <<"d", 0>>
    [] OTHER -> <<"d", v>>

\* sscanf("%u") of a negative number wraps to a large one.
set_dev_loss(t, old) ==
  IF Is(t, "infinity") THEN Ok(MaxUint)
  ELSE IF ~IsNumeral(t) THEN Ok(0)
  ELSE IF atoi(t) < 0 THEN Ok(MaxUint + 1 + atoi(t)) ELSE Ok(atoi(t))
print_dev_loss(v) ==
  IF v = 0 THEN None ELSE IF v >= MaxUint THEN Quoted("infinity") ELSE <<"d", v>>

pgpolicy_names == <<"failover", "multibus", "group_by_serial",
                    "group_by_prio", "group_by_node_name">>
get_pgpolicy_id(t) ==
  LET i == {n \in DOMAIN pgpolicy_names : Is(t, pgpolicy_names[n])}
  IN  IF i = {} THEN 0 ELSE CHOOSE n \in i : TRUE
set_pgpolicy(t, old) == Ok(get_pgpolicy_id(t))
print_pgpolicy(v) == IF v = 0 THEN None ELSE Quoted(pgpolicy_names[v])

SysMaxFds == 64       \* /proc/sys/fs/nr_open
max_fds_handler(t, old) ==
  IF Is(t, "max") \/ atoi(t) > SysMaxFds THEN Ok(SysMaxFds) ELSE Ok(atoi(t))
snprint_max_fds(v) ==
  IF v = 0 THEN None
  ELSE IF v >= SysMaxFds THEN Quoted("max") ELSE <<"d", v>>

RR_WEIGHT_NONE == 1
RR_WEIGHT_PRIO == 2
set_rr_weight(t, old) ==
  IF Is(t, "priorities") THEN Ok(RR_WEIGHT_PRIO)
  ELSE IF Is(t, "uniform") THEN Ok(RR_WEIGHT_NONE) ELSE Ok(old)
print_rr_weight(v) ==
  CASE v = RR_WEIGHT_PRIO -> Quoted("priorities")
    [] v = RR_WEIGHT_NONE -> Quoted("uniform")
    [] OTHER -> None

failback_names == <<"manual", "immediate", "followover">>
set_pgfailback(t, old) ==
  LET i == {n \in DOMAIN failback_names : Is(t, failback_names[n])}
  IN  IF i # {} THEN Ok(-(CHOOSE n \in i : TRUE)) ELSE Ok(atoi(t))
print_pgfailback(v) ==
  IF v = 0 THEN None
  ELSE IF -v \in DOMAIN failback_names THEN Quoted(failback_names[-v])
  ELSE <<"d", v>>

NO_PATH_RETRY_UNDEF == 0
NO_PATH_RETRY_FAIL == -1
NO_PATH_RETRY_QUEUE == -2
no_path_retry_helper(t, old) ==
  IF Is(t, "fail") \/ t = <<"d", 0>> THEN Ok(NO_PATH_RETRY_FAIL)
  ELSE IF Is(t, "queue") THEN Ok(NO_PATH_RETRY_QUEUE)
  ELSE IF atoi(t) < 1 THEN Ok(NO_PATH_RETRY_UNDEF) ELSE Ok(atoi(t))
print_no_path_retry(v) ==
  CASE v = NO_PATH_RETRY_UNDEF -> None
    [] v = NO_PATH_RETRY_FAIL -> Quoted("fail")
    [] v = NO_PATH_RETRY_QUEUE -> Quoted("queue")
    [] OTHER -> <<"d", v>>

def_log_checker_err_handler(t, old) ==
  IF Is(t, "once") THEN Ok(1) ELSE IF Is(t, "always") THEN Ok(0) ELSE Ok(old)
snprint_def_log_checker_err(v) == Quoted(IF v = 1 THEN "once" ELSE "always")

\* The key, its flags and prkey_source: None, the word "file", or the text
\* of the key. Hexadecimal digits are all that parse_prkey() takes.
set_reservation_key(t, old) ==
  CASE Is(t, "file") -> Ok(<<"w", "file">>)
    [] t[1] \in {"k", "f"} -> Ok(t)
    [] t[1] = "d" /\ t[2] >= 0 -> Ok(<<"k", t[2]>>)
    [] OTHER -> Bad(old)
print_reservation_key(v) == v

NU_NO == -1
NU_UNDEF == 0
set_off_int_undef(t, old) ==
  IF Is(t, "no") \/ t = <<"d", 0>> THEN Ok(NU_NO)
  ELSE IF atoi(t) < 1 THEN Ok(NU_UNDEF) ELSE Ok(atoi(t))
\* "no" is printed as the number that stands for it (mutant).
print_off_int_undef_Number(v) == IF v = NU_UNDEF THEN None ELSE <<"d", v>>
print_off_int_undef(v) ==
  CASE v = NU_UNDEF -> None
    [] v = NU_NO -> Quoted("no")
    [] OTHER -> <<"d", v>>

DEFAULT_REPLY_TIMEOUT == 4
def_uxsock_timeout_handler(t, old) ==
  IF atoi(t) > DEFAULT_REPLY_TIMEOUT THEN Ok(atoi(t)) ELSE Ok(DEFAULT_REPLY_TIMEOUT)

hw_vpd_vendor_handler(t, old) == IF Is(t, "hp3par") THEN Ok(1) ELSE Ok(0)
snprint_hw_vpd_vendor(v) == IF v = 1 THEN Quoted("hp3par") ELSE None

(****************************** the keywords *******************************)
(* The options by the functions that parse and print them: the declare_... *)
(* lines of dict.c.                                                        *)
(***************************************************************************)
StrOptions ==
  {"multipath_dir", "bindings_file", "wwids_file", "prkeys_file",
   "enable_foreign", "config_dir", "path_selector", "uid_attribute",
   "getuid_callout", "prio", "prio_args", "features", "path_checker",
   "alias_prefix", "hardware_handler", "vendor", "product", "revision",
   "product_blacklist", "wwid", "alias"}
IntOptions == {"verbosity", "retrigger_tries", "retrigger_delay",
               "missing_uev_wait_timeout", "remove_retries",
               "find_multipaths_timeout"}
NonzeroOptions == {"checker_timeout", "max_sectors_kb"}
MinioOptions == {"rr_min_io", "rr_min_io_rq"}
YesNoOptions == {"reassign_maps", "allow_usb_devices", "force_sync",
                 "strict_timing", "marginal_pathgroups"}
YesNoUndefOptions ==
  {"flush_on_last_del", "user_friendly_names", "retain_attached_hw_handler",
   "detect_prio", "detect_checker", "deferred_remove", "skip_kpartx",
   "all_tg_pt"}
OffIntOptions ==
  {"delay_watch_checks", "delay_wait_checks", "san_path_err_threshold",
   "san_path_err_forget_rate", "san_path_err_recovery_time",
   "marginal_path_err_sample_time", "marginal_path_err_rate_threshold",
   "marginal_path_err_recheck_gap_time", "marginal_path_double_failed_time",
   "ghost_delay"}

\* Where an option may be given: init_keywords().
MultipathKeywords ==
  {"wwid", "alias", "path_grouping_policy", "path_selector", "prio",
   "prio_args", "failback", "rr_weight", "no_path_retry", "rr_min_io",
   "rr_min_io_rq", "flush_on_last_del", "features", "mode", "uid", "gid",
   "reservation_key", "user_friendly_names", "deferred_remove",
   "skip_kpartx", "max_sectors_kb"} \cup OffIntOptions
OverrideKeywords ==
  {"path_grouping_policy", "uid_attribute", "getuid_callout",
   "path_selector", "path_checker", "alias_prefix", "features", "prio",
   "prio_args", "failback", "rr_weight", "no_path_retry", "rr_min_io",
   "rr_min_io_rq", "fast_io_fail_tmo", "dev_loss_tmo", "max_sectors_kb"}
  \cup YesNoUndefOptions \cup OffIntOptions
DeviceKeywords ==
  OverrideKeywords \cup
  {"vendor", "product", "revision", "product_blacklist", "hardware_handler",
   "vpd_vendor"}
DefaultKeywords ==
  (OverrideKeywords \cup IntOptions \cup NonzeroOptions \cup YesNoOptions
   \cup StrOptions \cup
   {"polling_interval", "max_polling_interval", "uid_attrs", "max_fds",
    "queue_without_daemon", "mode", "uid", "gid", "log_checker_err",
    "reservation_key", "partition_delimiter", "find_multipaths",
    "uxsock_timeout"})
  \ {"hardware_handler", "vendor", "product", "revision",
     "product_blacklist", "wwid", "alias"}
Keywords(sect) ==
  CASE sect = "defaults" -> DefaultKeywords
    [] sect = "devices" -> DeviceKeywords
    [] sect = "overrides" -> OverrideKeywords
    [] sect = "multipaths" -> MultipathKeywords

\* The handler of a keyword: what the line "kw t" leaves in place of old.
handler(kw, t0, old) ==
  LET t == set_value(t0)
  IN CASE kw \in StrOptions -> set_str(t, old)
     [] kw \in IntOptions \cup NonzeroOptions \cup MinioOptions -> set_int(t, old)
     [] kw \in YesNoOptions \cup {"queue_without_daemon"} -> set_yes_no(t, old)
     [] kw \in YesNoUndefOptions -> set_yes_no_undef(t, old)
     [] kw \in OffIntOptions -> set_off_int_undef(t, old)
     [] kw = "polling_interval" -> checkint_handler(t, old)
     [] kw = "max_polling_interval" -> set_uint(t, old)
     [] kw = "partition_delimiter" -> def_partition_delim_handler(t, old)
     [] kw = "find_multipaths" -> def_find_multipaths_handler(t, old)
     [] kw = "uid_attrs" -> uid_attrs_handler(t, old)
     [] kw = "mode" -> set_mode(t, old)
     [] kw \in {"uid", "gid"} -> set_uid(t, old)
     [] kw = "fast_io_fail_tmo" -> set_fast_io_fail(t, old)
     [] kw = "dev_loss_tmo" -> set_dev_loss(t, old)
     [] kw = "path_grouping_policy" -> set_pgpolicy(t, old)
     [] kw = "max_fds" -> max_fds_handler(t, old)
     [] kw = "rr_weight" -> set_rr_weight(t, old)
     [] kw = "failback" -> set_pgfailback(t, old)
     [] kw = "no_path_retry" -> no_path_retry_helper(t, old)
     [] kw = "log_checker_err" -> def_log_checker_err_handler(t, old)
     [] kw = "reservation_key" -> set_reservation_key(t, old)
     [] kw = "uxsock_timeout" -> def_uxsock_timeout_handler(t, old)
     [] kw = "vpd_vendor" -> hw_vpd_vendor_handler(t, old)

\* declare_def_snprint_defstr and _defint: the default printed for an option
\* of the defaults section that is not set.
IsString(kw) == kw \in StrOptions \cup {"partition_delimiter"}
PrintedStr(kw) ==
  CASE kw = "path_selector" -> <<"w", "service-time 0">>
    [] kw = "uid_attribute" -> <<"w", "ID_SERIAL">>
    [] kw = "prio" -> <<"w", "const">>
    [] kw = "alias_prefix" -> <<"w", "mpath">>
    [] kw = "prio_args" -> <<"w", "">>
    [] kw = "features" -> <<"w", "0">>
    [] kw = "path_checker" -> <<"w", "tur">>
    [] kw = "enable_foreign" -> <<"w", "NONE">>
    [] OTHER -> Null
PrintedInt(kw) ==
  CASE kw = "rr_min_io" -> 1000
    [] kw \in {"rr_min_io_rq", "rr_weight", "path_grouping_policy"} -> 1
    [] kw \in {"retain_attached_hw_handler", "detect_prio", "detect_checker"} -> YNU_YES
    [] kw \in YesNoUndefOptions \ {"retain_attached_hw_handler", "detect_prio",
                                   "detect_checker"} -> YNU_NO
    [] kw \in OffIntOptions \ {"ghost_delay"} -> NU_NO
    [] kw = "find_multipaths_timeout" -> -10
    [] kw = "fast_io_fail_tmo" -> 5
    [] kw = "failback" -> -1
    [] OTHER -> 0
Printed(kw) == IF IsString(kw) THEN PrintedStr(kw) ELSE PrintedInt(kw)

IsSet(kw, v) ==
  IF IsString(kw) THEN v # Null
  ELSE IF kw \in {"uid_attrs", "reservation_key"} THEN TRUE ELSE v # 0

\* The printer of a keyword in a section.
snprint(sect, kw, v0) ==
  LET v == IF sect = "defaults" /\ ~IsSet(kw, v0) THEN Printed(kw) ELSE v0
  IN CASE kw \in StrOptions -> print_str(v)
     [] kw \in MinioOptions ->
          IF sect = "defaults" THEN print_int(v) ELSE print_nonzero(v)
     [] kw \in IntOptions \cup {"polling_interval", "max_polling_interval",
               "uxsock_timeout"} -> print_int(v)
     [] kw \in NonzeroOptions -> print_nonzero(v)
     [] kw \in YesNoOptions -> print_yes_no(v)
     [] kw \in YesNoUndefOptions -> print_yes_no_undef(v)
     [] kw \in OffIntOptions -> print_off_int_undef(v)
     [] kw = "partition_delimiter" -> snprint_def_partition_delim(v)
     [] kw = "find_multipaths" -> snprint_def_find_multipaths(v)
     [] kw = "uid_attrs" -> snprint_uid_attrs(v)
     [] kw = "queue_without_daemon" -> snprint_def_queue_without_daemon(v)
     [] kw = "mode" -> print_mode(v)
     [] kw \in {"uid", "gid"} -> print_uid(v)
     [] kw = "fast_io_fail_tmo" -> print_fast_io_fail(v)
     [] kw = "dev_loss_tmo" -> print_dev_loss(v)
     [] kw = "path_grouping_policy" -> print_pgpolicy(v)
     [] kw = "max_fds" -> snprint_max_fds(v)
     [] kw = "rr_weight" -> print_rr_weight(v)
     [] kw = "failback" -> print_pgfailback(v)
     [] kw = "no_path_retry" -> print_no_path_retry(v)
     [] kw = "log_checker_err" -> snprint_def_log_checker_err(v)
     [] kw = "reservation_key" -> print_reservation_key(v)
     [] kw = "vpd_vendor" -> snprint_hw_vpd_vendor(v)

\* What load_config() and MALLOC() leave in an option that no line gives.
Initial(sect, kw) ==
  IF IsString(kw) THEN Null
  ELSE IF kw = "uid_attrs" THEN <<"l", <<>>>>
  ELSE IF kw = "reservation_key" THEN None
  ELSE IF sect # "defaults" THEN 0
  ELSE CASE kw = "verbosity" -> 2
         [] kw = "max_fds" -> SysMaxFds
         [] kw = "polling_interval" -> 5
         [] kw = "max_polling_interval" -> 20
         [] kw = "find_multipaths" -> DEFAULT_FIND_MULTIPATHS
         [] kw = "uxsock_timeout" -> DEFAULT_REPLY_TIMEOUT
         [] kw = "retrigger_tries" -> 3
         [] kw = "retrigger_delay" -> 10
         [] kw = "missing_uev_wait_timeout" -> 30
         [] kw = "ghost_delay" -> NU_NO
         [] kw = "all_tg_pt" -> YNU_NO
         [] OTHER -> 0

(***************************************************************************)
(* One option of one section while the configuration file is edited and    *)
(* read: Give writes a line for it, ReadBack replaces the file by what the *)
(* program prints.                                                         *)
(***************************************************************************)
CONSTANTS Texts       \* the texts that users write

\* Numerals in decimal are of three digits.
IsText(t) ==
  /\ t = <<t[1], t[2]>> /\ t[1] \in {"w", "d", "o", "k", "f", "l", "u"}
  /\ t[1] = "d" => t[2] \in -MaxUint..MaxUint
  /\ t[1] = "o" => t[2] \in 0..511
  /\ t[1] \in {"k", "f"} => t[2] \in Nat
ASSUME DictAssumption == \A t \in Texts : IsText(t)

VARIABLES
  opt_sect,      \* the section
  opt,           \* the keyword
  stored         \* the option's value in struct config, hwentry or mpentry
dict_vars == <<opt_sect, opt, stored>>

DictInit ==
  /\ opt_sect \in Sections /\ opt \in Keywords(opt_sect)
  /\ stored = Initial(opt_sect, opt)

Give(t) ==
  /\ stored' = handler(opt, t, stored).v
  /\ UNCHANGED <<opt_sect, opt>>

\* Configuration files are read into a new struct config.
Reread ==
  LET t == snprint(opt_sect, opt, stored)
  IN  IF t = None THEN Initial(opt_sect, opt)
      ELSE handler(opt, t, Initial(opt_sect, opt)).v
\* uid and gid grow each time: MaxUid bounds them.
MaxUid == 64
ReadBack ==
  /\ opt \in {"uid", "gid"} => stored <= MaxUid
  /\ stored' = Reread
  /\ UNCHANGED <<opt_sect, opt>>

DictNext == (\E t \in Texts : Give(t)) \/ ReadBack
DictSpec == DictInit /\ [][DictNext]_dict_vars

\* The value that counts: propsel.c takes the default for an option that is
\* not set anywhere.
Effective(v) ==
  IF opt_sect # "defaults" \/ IsSet(opt, v) THEN v
  ELSE IF opt = "ghost_delay" THEN NU_NO ELSE Printed(opt)

(***************************************************************************)
(* The printed configuration can be used as a configuration file           *)
(* (multipath.8, -T): reading it back leaves every option with the value   *)
(* it had. Four options are excepted: uid and gid are printed in octal and *)
(* read in decimal, uid_attrs is printed without quotes so that its first  *)
(* record is all that is read, and a limit of 0 for max_fds prints nothing *)
(* and reads as the default.                                               *)
(***************************************************************************)
NotReadable == {"uid", "gid", "uid_attrs", "max_fds"}
RoundTrip == opt \in NotReadable \/ Effective(Reread) = Effective(stored)
=============================================================================
