------------------------------ MODULE MC_Inputs ------------------------------
(***************************************************************************)
(* What is made of input from outside: of an option, of configuration      *)
(* files, of them a map's properties, its table and its name, of commands  *)
(* on the socket, and of a new device. The modules share no state: a       *)
(* behaviour is one of one of them, chosen initially, and the others keep  *)
(* an initial state.                                                       *)
(***************************************************************************)
EXTENDS Dict, Config, PropSelect, MapSetup, Aliases, UxSocket, Claim

VARIABLE runs    \* the component that runs

(* Dict: words that some handler knows, numbers at the boundaries.         *)
const_Texts ==
  {<<"w", x>> : x \in
     {"yes", "no", "off", "on", "strict", "queue", "fail", "infinity", "max", "root",
      "file", "hp3par", "failover", "group_by_prio", "priorities", "uniform", "manual",
      "followover", "once", "/UNSET/", ""}}
  \cup {<<"d", n>> : n \in {-3, -2, -1, 0, 1, 7, 64, 100, 999}}
  \cup {<<"k", 5>>, <<"f", 5>>, <<"l", <<"a:b", "c:d">>>>, <<"l", <<"nocolon">>>>}

(* Config: a table of three built-in entries, two for the same product.    *)
const_Builtin ==
  <<("product" :> {"p1"}) @@ ("no_path_retry" :> "12") @@ ("prio_args" :> "b")
      @@ ("product_blacklist" :> {"d"}),
    ("product" :> {"p2"}) @@ ("features" :> {"pg_init"}),
    ("product" :> {"p1"}) @@ ("prio_args" :> "c")>>
const_Devices ==
  {("product" :> {"p1"}) @@ ("no_path_retry" :> "fail"),
   ("product" :> {"p1"}) @@ ("features" :> {"queue_if_no_path"}),
   ("product" :> {"p2"}) @@ ("features" :> {"queue_if_no_path"}),
   ("product" :> {"p2"}) @@ ("prio_args" :> ""),
   ("product" :> {"p1", "p2"}) @@ ("prio_args" :> "x"),
   ("product" :> {"p1", "p2"}) @@ ("no_path_retry" :> "5") @@ ("prio_args" :> "y"),
   ("no_path_retry" :> "7")}
const_Multipaths ==
  {("wwid" :> "w1") @@ ("alias" :> "a") @@ ("no_path_retry" :> "fail"),
   ("wwid" :> "w1") @@ ("alias" :> "b") @@ ("mode" :> 6),
   ("wwid" :> "w1") @@ ("uid" :> 6),
   ("wwid" :> "w2") @@ ("no_path_retry" :> "queue"),
   ("wwid" :> "w1") @@ ("no_path_retry" :> "queue") @@ ("rejected" :> 0)}
const_Overrides == {"no_path_retry" :> "3"}
const_Defaults == {"no_path_retry" :> "4"}
const_BlEntries ==
  {[match |-> {"sda"}, invert |-> FALSE], [match |-> {"ID_SERIAL"}, invert |-> FALSE],
   [match |-> {"ID_WWN"}, invert |-> TRUE]}

const_FilterPaths ==
  {[devnode |-> d, property |-> pr, uid_attribute |-> "ID_SERIAL", device |-> p,
    protocol |-> "scsi:fcp", wwid |-> "w1"] :
     d \in {"sda", "loop0"}, p \in {"p1", "d"},
     pr \in {<<"ID_SERIAL">>, <<"ID_SERIAL", "ID_WWN">>, <<"DEVNAME">>}}

(* PropSelect: configurations with an option in one layer and in several.  *)
NoLayers == [mpe |-> <<>>, overrides |-> <<>>, hwe |-> <<>>, defaults |-> <<>>, cmdline |-> <<>>]
const_Queue == "no_path_retry" :> "queue"
const_Fail == "no_path_retry" :> "fail"
const_Alua == <<("hardware_handler" :> "alua") @@ ("prio" :> "alua"),
                ("features" :> {"queue_if_no_path"}) @@ ("hardware_handler" :> "emc")>>
const_LayerSets ==
  {NoLayers,
   [NoLayers EXCEPT !.mpe = const_Queue, !.overrides = const_Fail],
   [NoLayers EXCEPT !.mpe = const_Queue, !.hwe = const_Alua],
   [NoLayers EXCEPT !.hwe = const_Alua],
   [NoLayers EXCEPT !.hwe = const_Alua, !.overrides = ("detect_prio" :> "no")
                    @@ ("user_friendly_names" :> "yes") @@ ("alias_prefix" :> "lun")],
   [NoLayers EXCEPT !.mpe = ("prio" :> "alua") @@ ("delay_watch_checks" :> 3)
                              @@ ("delay_wait_checks" :> 2),
                    !.overrides = "san_path_err_threshold" :> 4],
   [NoLayers EXCEPT !.defaults = [o \in MarginalOptions |-> 5]],
   [NoLayers EXCEPT !.defaults = [o \in MarginalOptions |-> 5],
                    !.mpe = ("delay_watch_checks" :> 3) @@ ("delay_wait_checks" :> 2)],
   [NoLayers EXCEPT !.overrides = const_Fail,
                    !.defaults = ("features" :> {"queue_if_no_path"})
                                   @@ ("deferred_remove" :> "yes")],
   [NoLayers EXCEPT !.hwe = const_Alua,
                    !.defaults = ("flush_on_last_del" :> "yes") @@ ("mode" :> 384)]}
const_Hardware ==
  {h \in [tpgs : {<<>>, <<"implicit", "undef">>, <<"none", "explicit">>, <<"undef">>},
          dh_state : {<<>>, <<"alua">>}, dm_rq : {TRUE}, dm_retain : {TRUE},
          linux43 : BOOLEAN, rdac : BOOLEAN, sysfs_state : {FALSE}] :
     h.tpgs = <<>> => h.dh_state = <<>>}

(* MapSetup: three paths that differ in serial number, target and host.    *)
const_MPaths == <<"p1", "p2", "p3">>
const_P2 == [p \in {"p1", "p2", "p3"} |-> IF p = "p2" THEN 2 ELSE 1]
const_P3 == [p \in {"p1", "p2", "p3"} |-> IF p = "p3" THEN 2 ELSE 1]
MConf(pol, mg, sel, rr, q, f, h, re, al) ==
  [policy |-> pol, marginal_pathgroups |-> mg, selector |-> sel, minio |-> 1,
   rr_weight |-> rr, queue |-> q, features |-> f, hwhandler |-> h, retain |-> re,
   alias |-> al]
const_MConfs ==
  {MConf("failover", FALSE, "service-time", "uniform", TRUE, <<>>, <<>>, TRUE, "a"),
   MConf("multibus", TRUE, "round-robin", "uniform", FALSE, <<"pg_init_retries">>,
         <<"alua">>, FALSE, "b"),
   MConf("serial", TRUE, "round-robin", "priorities", TRUE, <<>>, <<"alua">>, TRUE, "wwid"),
   MConf("prio", TRUE, "service-time", "uniform", TRUE, <<"pg_init_retries">>, <<>>,
         FALSE, "a"),
   MConf("node", FALSE, "round-robin", "uniform", FALSE, <<>>, <<>>, TRUE, "a")}

(* Aliases: files that are empty, sparse, out of order or inconsistent.    *)
Line(a, w) == [alias |-> a, wwid |-> w]
const_AWwids == {"w1", "w2", "w3"}
const_BindingLines ==
  {<<>>,
   <<Line(<<1>>, "w1"), Line(<<0, 0>>, NoLun)>>,
   <<Line(<<0>>, "w1"), Line(<<0>>, "w2"), Line(<<9>>, "w3")>>,
   <<Line(<<0, 1>>, "w1"), Line(<<0>>, "w3"), Line(<<1>>, NoLun)>>}
const_MpTable == <<Line(<<9>>, "w4"), Line(<<9>>, "w1")>>
const_KernelNames ==
  [w \in const_AWwids |-> CASE w = "w1" -> <<1>> [] w = "w2" -> <<9>> [] w = "w3" -> NoAlias]

(* UxSocket: a command whose reply must grow, and one whose length is not  *)
(* accepted.                                                               *)
const_Commands ==
  {[words |-> <<"list", "pat">>, len |-> 2, show |-> 5],
   [words |-> <<"add", "path", "sda">>, len |-> 9, show |-> 0]}
const_Abbrev == [w \in {"pat", "path"} |-> IF w = "pat" THEN {"path", "paths"} ELSE {"paths"}]

(* Claim: two paths to one LUN.                                            *)
const_Lun == [d \in BlockDevs |-> "w1"]

Init ==
  /\ runs \in {"dict", "conf", "sel", "setup", "alias", "ux", "claim"}
  /\ DictInit /\ (runs # "dict" => opt_sect = "defaults" /\ opt = "no_path_retry")
  /\ ConfInit
  /\ layers \in (IF runs = "sel" THEN LayerSets ELSE {NoLayers})
  /\ hw \in (IF runs = "sel" THEN Hardware ELSE {CHOOSE h \in Hardware : h.tpgs # <<>>})
  /\ SelInit
  /\ mconf \in (IF runs = "setup" THEN MConfs ELSE {CHOOSE c \in MConfs : TRUE})
  /\ MapSetupInit
  /\ files \in (IF runs = "alias" THEN {<<f>> : f \in BindingLines} ELSE {<<<<>>>>})
  /\ AliasInit
  /\ SocketInit /\ ClaimInit

Next ==
  /\ \/ /\ runs = "dict" /\ DictNext
        /\ UNCHANGED <<conf_vars, sel_vars, setup_vars, alias_vars, ux_vars, claim_vars>>
     \/ /\ runs = "conf" /\ ConfNext
        /\ UNCHANGED <<dict_vars, sel_vars, setup_vars, alias_vars, ux_vars, claim_vars>>
     \/ /\ runs = "sel" /\ SelNext
        /\ UNCHANGED <<dict_vars, conf_vars, setup_vars, alias_vars, ux_vars, claim_vars>>
     \/ /\ runs = "setup" /\ MapSetupNext
        /\ UNCHANGED <<dict_vars, conf_vars, sel_vars, alias_vars, ux_vars, claim_vars>>
     \/ /\ runs = "alias" /\ AliasNext
        /\ UNCHANGED <<dict_vars, conf_vars, sel_vars, setup_vars, ux_vars, claim_vars>>
     \/ /\ runs = "ux" /\ UxNext
        /\ UNCHANGED <<dict_vars, conf_vars, sel_vars, setup_vars, alias_vars, claim_vars>>
     \/ /\ runs = "claim" /\ ClaimNext
        /\ UNCHANGED <<dict_vars, conf_vars, sel_vars, setup_vars, alias_vars, ux_vars>>
  /\ UNCHANGED runs

\* UxFair and ClaimFairness of the module that runs: of their actions only the
\* listener can move initially.
Spec ==
  /\ Init
  /\ [][Next]_<<dict_vars, conf_vars, sel_vars, setup_vars, alias_vars, ux_vars, claim_vars, runs>>
  /\ WF_ux_vars(runs = "ux" /\ Listener) /\ WF_ux_vars(ConfigureDone)
  /\ \A c \in UxClients : WF_ux_vars(ClientSteps(c))
  /\ ClaimFairness
=============================================================================
