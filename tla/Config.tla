------------------------------- MODULE Config -------------------------------
(***************************************************************************)
(* Reading the configuration (libmultipath/config.c, blacklist.c, and the  *)
(* section handlers of dict.c): the main file, then the files of           *)
(* config_dir in alphabetical order, then the tables are merged.           *)
(*                                                                         *)
(* A section's options are a function on the options that are set, so that *)
(* a NULL pointer or a 0 is an option outside its domain. Of a device      *)
(* entry, "product" stands for vendor, product and revision: it is the set *)
(* of products that the regular expressions match, and two entries with    *)
(* the same strings have the same set. "features" is a set of words.       *)
(***************************************************************************)
EXTENDS Integers, Sequences, SequencesExt, FiniteSets, TLC

CONSTANTS
  Products, MapWwids,    \* hardware and WWIDs that exist
  Builtin,               \* the built-in hwtable, a sequence of entries
  DeviceEntries,         \* device { } sections that users write
  MultipathEntries,      \* multipath { } sections
  OverrideEntries,       \* the overrides { } section
  DefaultEntries,        \* the defaults { } section
  BlEntries,             \* entries of blacklist and blacklist_exceptions
  FilterPaths,           \* paths to filter, their names by criterion
  MaxEntries             \* how many sections are read

EmptyString == ""
NoOptions == <<>>        \* the function with an empty domain
Attributes == {"mode", "uid"}          \* mode, uid and gid: attribute_flags
\* The string options of merge_hwe() and merge_mpe(), in the order in which
\* they are merged.
HweStrings == <<"product", "features", "prio_args">>
MpeStrings == <<"alias", "features", "prio_args">>
RejectedLine == "rejected"   \* an option whose value its handler rejects

VARIABLES
  conf,       \* struct config: defaults, overrides, hwtable, mptable and the
              \* lists of blacklist and blacklist_exceptions
  phase,      \* "main": in the main file; "dir": in a file of config_dir;
              \* "merge": all files are read; "loaded", "failed"
  errors,     \* the failures that process_stream() counts in this file
  old_size,   \* the size of hwtable before this file
  given,      \* history: the device, multipath and overrides sections read
  bl_given    \* history: the blacklist entries read
conf_vars == <<conf, phase, errors, old_size, given, bl_given>>

(****************************** look-up ************************************)
hwe_strmatch(h1, h2) ==
  /\ ("product" \in DOMAIN h1) = ("product" \in DOMAIN h2)
  /\ "product" \in DOMAIN h1 => h1["product"] = h2["product"]
hwe_regmatch(h, product) ==
  "product" \in DOMAIN h => product \in h["product"]
\* The entries that match, the last one of the table first.
find_hwe(hwtable, product) ==
  SelectSeq(Reverse(hwtable), LAMBDA h : hwe_regmatch(h, product))
\* The first entry with this WWID; NoOptions stands for NULL.
find_mpe(mptable, wwid) ==
  LET m == SelectSeq(mptable, LAMBDA e : e["wwid"] = wwid)
  IN  IF m = <<>> THEN NoOptions ELSE m[1]

(****************************** merging ************************************)
\* Deprecated features that stand for options: used by merge_hwe() and by
\* select_features().
reconcile_features_with_options(o) ==
  LET f == o["features"]
      q == IF "queue_if_no_path" \in f /\ "no_path_retry" \notin DOMAIN o
           THEN "no_path_retry" :> "queue" ELSE NoOptions
      r == IF "retain_attached_hw_handler" \in f
              /\ "retain_attached_hw_handler" \notin DOMAIN o
           THEN "retain_attached_hw_handler" :> "yes" ELSE NoOptions
      g == f \ {"queue_if_no_path", "retain_attached_hw_handler"}
  IN  IF "features" \notin DOMAIN o THEN o
      ELSE ("features" :> g) @@ q @@ r @@ o

\* merge_str() of an empty string fails in set_param_str() and ends the
\* merge: the strings before it are merged, nothing else is.
FirstEmpty(strings, dst, src) ==
  {i \in DOMAIN strings : /\ strings[i] \in DOMAIN src \ DOMAIN dst
                          /\ strings[i] \in {"alias", "prio_args"}
                          /\ src[strings[i]] = EmptyString}
MergeOptions(strings, dst, src) ==
  LET bad == FirstEmpty(strings, dst, src)
      n   == CHOOSE i \in bad : \A j \in bad : i <= j
      got == {strings[i] : i \in 1..(n - 1)} \cap DOMAIN src
  IN  IF bad = {} THEN dst @@ src
      ELSE dst @@ [o \in got |-> src[o]]
merge_hwe(dst, src) ==
  IF FirstEmpty(HweStrings, dst, src) # {}
  THEN MergeOptions(HweStrings, dst, src)
  ELSE reconcile_features_with_options(MergeOptions(HweStrings, dst, src))

\* attribute_flags is merged as one number, the attributes as one number
\* each, and an attribute that is 0 counts as not set.
MergeAttributes(dst, src) ==
  LET flags(e) == Attributes \cap DOMAIN e
      f == IF flags(dst) # {} THEN flags(dst) ELSE flags(src)
      val(e, a) == IF a \in DOMAIN e THEN e[a] ELSE 0
  IN  [a \in f |-> IF val(dst, a) # 0 THEN val(dst, a) ELSE val(src, a)]
merge_mpe(dst, src) ==
  LET e == MergeOptions(MpeStrings, dst, src)
      rest == [o \in DOMAIN e \ Attributes |-> e[o]]
  IN  IF FirstEmpty(MpeStrings, dst, src) # {} THEN e
      ELSE MergeAttributes(dst, src) @@ rest

\* An entry with a later entry for the same WWID is merged into that one.
RECURSIVE MergeFrom(_, _)
MergeFrom(i, t) ==
  LET js == {j \in (i + 1)..Len(t) : t[j]["wwid"] = t[i]["wwid"]}
      j  == CHOOSE k \in js : \A l \in js : k <= l
  IN  IF i > Len(t) THEN t
      ELSE IF js = {} THEN MergeFrom(i + 1, t)
      ELSE MergeFrom(i, RemoveAt([t EXCEPT ![j] = merge_mpe(t[j], t[i])], i))
merge_mptable(t) == MergeFrom(1, t)

\* The entries of one file (those after the first n) are merged with equal
\* ones before them; an entry without a product is dropped.
RECURSIVE FactorizeFrom(_, _, _)
FactorizeFrom(i, hw, n) ==
  LET lo == IF n > i THEN n + 1 ELSE i + 1
      js == {j \in lo..Len(hw) : hwe_strmatch(hw[j], hw[i])}
      j  == CHOOSE k \in js : \A l \in js : k <= l
  IN  IF i > Len(hw) THEN hw
      ELSE IF i > n /\ "product" \notin DOMAIN hw[i]
      THEN FactorizeFrom(i, RemoveAt(hw, i), n)
      ELSE IF js = {} THEN FactorizeFrom(i + 1, hw, n)
      ELSE FactorizeFrom(1, RemoveAt([hw EXCEPT ![j] = merge_hwe(hw[j], hw[i])], i),
                         IF i <= n THEN n - 1 ELSE n)
factorize_hwtable(hw, n) == FactorizeFrom(1, hw, n)

(***************************** blacklists **********************************)
(* An entry [match, invert] matches the names in match, or all others.     *)
(* The lists of blacklist are conf.bl, those of blacklist_exceptions       *)
(* conf.except; a device entry stands for vendor and product.              *)
(***************************************************************************)
Criteria == {"devnode", "wwid", "device", "property", "protocol"}
match_reglist(list, name) ==
  \E i \in DOMAIN list : (name \notin list[i].match) = list[i].invert
\* 1: blacklisted, -1: whitelisted, 0: neither.
filter(bl, except, name) ==
  IF match_reglist(except, name) THEN -1
  ELSE IF match_reglist(bl, name) THEN 1 ELSE 0
\* A path's properties in the order udev lists them. A path that has its
\* uid_attribute but no whitelisted property is rejected.
filter_property(c, pp) ==
  LET verdicts == {i \in DOMAIN pp.property :
        filter(c.bl["property"], c.except["property"], pp.property[i]) # 0}
      i == CHOOSE k \in verdicts : \A l \in verdicts : k <= l
  IN  IF verdicts # {}
      THEN filter(c.bl["property"], c.except["property"], pp.property[i])
      ELSE IF \E k \in DOMAIN pp.property : pp.property[k] = pp.uid_attribute
      THEN 1 ELSE 0
filter_path(c, pp) ==
  LET r(k) == filter(c.bl[k], c.except[k], pp[k])
  IN  \/ filter_property(c, pp) > 0
      \/ r("devnode") > 0 \/ r("device") > 0
      \/ r("protocol") > 0 \/ r("wwid") > 0

\* Equal entries stay (mutant).
merge_blacklist_Not(list) == list
\* Of equal entries the first one stays.
merge_blacklist(list) ==
  LET keep == {i \in DOMAIN list : \A j \in 1..(i - 1) : list[j] # list[i]}
  IN  [k \in 1..Cardinality(keep) |->
         list[CHOOSE i \in keep : Cardinality({j \in keep : j <= i}) = k]]
\* An entry is stored as it is: its text is what is printed and compared.
store_ble(list, b) == Append(list, b)
\* Hardware entries may name products that are not disks.
DefaultDevices(list, hwtable) ==
  FoldLeft(LAMBDA l, h :
      IF "product_blacklist" \notin DOMAIN h THEN l
      ELSE LET b == [match |-> h["product_blacklist"], invert |-> FALSE]
           IN  IF Contains(l, b) THEN l ELSE store_ble(l, b),
    list, hwtable)
setup_default_blist(c) ==
  [c EXCEPT
     !.bl["devnode"] = store_ble(@, [match |-> {"sda"}, invert |-> TRUE]),
     !.except["property"] = store_ble(@, [match |-> {"ID_WWN"}, invert |-> FALSE]),
     !.bl["device"] = DefaultDevices(@, c.hwtable)]

(***************************** reading *************************************)
\* A copy of the entry, unless the table has one with the same strings.
store_hwe(hwtable, h) ==
  IF \E i \in DOMAIN hwtable : hwe_strmatch(hwtable[i], h) THEN hwtable
  ELSE Append(hwtable, h)
setup_default_hwtable == FoldLeft(store_hwe, <<>>, Builtin)
NoLists == [k \in Criteria |-> <<>>]
NewConf == [defaults |-> NoOptions, overrides |-> NoOptions,
            hwtable |-> setup_default_hwtable, mptable |-> <<>>,
            bl |-> NoLists, except |-> NoLists]
ConfInit ==
  /\ conf = NewConf
  /\ phase = "main" /\ errors = 0 /\ old_size = Len(NewConf.hwtable)
  /\ given = <<>> /\ bl_given = 0

Reading == phase \in {"main", "dir"} /\ Len(given) + bl_given < MaxEntries
\* The handlers of a section's lines: an option whose value is rejected is
\* not set, and counts as an error.
Accepted(e) == [o \in DOMAIN e \ {RejectedLine} |-> e[o]]
Errors(e) == Cardinality(DOMAIN e \ DOMAIN Accepted(e))

ReadSection(sect, e, c) ==
  /\ Reading
  /\ conf' = c
  /\ errors' = errors + Errors(e)
  /\ given' = Append(given, [sect |-> sect, e |-> Accepted(e)])
  /\ UNCHANGED <<phase, old_size, bl_given>>
device_handler(e) ==
  ReadSection("devices", e, [conf EXCEPT !.hwtable = Append(@, Accepted(e))])
multipath_handler(e) ==
  ReadSection("multipaths", e, [conf EXCEPT !.mptable = Append(@, Accepted(e))])
overrides_handler(e) ==
  ReadSection("overrides", e, [conf EXCEPT !.overrides = Accepted(e) @@ @])
defaults_section(e) ==
  ReadSection("defaults", e, [conf EXCEPT !.defaults = Accepted(e) @@ @])
\* store_ble(), set_ble_device()
ble_handler(k, list, b) ==
  /\ Reading
  /\ conf' = IF list = "bl" THEN [conf EXCEPT !.bl[k] = store_ble(@, b)]
             ELSE [conf EXCEPT !.except[k] = store_ble(@, b)]
  /\ bl_given' = bl_given + 1
  /\ UNCHANGED <<phase, errors, old_size, given>>

\* The end of a file. A main file with errors is fatal, a file of config_dir
\* is not.
EndMain ==
  /\ phase = "main"
  /\ IF errors > 0 THEN phase' = "failed" /\ UNCHANGED <<conf, old_size>>
     ELSE LET hw == factorize_hwtable(conf.hwtable, old_size)
          IN /\ phase' = "dir"
             /\ conf' = [conf EXCEPT !.hwtable = hw]
             /\ old_size' = Len(hw)
  /\ errors' = 0
  /\ UNCHANGED <<given, bl_given>>
process_config_dir(last) ==
  /\ phase = "dir"
  /\ LET hw == factorize_hwtable(conf.hwtable, old_size)
     IN  conf' = [conf EXCEPT !.hwtable = hw] /\ old_size' = Len(hw)
  /\ errors' = 0
  /\ phase' = IF last THEN "merge" ELSE "dir"
  /\ UNCHANGED <<given, bl_given>>

merge_lists(l) ==
  [k \in Criteria |-> IF k = "protocol" THEN l[k] ELSE merge_blacklist(l[k])]
FillAndMerge(c0) ==
  LET c == setup_default_blist(c0)
  IN  [c EXCEPT !.mptable = merge_mptable(@), !.bl = merge_lists(@),
                !.except = merge_lists(@)]
load_config ==
  /\ phase = "merge"
  /\ conf' = FillAndMerge(conf)
  /\ phase' = "loaded"
  /\ UNCHANGED <<errors, old_size, given, bl_given>>

ConfNext ==
  \/ \E e \in DeviceEntries : device_handler(e)
  \/ \E e \in MultipathEntries : multipath_handler(e)
  \/ \E e \in OverrideEntries : overrides_handler(e)
  \/ \E e \in DefaultEntries : defaults_section(e)
  \/ \E k \in {"devnode", "property"}, l \in {"bl", "except"}, b \in BlEntries :
       ble_handler(k, l, b)
  \/ EndMain
  \/ \E last \in BOOLEAN : process_config_dir(last)
  \/ load_config

(****************************** printing ***********************************)
(* "multipath -t" and "show config": the sections of struct config in the  *)
(* order in which they are printed. How an option's value is printed is in *)
(* module Dict; here an option that is not set prints nothing. The         *)
(* built-in entries are printed like those of the files.                   *)
(***************************************************************************)
PrintEntries(sect, entries) ==
  [i \in DOMAIN entries |-> [sect |-> sect, e |-> entries[i]]]
snprint_defaults(c) == PrintEntries("defaults", <<c.defaults>>)
snprint_overrides(c) == PrintEntries("overrides", <<c.overrides>>)
snprint_hwtable(c) == PrintEntries("devices", c.hwtable)
snprint_mptable(c) == PrintEntries("multipaths", c.mptable)
PrintLists(l) ==
  FlattenSeq([i \in 1..5 |->
     LET k == <<"devnode", "wwid", "property", "protocol", "device">>[i]
     IN  [j \in DOMAIN l[k] |-> [list |-> k, b |-> l[k][j]]]])
snprint_blacklist(c) == PrintLists(c.bl)
snprint_blacklist_except(c) == PrintLists(c.except)
\* The sections of the text, and its two kinds of lists.
snprint_config(c) ==
  [sections |-> snprint_defaults(c) \o snprint_hwtable(c) \o snprint_overrides(c)
                  \o snprint_mptable(c),
   bl |-> snprint_blacklist(c), except |-> snprint_blacklist_except(c)]
\* load_config() of a main file with that text, and no config_dir.
ReadText(t) ==
  LET all(s) == LET r == SelectSeq(t.sections, LAMBDA g : g.sect = s)
                IN  [i \in DOMAIN r |-> r[i].e]
      lists(l) == [k \in Criteria |->
                     LET r == SelectSeq(l, LAMBDA x : x.list = k)
                     IN  FoldLeft(store_ble, <<>>, [i \in DOMAIN r |-> r[i].b])]
      hw == NewConf.hwtable
  IN  FillAndMerge(
        [defaults |-> FoldLeft(LAMBDA d, e : e @@ d, NoOptions, all("defaults")),
         overrides |-> FoldLeft(LAMBDA d, e : e @@ d, NoOptions, all("overrides")),
         hwtable |-> factorize_hwtable(hw \o all("devices"), Len(hw)),
         mptable |-> all("multipaths"),
         bl |-> lists(t.bl), except |-> lists(t.except)])

(****************************** properties *********************************)
\* The value of option o in the first entry of a sequence that has it.
FirstSet(entries, o) ==
  LET s == SelectSeq(entries, LAMBDA e : o \in DOMAIN e)
  IN  IF s = <<>> THEN <<>> ELSE <<s[1][o]>>
\* The sections read, the last one first.
Sect(s) ==
  LET r == SelectSeq(Reverse(given), LAMBDA g : g.sect = s)
  IN  [i \in DOMAIN r |-> r[i].e]

(***************************************************************************)
(* multipath.conf.5, "devices section": "If an attribute is specified in   *)
(* several matching device subsections, later entries take precedence. ... *)
(* the built-in hardware table has the lowest precedence". Looking an      *)
(* option up must find the last value given for it. The code does not keep *)
(* this: factorize_hwtable() merges an entry into a later one with the     *)
(* same strings, which moves its options past the entries between them.    *)
(***************************************************************************)
LaterWins ==
  phase = "loaded" =>
    \A p \in Products :
      LET hw == SelectSeq(Sect("devices") \o Reverse(setup_default_hwtable),
                  LAMBDA h : "product" \in DOMAIN h /\ hwe_regmatch(h, p))
      IN  FirstSet(find_hwe(conf.hwtable, p), "prio_args") = FirstSet(hw, "prio_args")

(***************************************************************************)
(* What merging does keep. Of the device sections with the same strings    *)
(* (the built-in ones too) one is left, of the multipath sections with the *)
(* same WWID one is left, and it has the last value given in them for each *)
(* option, whatever files they were in. An empty string ends the merge of  *)
(* two sections (set_param_str()), mode, uid and gid share their flags,    *)
(* and a feature may have become an option.                                *)
(***************************************************************************)
NoEmptyString ==
  \A i \in DOMAIN given : \A o \in {"alias", "prio_args"} \cap DOMAIN given[i].e :
    given[i].e[o] # EmptyString
DuplicatesMerged ==
  phase = "loaded" /\ NoEmptyString =>
    /\ \A i \in DOMAIN conf.hwtable :
         LET h == conf.hwtable[i]
             same == SelectSeq(Sect("devices") \o Reverse(setup_default_hwtable),
                       LAMBDA g : hwe_strmatch(g, h))
         IN  /\ \A j \in DOMAIN conf.hwtable : hwe_strmatch(conf.hwtable[j], h) => i = j
             /\ FirstSet(<<h>>, "prio_args") = FirstSet(same, "prio_args")
             /\ \/ FirstSet(<<h>>, "no_path_retry") = FirstSet(same, "no_path_retry")
                \/ /\ h["no_path_retry"] = "queue"
                   /\ FirstSet(same, "no_path_retry") = <<>>
                      \/ \E j \in DOMAIN same :
                           "features" \in DOMAIN same[j]
                           /\ "queue_if_no_path" \in same[j]["features"]
    /\ \A w \in MapWwids : \A o \in {"no_path_retry", "alias"} :
         LET mpes == SelectSeq(Sect("multipaths"), LAMBDA e : e["wwid"] = w)
         IN  FirstSet(<<find_mpe(conf.mptable, w)>>, o) = FirstSet(mpes, o)

(***************************************************************************)
(* The printed configuration, used as the configuration file, gives the    *)
(* configuration that was printed (the unit test src/tests/hwtable.c does  *)
(* this with every configuration it makes): the built-in entries, which    *)
(* are in the program and in the file, disappear in factorize_hwtable(),   *)
(* the default blacklist entries in merge_blacklist(). An empty string is  *)
(* excepted, since it ends the merge of two sections and what was lost     *)
(* then may come back from the built-in entry.                             *)
(***************************************************************************)
PrintedConfigSame ==
  phase = "loaded" /\ NoEmptyString => ReadText(snprint_config(conf)) = conf

(***************************************************************************)
(* Dropping equal entries of the blacklists changes nothing for any path:  *)
(* it is filtered as by the lists that the files and the defaults give.    *)
(***************************************************************************)
VerdictsKept ==
  phase = "merge" =>
    LET c == setup_default_blist(conf)
        merged == FillAndMerge(conf)
    IN  \A pp \in FilterPaths : filter_path(merged, pp) = filter_path(c, pp)

(***************************************************************************)
(* Loading merges what is given twice and nothing else, so that a printed  *)
(* configuration can be loaded again and paths are filtered as before.     *)
(***************************************************************************)
LoadedRight == DuplicatesMerged /\ PrintedConfigSame /\ VerdictsKept
=============================================================================
