------------------------------- MODULE Aliases -------------------------------
(***************************************************************************)
(* The bindings file, which gives every multipath map a short name: the    *)
(* "user friendly" aliases prefix + a, b, ..., z, aa, ab, ... in file      *)
(* order (libmultipath/alias.c), opened and locked by libmultipath/file.c. *)
(* multipathd and any number of multipath(8) processes share the file. The *)
(* lock belongs to the file, not to its name: check_alias_settings() closes*)
(* the file it has read and renames a corrected one over it.               *)
(*                                                                         *)
(* An alias is the sequence of its letters behind the prefix. A letter     *)
(* outside 0..LetterCount-1 is a character that is not a small letter.     *)
(***************************************************************************)
EXTENDS Integers, Sequences, SequencesExt, FiniteSets

CONSTANTS
  Procs,          \* multipathd and multipath(8) processes
  BindingsReadOnly,  \* the ones started with -B
  AWwids,         \* WWIDs of LUNs
  NoLun,          \* no WWID: the line of the file is malformed
  LetterCount,    \* 26
  IntMax,         \* INT_MAX
  MaxDigits,      \* 7: one letter more than this and every id overflows
  BindingLines,   \* the contents the bindings file may have at boot
  MpTable,        \* multipath.conf's multipaths with an alias, in order
  KernelNames,    \* the aliases maps have that were created in the initramfs
  MaxRequests     \* bound on the aliases asked for

NoAlias == <<>>

ASSUME AliasConstants ==
  /\ LetterCount \in Nat \ {0} /\ IntMax \in Nat \ {0}
  /\ NoLun \notin AWwids
  /\ KernelNames \in [AWwids -> Seq(Int)]
  /\ MaxDigits \in Nat
  /\ BindingLines \subseteq Seq([alias : Seq(Int), wwid : AWwids \cup {NoLun}])

VARIABLES
  files,      \* contents of the bindings file and of the ones renamed over it
  born,       \* how many lines each of them had first
  cur,        \* the file that has the name
  amp,        \* per process: the aliases of multipath.conf that it uses
  apc,        \* where each process is
  fd,         \* the file each process has open
  req,        \* the WWID a process wants a name for, and the map's present name
  kept,       \* the lines check_alias_settings() keeps
  new_id,     \* the id a process is about to bind
  names_given,\* names taken from a file: [alias, wwid, file]
  requests

alias_vars == <<files, born, cur, amp, apc, fd, req, kept, new_id, names_given, requests>>

-----------------------------------------------------------------------------
(* Names and ids.                                                          *)

\* The letters of id: a, b, ..., z, aa, ab, ...
format_devname[id \in 1..IntMax] ==
  IF id - 1 < LetterCount THEN <<id - 1>>
  ELSE Append(format_devname[(id - 1) \div LetterCount], (id - 1) % LetterCount)

\* A name with more than MaxDigits letters would have an id beyond IntMax.
ASSUME NamesFit == \A id \in 1..IntMax : Len(format_devname[id]) <= MaxDigits

\* One letter more. -1: not a letter, or the id does not fit an int.
ScanLetter(n, i) ==
  IF \/ n < 0 \/ i \notin 0..(LetterCount - 1)
     \/ n > IntMax \div LetterCount
     \/ n = IntMax \div LetterCount /\ i >= IntMax % LetterCount
  THEN -1 ELSE n * LetterCount + i + 1

\* The id of an alias, -1 if it is none or does not fit an int.
scan_devname(alias) ==
  LET read[i \in 0..Len(alias)] == IF i = 0 THEN 0 ELSE ScanLetter(read[i - 1], alias[i])
  IN  IF alias = NoAlias \/ Len(alias) > MaxDigits THEN -1 ELSE read[Len(alias)]

\* The scan for a free id: the smallest one if the file is in order, or one
\* behind the biggest. -1: there is none.
ScanId(s, curr) ==
  LET id == IF curr = s.id THEN IF s.id < IntMax THEN s.id + 1 ELSE -1 ELSE s.id
  IN  IF s.id < 0 THEN s
      ELSE [id      |-> id,
            biggest |-> IF curr > s.biggest THEN curr ELSE s.biggest,
            above   |-> IF id > 0 /\ curr > id /\ curr < s.above THEN curr ELSE s.above]

\* The scan after each number of lines.
ScanIds(f) ==
  LET scan[i \in 0..Len(f)] ==
        IF i = 0 THEN [id |-> 1, biggest |-> 1, above |-> IntMax]
                 ELSE ScanId(scan[i - 1], scan_devname(f[i].alias))
  IN  scan

free_id(f) ==
  LET s == ScanIds(f)[Len(f)]
  IN  IF s.id < 0 \/ s.id < s.above THEN s.id
      ELSE IF s.biggest < IntMax THEN s.biggest + 1 ELSE -1

\* The first line with the WWID, and the first with the alias; 0: none.
lookup_binding(f, wwid) == SelectInSeq(f, LAMBDA b : b.wwid = wwid)
rlookup_binding(f, alias) == SelectInSeq(f, LAMBDA b : b.alias = alias /\ b.wwid # NoLun)

-----------------------------------------------------------------------------
\* p holds the lock of the file it has open.
Locked(p) ==
  apc[p] \in {"check", "existing", "friendly", "append existing", "append friendly"}

\* open_file(): the file is opened first, and locked when nobody else holds
\* the lock. Closing it releases the lock.
open_file(p, next) == fd' = [fd EXCEPT ![p] = cur] /\ apc' = [apc EXCEPT ![p] = next]

\* A lock that nobody waits for (mutant).
LockFree_NoWait(p) == TRUE

LockFree(p) == \A q \in Procs \ {p} : Locked(q) => fd[q] # fd[p]

lock_file(p) ==
  /\ LockFree(p)
  /\ \/ apc[p] = "lock check"    /\ apc' = [apc EXCEPT ![p] = "check"]
     \/ apc[p] = "lock existing" /\ apc' = [apc EXCEPT ![p] = "existing"]
     \/ apc[p] = "lock friendly" /\ apc' = [apc EXCEPT ![p] = "friendly"]
  /\ UNCHANGED <<files, born, cur, amp, fd, req, kept, new_id, names_given, requests>>

\* The alarm of FILE_TIMEOUT seconds ends the wait: open_file() fails. The
\* WWID becomes the name of a map without alias; nothing is fixed or checked.
lock_timeout(p) ==
  /\ ~LockFree(p)
  /\ \/ apc[p] \in {"lock check", "lock friendly"} /\ apc' = [apc EXCEPT ![p] = "idle"] /\ fd' = fd
     \/ apc[p] = "lock existing" /\ open_file(p, "lock friendly")
  /\ UNCHANGED <<files, born, cur, amp, req, kept, new_id, names_given, requests>>

\* A process that is killed leaves its lock; a new one starts.
Killed(p) ==
  /\ apc[p] # "start"
  /\ apc' = [apc EXCEPT ![p] = "start"] /\ req' = [req EXCEPT ![p] = NoLun]
  /\ kept' = [kept EXCEPT ![p] = {}] /\ new_id' = [new_id EXCEPT ![p] = 0]
  /\ UNCHANGED <<files, born, cur, amp, fd, names_given, requests>>

-----------------------------------------------------------------------------
(* check_alias_settings(), at the start of a process or a reconfiguration. *)

\* strcmp(): aa comes before b.
Before(a, b) ==
  \E k \in 0..Len(a) :
    /\ k < Len(b) /\ SubSeq(a, 1, k) = SubSeq(b, 1, k)
    /\ k = Len(a) \/ a[k + 1] < b[k + 1]

\* Bindings of an alias that a line before binds already are dropped.
add_bindings(f, lines) ==
  {f[i] : i \in {i \in lines : \A j \in lines : j < i => f[j].alias # f[i].alias}}

\* multipath.conf's second setting of an alias is dropped.
check_alias_settings(p) ==
  /\ apc[p] \in {"start", "idle"}
  /\ amp' = [amp EXCEPT ![p] = add_bindings(MpTable, DOMAIN MpTable)]
  /\ open_file(p, "lock check")
  /\ UNCHANGED <<files, born, cur, req, kept, new_id, names_given, requests>>

\* The bindings the file keeps: not those against multipath.conf, not a second
\* one of an alias, and no malformed line.
Consistent(p) ==
  LET f == files[fd[p]]
      agree(i) == \A b \in amp[p] : b.alias = f[i].alias => b.wwid = f[i].wwid
  IN  add_bindings(f, {i \in DOMAIN f : f[i].wwid # NoLun /\ agree(i)})

\* Does the file bind an alias that multipath.conf or an earlier line binds to
\* another WWID?
Conflict(p) ==
  LET f == files[fd[p]]
  IN  \E i \in DOMAIN f : f[i].wwid # NoLun /\ f[i] \notin Consistent(p)

_check_bindings_file(p) ==
  /\ apc[p] = "check"
  /\ kept' = [kept EXCEPT ![p] = IF Conflict(p) THEN Consistent(p) ELSE {}]
  /\ apc' = [apc EXCEPT ![p] = IF Conflict(p) THEN "fix" ELSE "idle"]
  /\ UNCHANGED <<files, born, cur, amp, fd, req, new_id, names_given, requests>>

\* By now the file is closed and its lock gone. The corrected bindings, in the
\* order of their aliases, take the name; or the write or the rename fails.
fix_bindings_file(p) ==
  /\ apc[p] = "fix"
  /\ \/ /\ p \notin BindingsReadOnly
        /\ \E f \in [1..Cardinality(kept[p]) -> kept[p]] :
             /\ \A i, j \in DOMAIN f : i < j => Before(f[i].alias, f[j].alias)
             /\ files' = Append(files, f)
        /\ born' = Append(born, Cardinality(kept[p]))
        /\ cur' = Len(files')
     \/ UNCHANGED <<files, born, cur>>
  /\ apc' = [apc EXCEPT ![p] = "idle"]
  /\ kept' = [kept EXCEPT ![p] = {}]
  /\ UNCHANGED <<amp, fd, req, new_id, names_given, requests>>

-----------------------------------------------------------------------------
(* select_alias(), for a map that is set up.                               *)

\* multipath.conf names the map, or its present name is kept if possible, or a
\* name is looked up or made.
select_alias(p, w) ==
  /\ apc[p] = "idle" /\ requests < MaxRequests
  /\ requests' = requests + 1
  /\ req' = [req EXCEPT ![p] = w]
  /\ IF \E b \in amp[p] : b.wwid = w THEN UNCHANGED <<apc, fd>>
     ELSE IF KernelNames[w] # NoAlias THEN open_file(p, "lock existing")
     ELSE open_file(p, "lock friendly")
  /\ UNCHANGED <<files, born, cur, amp, kept, new_id, names_given>>

GiveAlias(p, alias) ==
  names_given' = names_given \cup {[alias |-> alias, wwid |-> req[p], file |-> fd[p]]}

Done(p) == apc' = [apc EXCEPT ![p] = "idle"] /\ fd' = fd
\* The file has been searched: a new line is needed.
Wants(p, id, pc) ==
  /\ apc' = [apc EXCEPT ![p] = pc] /\ new_id' = [new_id EXCEPT ![p] = id]
  /\ UNCHANGED <<fd, names_given>>

\* The map's present name, if it is bound to the map or to nothing.
use_existing_alias(p) ==
  LET f     == files[fd[p]]
      old   == KernelNames[req[p]]
      owner == rlookup_binding(f, old)
      bound == lookup_binding(f, req[p])
  IN  /\ apc[p] = "existing"
      /\ \/ owner # 0 /\ f[owner].wwid = req[p] /\ GiveAlias(p, old) /\ Done(p) /\ UNCHANGED new_id
         \/ /\ owner # 0 /\ f[owner].wwid # req[p]
            /\ open_file(p, "lock friendly") /\ UNCHANGED <<names_given, new_id>>
         \/ /\ owner = 0 /\ bound # 0
            /\ GiveAlias(p, f[bound].alias) /\ Done(p) /\ UNCHANGED new_id
         \/ owner = 0 /\ bound = 0 /\ Wants(p, scan_devname(old), "append existing")
      /\ UNCHANGED <<files, born, cur, amp, req, kept, requests>>

\* The lookup ends with the line that has the last id.
get_user_friendly_alias(p) ==
  LET f     == files[fd[p]]
      n     == lookup_binding(f, req[p])
      bound == n # 0 /\ ScanIds(f)[n].id > 0
  IN  /\ apc[p] = "friendly"
      /\ \/ bound /\ GiveAlias(p, f[n].alias) /\ Done(p) /\ UNCHANGED new_id
         \/ ~bound /\ Wants(p, free_id(f), "append friendly")
      /\ UNCHANGED <<files, born, cur, amp, req, kept, requests>>

\* Appends a line, or fails to and truncates the file again. Without a name of
\* its own the map gets a user friendly one, or its WWID.
allocate_binding(p) ==
  /\ apc[p] \in {"append existing", "append friendly"}
  /\ \/ /\ new_id[p] > 0 /\ p \notin BindingsReadOnly
        /\ files' = [files EXCEPT ![fd[p]] =
             Append(@, [alias |-> format_devname[new_id[p]], wwid |-> req[p]])]
        /\ GiveAlias(p, format_devname[new_id[p]])
        /\ Done(p)
     \/ /\ UNCHANGED <<files, names_given>>
        /\ IF apc[p] = "append existing" THEN open_file(p, "lock friendly") ELSE Done(p)
  /\ new_id' = [new_id EXCEPT ![p] = 0]
  /\ UNCHANGED <<born, cur, amp, req, kept, requests>>

-----------------------------------------------------------------------------
AliasInit ==
  /\ files \in {<<f>> : f \in BindingLines} /\ born = <<Len(files[1])>> /\ cur = 1
  /\ amp = [p \in Procs |-> {}] /\ apc = [p \in Procs |-> "start"]
  /\ fd = [p \in Procs |-> 1] /\ req = [p \in Procs |-> NoLun]
  /\ kept = [p \in Procs |-> {}] /\ new_id = [p \in Procs |-> 0]
  /\ names_given = {} /\ requests = 0

AliasNext ==
  \E p \in Procs :
    \/ check_alias_settings(p) \/ lock_file(p) \/ lock_timeout(p) \/ Killed(p)
    \/ _check_bindings_file(p) \/ fix_bindings_file(p)
    \/ \E w \in AWwids : select_alias(p, w)
    \/ use_existing_alias(p) \/ get_user_friendly_alias(p) \/ allocate_binding(p)

AliasSpec == AliasInit /\ [][AliasNext]_alias_vars

\* Processes that make names at the same time never bind one alias, or one
\* WWID, twice in the same file, and the name a map got stays bound to it there:
\* the lock is held from the search for a free id to the new line
\* (get_user_friendly_alias(), use_existing_alias()).
BindingsUnique ==
  /\ \A g \in names_given : \E i \in 1..Len(files[g.file]) :
       files[g.file][i] = [alias |-> g.alias, wwid |-> g.wwid]
  /\ \A f \in 1..Len(files) : \A j \in (born[f] + 1)..Len(files[f]) : \A i \in 1..(j - 1) :
       /\ files[f][i].wwid # files[f][j].wwid
       /\ files[f][i].wwid # NoLun => files[f][i].alias # files[f][j].alias
=============================================================================
