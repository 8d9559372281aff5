# A TLA+ model of multipath-tools

multipath-tools groups the block devices (*paths*) that lead to the same LUN into one
device-mapper device (*map*). The daemon `multipathd` finds paths through uevents, checks
them, tells the kernel's dm-multipath target which paths to use, decides whether I/O is
queued when no path is left, and moves I/O back to better paths. `multipath(8)` sets up maps
and tells udev which devices are paths, `mpathpersist` manages reservations. This directory
holds TLA+ specifications of the daemon and its libraries, translated from the C code, the TLC
configurations that check them and machine-checked proofs about most of them.

`PROJECT.json` maps every definition to the lines it models, and lists components, runs,
mutants, findings and hazards. Run a configuration with `tlc -config X.cfg M` and the proofs
with `tlapm XProofs.tla`.

## The system

| component | state | operations | what makes it hard |
|---|---|---|---|
| life cycle (`multipathd/main.c`) | `running_state`, `config_cond`, `vecs->lock`, `delayed_reconfig` | start, reconfigure, idle/running, shutdown | five threads share one state word and one big lock; threads are canceled wherever they are |
| path checking (`check_path`, ticks) | path states, timers, `in_recovery`, `retry_tick`, cached `features` | check, fail, reinstate, failback, delay | the daemon's picture of the kernel is stale between two reads; timers race with events |
| path and map tables (`structs_vec.c`, uevent handlers) | `pathvec`, `mpvec`, `mpp->paths`, `mpp->pg`, `pp->mpp`, `pp->initialized` | add, remove, update, reload, resynchronise | pointers in both directions, paths that are gone for udev but still in a kernel table, calls that fail half-way |
| command socket (`uxlsnr.c`, `cli.c`, `uxclnt.c`, `libmpathcmd`) | clients, file descriptors, packets on the way | connect, send, poll, reply | results of `ppoll()` are used after connections were closed; packets arrive in parts |
| checkers (`checkers/tur.c`, `checkers/directio.c`, `checkers.c`) | a thread and a context per path, groups of asynchronous reads, class references | check, timeout, cancel, abort | a late thread or read against its successor |
| uevents (`uevent.c`) | queue | listen, filter, merge, dispatch | order of events of different devices |
| dm events (`dmevents.c`, `waiter.c`) | event numbers, threads | poll or wait, update, remove | numbers and lists are read unlocked; threads are stopped while they wait for the lock |
| I/O error accounting (`io_err_stat.c`) | its own path list, requests in flight | enqueue, sample, evaluate, recover | second list of the same paths, own lock, taken in the other order |
| log (`log.c`, `log_pthread.c`) | ring buffer | enqueue, dequeue, flush | wrap-around, full and empty |
| configuration (`config.c`, `dict.c`, `blacklist.c`, `propsel.c`) | tables, lists, properties of maps and paths | read, merge, print, select | five layers, encodings of "unset", tables merged file by file |
| map creation (`configure.c`, `pgpolicies.c`, `switchgroup.c`, `dmparser.c`) | groups, table, action per map | group, compare, load | the kernel's table is read back and compared |
| names (`alias.c`, `file.c`) | bindings file | look up, allocate, correct | shared with `multipath(8)`, locked by file and renamed by name |
| path validity (`valid.c`, `multipath -u`, udev rules, `wwids.c`) | wwids file, markers, timers, udev's database | claim, wait, release | daemon, tool, udev and other users race for a device |
| persistent reservations (`libmpathpersist`, `prkey.c`) | keys per path, key file, daemon's `prflag` | register, reserve, release, roll back | one of many paths fails |
| discovery, prioritizers, reports, foreign libraries, kpartx, libdmmp | tables | read, decode, format | mostly input and output |

The threads meet at `vecs->lock`, which nearly all of the daemon's work is done under, and at
`running_state`, which keeps the checker (`RUNNING`) and the reconfiguration (`CONFIGURE`)
apart. The kernel is the other actor: it fails paths, switches groups and holds tables that
`multipath(8)` may have loaded.

For each component, correctness means: the life cycle never loses a request, never deadlocks
and always shuts down; path checking never queues for ever when it was told not to and never
leaves a usable map unusable; the tables never hold a dangling pointer and never load a path
of another LUN; checkers report each result once; queues keep the last event of each device; the
configuration means the same however it is split up, merged and printed; a map's table is what its
configuration asks for and is left alone when it is; a name belongs to one LUN; a client gets its
own answer; a device in use is not taken away; what a tool reports about reservations is true.

## Modules

### Daemon

`Daemon.tla` models `child()`, `uxlsnrloop()`, `checkerloop()` and `uevqloop()` as four
threads with control points `pc`. A section under `config_lock` is one step, because nothing
blocks in it but the condition waits, which release it; `set_config_state()` therefore is two
steps, before (`set_config_state`) and after (`set_config_state_woken`) its timed wait, and
`cond` says whether a thread waits there. `vecs_lock` is the holder of `vecs->lock` and is held
over several steps. Of a map only `wait_for_udev` (`mapst`, `uev_wait_tick`) is kept, which is
all that the reconfiguration reads. `canceled` and `Die` model `pthread_cancel()`: a canceled
thread dies at a cancellation point, wherever that is, and runs its cleanup handlers.
Left out: the uevent listener and dm event threads, which do not touch `running_state`, a
failing `nanosleep` under `strict_timing`, and a `missing_uev_wait_timeout` below one, with which the first
tick ends the wait as it does with one.

### PathCheck

`PathCheck.tla` is one map with `NPaths` paths: `check_path()` from the result of the checker
to the switch of the path group, the ticks, `update_multipath()` on dm events, reloads, the
commands `fail`, `reinstate`, `switchgroup`, `disablequeueing` and `restorequeueing`, and the
kernel's side (`dm`: path states, `queue_if_no_path`, path group, pending event). Functions of
the code are operators on a record `w`, so that calls compose as in the code; an action
applies one. `turn` walks the paths as `checkerloop()` does, and other threads run only where it
releases the lock (`LockFree`). `mpp.features` is the cached table the code consults, `mpp.pg`
says whether the last read of the table worked. Left out: marginal paths, `ghost_delay`,
persistent reservations, a map that waits for udev or disappears, dm messages that fail.

### Maps

`Maps.tla` is `pathvec`, `mpvec` and the kernel's tables for several devices and LUNs. A device
name stands for the `struct path`, a WWID for the `struct multipath`. Handlers are composed of
operators named after the functions of `structs_vec.c` and `main.c` and are one step, since
they run under `vecs->lock` from end to end; the one exception, `uev_update_path()` adding a
path again after it released the lock, is two (`reinit`). `o` is how the outside answers: which
of the calls `setup_map`, table load, table read, status read, flush and `pathinfo` fails, whether a path is
up, whether the WWID is in the wwids file and whether udev knows it yet. At most one of these is
out of order per handler. `broken` is set when a freed path is used or a device gets a second
`struct path`; the behaviour ends there. Left out: sizes, blacklists, `coalesce_paths()`,
the number of udev retriggers (any number), devices that vanish in the middle of a handler.

### TurChecker

`TurChecker.tla` is the asynchronous TUR checker of one path: `chk.pc` is where its caller is in
`libcheck_check()` or `libcheck_free()`, `thr` the detached threads and `ctx` the contexts they
share with the checker. Each atomic operation (`running`, `holders`) and each section under
`ct->lock` is a step. A context that is freed is never allocated again, so that a use after that
shows. `tur_check()` has no fairness: the ioctl of a thread may hang. What a check finds is
represented by the number of its thread, which is what a stale result is told by.
`caller_canceled` is the cancellation of the checker thread at shutdown; in its condition wait
it leaves `ct->lock` locked. Left out: sync mode, which has no state, and the loading and
unloading of the shared objects.

### Log and LogFifo

`Log.tla` is the log area, address by address in units of a pointer, with the `next` pointers
as the code writes them, and the log thread with its condition variable, flush, stop and
cancellation. `LogFifo.tla` says what the area promises, a queue that may drop messages, and
`Log` is checked to implement it: the queue is the sequence of records in the area, the message
taken out last is what `la->buff` holds, and it must be one whole message. After
`log_thread_stop()` messages go to syslog directly. The model stops the log when the other
threads have been joined, as `child()` does; detached TUR threads, which might still log, are
left out.

`TurChecker` and `Log` share no state; `MC_Threads` runs one or the other, chosen initially.

### UeventQueue

`UeventQueue.tla` is the way of a uevent from the listener (`uevlisten_tmp`) through the queue
(`uevq`) to the dispatcher (`uevq_tmp`), which discards, filters and merges what it took and hands
it to `uev_trigger()`. The functions of `uevent.c` that decide this are operators of the same
names; lists lose entries by `Kept`, and a round of `merge_uevq()`, which works on the dispatcher's own
list without a lock, is one step. `merging` is the part of that list the loop has not passed, `uevq_tmp`
the rest. A uevent is its number, device, action and WWID;
`received` and `triggered` are histories for the properties. Handling a uevent is one step here,
with those that were merged with it first; what it does is in `Maps`, its waiting for the daemon's
state in `Daemon`. A device name may pass to another LUN after its removal (`Reassign`). Left out:
uevents lost in the kernel's socket or for want of memory.

### DmEvents

`DmEvents.tla` is the poller of `dmevents.c`, a thread that adds and removes maps, and the kernel.
`kmap` holds the kernel's maps with an incarnation, which the code cannot see, and the event
number; `events` is `waiter->events`; `mpvec` holds for each map of the daemon what it saw last.
Every ioctl and every section under `events_lock` is a step, so that the list the poller compares
with may be old. Left out: a poll or arming that fails, after which the thread just tries again,
and other device-mapper devices.

`MC_Events` runs one of these two, chosen initially.

### Waiter

`Waiter.tla` is the other way to hear of dm events: a thread per map (`waiter.c`). All threads
started for one map name are modelled, with the one that removes the map from the tables
(`StopBegins` to `StopRemoves`). `wt_kern` is the kernel's map with a generation the code cannot
see, `wt_view` what the status was when it was last read. Each lock, ioctl and
`pthread_testcancel()` is a step of its own; a signal that arrives between such a test and the ioctl
does not end the ioctl.

### IoErrStat

`IoErrStat.tla` is the `marginal_path` method. The checker's three steps of
`enqueue_io_err_stat_by_path()` take `paths->mutex` twice with `vecs->lock` held; the accounting
thread serves one path per step with `paths->mutex` held and takes `vecs->lock` when it evaluates
one. `ie_path` is the `struct path`, `ie_entry` the entry of the second list; the kernel's side of a
request is `kern`. A path has one request context instead of 32. The clock counts fractions of a second
(`Second` to the second): each difference of two times loses its fraction on its own, as
`timespecsub()` and `tv_sec` have it in the code (`tv_sec`), and three such differences decide whether a
request is sent, is timed out and is still open when the rate is computed. It is read once
for each path served, where the code reads it anew for each difference.

### Directio

`Directio.tla` is the directio checker: groups of asynchronous reads, their holders and orphans,
and the reference count of the checker's class. Operations are one step each, since they run
under `vecs->lock`; the kernel completes reads between any two, and some can be aborted.
Requests are addresses, so that a read into freed memory shows.

### Persist

`Persist.tla` is one LUN with its registrations by nexus and its reservation, the paths of the
map, another host, one call of `mpathpersist` at a time and the daemon. Each command of a call is
a step; the commands of one call run in any order, as the code starts a thread for each, and any may
fail with or without effect. The daemon registers paths that come up at any moment
(`mpath_pr_event_handle`) and may restart. What the array does (`PrCommand`) is external, as the
code uses it.

### Dict, Config and PropSelect

`Dict.tla` has the handler and printer of each option of `dict.c`, grouped as the code's macros
group them; a text is a word or a numeral with its base, so that `010` is not `10`. A behaviour
takes an option of a section, reads a text, prints it and reads that again. `Config.tla` reads
sections into the tables, file by file, and merges them (`factorize_hwtable`, `merge_mptable`,
`merge_blacklist`); regular expressions are the sets of what they match. `PropSelect.tla` has each
`select_...` function of `propsel.c` as a look-up in layers, and a map that is set up again and again,
with commands that change it in between. Left out: the tokenizer, the interplay of
`polling_interval` and `max_polling_interval`, and the hardware table itself.

### MapSetup

`MapSetup.tla` follows one LUN through `coalesce_paths()`: paths are adopted, grouped by policy,
sorted, the best group is picked, the table is written as a sequence of words and read back by
`disassemble_map()`, and `select_action()` compares. Configuration, priorities, states, sizes and
the kernel's maps change between the steps; another LUN may hold the name. Left out: other LUNs'
setup, and the wait for udev, which is in `Maps`.

### Aliases

`Aliases.tla` is the bindings file and the processes that use it. A file keeps its identity when
another one is renamed over its name, since the lock belongs to the file; opening and locking are
two steps and a process may be killed or give up waiting. Names are sequences of letters, of an
alphabet of two, with the code's overflow checks at a small `INT_MAX`; no name that has an id is longer
than `MaxDigits` letters (`NamesFit`; seven for 26 letters and 32 bits). The corrected file is any order of the
kept lines that `strcmp()` sorts. Left out: reads and writes that fail.

### UxSocket

`UxSocket.tla` is the listener thread, its clients and what is on the way. A packet is two parts, its
length and its text. File descriptors are numbers that are used again, and `ux_polls` is what
`ppoll()` said before things changed. `uxsock_trigger()` and the parsing of commands are operators
(`get_cmdvec`, `find_key`, `fingerprint`); handlers are a table of what they need, since what they do
is in the other modules, and a show command's reply grows by doubling until it fits. Left out: the
inotify watches, and clients that do not read: a reply is sent with a blocking `send()`
(`libmpathcmd/mpath_cmd.c:79`), which never blocks here.

### Claim

`Claim.tla` is the decision whether a block device is a path. Each uevent runs `multipath -u` in two
steps (`UeventStart` is `is_path_valid()`, `UeventCheck` the rest with the O_EXCL test) and the rules
in a third (`UeventEnd`); `db` is udev's database, `timer` the timer the rules start, `wait_file`
the file in `/dev/shm`. A remove uevent deletes that file and leaves the timer running, so that a device that
returns under the same name may find the timer of its predecessor (`stale`). `multipathd` starts and stops, takes in devices and creates maps, and
`multipath(8)` creates and flushes maps and edits the wwids file. Left out: maps that are in use
themselves, so that a flush succeeds, and failures of `multipath -u`.

`MC_Inputs` runs one of Dict, Config, PropSelect, MapSetup, Aliases, UxSocket and Claim, `MC_Services`
one of IoErrStat, Persist, Directio and Waiter, chosen initially.

## Runs

| run | module, cfg | what it shows |
|---|---|---|
| `daemon` | `MC_Daemon`, `MC_Daemon.cfg` | `TypeOK`, `VecsExclusive`, `ShutdownSticky`, `QuietReconfigure`, `ConfigureEnds`, `ShutdownCompletes`, with two maps, two requests or uevents, failing configuration loads and spurious wake-ups (126,000 states) |
| `daemon_delayed` | `MC_Daemon`, `MC_DaemonDelayed.cfg` | violates `DelayedReconfigureHappens` |
| `queueing` | `MC_PathCheck`, `MC_Queueing.cfg` | `RecoverySound` (types, and recovery mode exactly when no path is left), `DisableTakesEffect`, `QueueingRestored`, with operator commands and failing reads (116,000 states) |
| `failback` | `MC_PathCheck`, `MC_Failback.cfg` | `BadPathsCheckedSoon`, `RetryEnds`, `FailbackHappens` with deferred failback and implicit ALUA (37,000 states) |
| `san_path_err` | `MC_PathCheck`, `MC_SanPathErr.cfg` | `DelayEnds`, `LastPathNotDelayed` with reloads (274,000 states) |
| `retry_reload` | `MC_PathCheck`, `MC_RetryReload.cfg` | violates `RetryEnds` |
| `maps` | `MC_Maps`, `MC_Maps.cfg` | `TablesSound` (types, `PathsAlive`, `MapsAlive`, `OwnPaths`) and `NoStray` (`NoWrongPath`, `NoStranger`) with two devices, two LUNs and any call but the table load failing (59,000 states) |
| `maps_giveup` | `MC_Maps`, `MC_MapsGiveup.cfg` | violates `PathsAlive` when table loads fail |
| `threads` | `MC_Threads`, `MC_Threads.cfg` | `LogChain`, `IsFifo`, `LogWritten`: the area through wrap-around, full and empty; `CheckerSound` (`ContextLifetime`, `CancelsAlive`, `AnswersFresh`), `ChecksEnd`, `ThreadsEnd`: hanging and late threads (131,000 states) |
| `events` | `MC_Events`, `MC_Events.cfg` | `OrderKept` (`AddRemoveOrder`, `BarrierKept`), `UeventsHandled`: filtering and merging; `NoLostEvent`, `GoneMapsDropped`: the poller against the adding of maps (329,000 states) |
| `inputs` | `MC_Inputs`, `MC_Inputs.cfg` | `RoundTrip`: each option is read as it was printed; `LoadedRight`: merging and printing keep the configuration; `SelectedRight`: properties depend on configuration and hardware only; `GroupsFollowPolicy`, `NoReloadTwice`: the table read back has the groups asked for and is left alone; `BindingsUnique`: processes never give a name twice in one bindings file; `RepliesMatch`, `ClientsServed`: each client gets its own, whole reply; `InUseNotHidden`, `TimedWaitEnds`: devices in use stay, those hidden with a timer of their own come back (167,000 states) |
| `services` | `MC_Services`, `MC_Services.cfg` | `CheckedIsQueued`: a path kept out of use for sampling is with the thread that samples it; `ReportsTrue`: what is reported of registrations and releases is so on every path; `AioAccounted`: no read outlives its memory and no place is lost; `WaitersSound`: no waiter works for another map or counts an event it has not looked at (840,000 states) |

Each property of a passing run has one or more mutants in `PROJECT.json`: a plausible bug in one
operator, defined beside it, with which TLC finds the property violated.

### Bounds

`MaxEnv` bounds what the environment does (requests and uevents, or changes of devices and
tables). Two maps in `Daemon` are the least for a map to keep a reconfiguration waiting while
another is done, and two ticks for one to wait on when another's time is up; two requests let one arrive while the other is served. Two paths in
`PathCheck` make "the last path", "another path" and "a better group" differ; timers of one to
three rounds let each one be armed, run out and be re-armed while another one runs. In `Maps`
two devices and two LUNs give a path of another map, a last path and a path that comes back with
another WWID; a device may be exchanged within three changes. It takes more to give a name to another
LUN while other processes hold both LUNs' tables (below, under Findings). `MC_Maps` uses the symmetry of
devices and of WWIDs, and checks no liveness. In `TurChecker` two threads and three contexts give
a thread that was given up, its successor and a path that is freed and set up again between them.
The log area holds two records of the longest kind, the least `LogAssumption` allows (the code
has room for more than fifty), and five messages of one to three units fill it, wrap around and meet a head
at every distance. In `UeventQueue` three uevents are what it takes to move one across another, and
the devices are two of a LUN, one without a WWID, one that is blacklisted and a map. In `DmEvents`
five changes let a map be created, have events, be removed and be created again.

`MC_Inputs`: each option of `Dict` is tried in each of its sections with words and numbers at the
boundaries; three sections of `Config` are the least to put one between two that are merged, over a
built-in table in which one product has two entries; `PropSelect` moves between configurations
that set an option in one, several or no layer; three paths in `MapSetup` let groups of two and one
differ by each attribute, and two changes come between reading and writing. Two processes and two
requests in `Aliases` suffice for a race, with files at boot that are empty, sparse, out of order
and inconsistent, and ids that overflow at six. Two clients in `UxSocket` use a file descriptor one
after the other; the reply limit is reached by doubling. Two paths of one LUN in `Claim`, three
changes from outside and a timeout of one second bring up every answer of `multipath -u` and a
device that returns while its predecessor's timer runs; the run
uses `find_multipaths smart`, the mode with the most answers.

`MC_Services`: two paths in `IoErrStat`, one request per path, a clock of half seconds and a sample of two seconds,
twice the time-out as in the code; the clock stops when the first sample ends, before a path is enqueued
again after an evaluation. Two paths, one failing command and one
key in `Persist`, besides the other host's. Two groups of two places and three requests in
`Directio`, so that a group fills up with an orphan. Two waiter threads, two kernel events and one
failure in `Waiter`. The paths of `IoErrStat` are symmetric; the run checks no liveness.

### Fairness

`Daemon`: each thread that can take a step takes one, and the lock is passed on strongly fairly:
its only perpetual user, the checker, sleeps a second per round without it. Nothing is assumed
of clients, signals or uevents. `PathCheck`: the checker goes round; a dm event is handled in the end, as its
thread gets the lock while the checker sleeps; an asynchronous check does not stay pending for
ever, because the checkers have a timeout. These are stated on the state, which is equivalent
here since no other thread can disable the steps.

`TurChecker`: the checker loop calls the checker, time passes, and threads run once their ioctl
has returned. `Log`: the log thread runs, a logger leaves `log_safe()`, and a stop goes on.
`UeventQueue`: the listener's poll times out and the dispatcher goes on. `DmEvents`: both threads
run, and the poller gets `vecs->lock` in the end (strongly fair, as the others release it for
seconds). `UxSocket`: the listener runs, a reconfiguration ends, and a client that waits takes its
reply; nothing is assumed of clients that have not sent all of their command. `Claim`: udev handles
uevents, timers fire and time passes; the daemon, the tools and other users owe nothing.

`MC_Maps`, `MC_Threads`, `MC_Events`, `MC_Inputs` and `MC_Services` run without deadlock checking: with
the budget of the environment spent and no path left, with no thread left to start, with the log
stopped, with no event left, or with the configuration loaded, the model may stop.

## Proofs

Eight modules hold theorems. Each is about a component's specification for every value of its
constants that the named assumption of the component's module allows (any number of paths,
threads, maps, messages, uevents and reads, any limit), and argues from one inductive
invariant: the initial states meet it, every action keeps it (a lemma per action or part), and the
property follows. TLC checked each invariant on a small instance first.

### DaemonProofs

* `Types`: `Spec => []TypeOK`; `Sections`: `Spec => []VecsExclusive`, the lock is held by exactly
  the thread inside a protected section, also when threads are canceled inside one; `Quiet`:
  `Spec => QuietReconfigure`; `Sticky`: `Spec => ShutdownSticky`.
* `Inductive`: `Spec => []IInv`, with `IInv` the conjunction of `TypeOK`, `VecsExclusive`,
  `ReloadQuiet` and `FreshStart`.

`VecsExclusive` is not inductive alone: cancellation is harmless only because main cancels
threads after it has created all of them, and creating a thread must not put it into a section,
which is `FreshStart`. `QuietReconfigure` is about a step, but what it needs was decided one step
before (`need_to_delay_reconfig()`): `ReloadQuiet` carries the decision over, and it is preserved
because the other threads change maps only inside their sections (`OthersLeaveMaps`), from which
`VecsExclusive` keeps them while main is in its own.

### PathCheckProofs

* `TypeOKTheorem`, `BadPathsCheckedSoonTheorem`: a path that is not usable is checked again within the
  shortest interval, whatever its interval was before.
* `RecoverySoundTheorem`: the map is in recovery mode exactly when it has no usable path and a retry
  limit. It assumes `Tame`: no reload fails, and the map has no implicit ALUA, with which a passive
  path that comes back when no other is usable is not reinstated in the kernel. Either breaks the property until the next check of
  a path, in the runs too, which is why `queueing` has no reloads.
* `LastPathNotDelayedTheorem`: `san_path_err` never holds back the only path of a map. It assumes
  that reads of the map's status work, that nobody fails paths by command and that checkers do not
  answer "wild", for each makes `check_path()` act on a picture of the map it has just lost.

`PathInv` says that `w` is in `States`, where the timers are bounded by the configured intervals, and
that recovery mode and usable paths are consistent. The functions of the code call each other, so
each has a lemma of its own about what it returns for any state, and actions put these together.

### EventProofs

* `WaitersSoundTheorem`: no waiter thread updates a map other than its own or counts an event it has
  not looked at. `WtInv` orders the event numbers of the kernel, of the last status read and of the
  thread, says who may hold `vecs->lock` and which thread the map names.
* `NoLostEventTheorem`: an event of a watched map is either seen or will wake the poller. `DmInv`
  relates what the daemon saw, the poller's entry and the kernel's event number at each point of the
  poller, including while it compares with a list of maps that is out of date.
* `OrderKeptTheorem`: filtering and merging keep the order of the uevents where it matters. `UevInv`
  says that lists not merged yet are in the order of arrival, each older than the one behind it
  (`Sorted`, `Numbered`), and that what merging has produced and left behind may be handled in the
  order of the dispatcher's list (`Arranged`). The step that matters is `MergeSound`: a uevent that
  `uevent_merge()` leaves behind one that it moves is neither of the same path and LUN nor a barrier.
  `KeptSound` says what the recursive function that takes uevents out of a list returns.

### MapsProofs

A handler of `Maps` is a composition of operators on `w`, the record of `pathvec`, `mpvec`, the tables and
`broken`. For each operator one lemma says what it computes (`AdoptPost`, `SyncPost`, ...), one what it
preserves (`Keeps`: which map and which LUN's paths it touches, and that it connects no device with
another LUN), and a handler's lemma follows its calls by transitivity.

* `MapsTyped`: types, and no `struct path` points to a freed map (`MapsAlive`), whatever fails and whatever
  others do to devices and tables. `Good` is the inductive invariant: a path that is not there is empty, a map
  that is not known has no members, and `pp->mpp` is a known map.
* `MapsNoStranger`: no handler connects a device with a LUN unless its udev data, its `struct path`, a table
  or a map did before (`Luns`), without further assumptions either.
* `MapsNamed` and `MapsNoStray`: `TablesSound` and `NoStray`, if table loads do not fail by themselves and a device name
  is given to another LUN only when the daemon has no `struct path` of the old one (`NamesKept`).
  `TablesSound` is not inductive: a path that is only left in a path group may become a member of `mpp->paths`
  again. `Sound` adds that paths and path groups hold the map's own paths (`Own`), of its own WWID
  (`Named`), and `mpp->paths` no removed one (`Here`); `OneLun` says that all that is known of
  a device is about one LUN, so that the kernel has no reason to refuse a load. A path whose WWID
  `pathinfo()` has forgotten, since it went away before it was initialized, counts as none of another LUN
  in `NoWrongPath`: it can be loaded (from `MaxEnv = 5` on).

Neither hypothesis can be dropped: `maps_giveup` shows what happens when a load fails, and
the findings tell how a name that is reused too early makes the kernel refuse one.

### CheckerProofs

`CheckerSoundTheorem`: a context is never used after it was freed, a thread is canceled only while
it runs, and an answer is that of the check it is reported for. `TurInv` counts the holders of each
context (the checker and the threads that have not dropped it yet), says which thread the checker
waits for and where it may be while the checker reports, and who has taken the `running` flag.

`AioAccountedTheorem`: the kernel's reads never outlive their memory, places of a group are not lost,
and the class is not unloaded while a path uses it. `DioInv` says that a group is listed once
(`ListSound`), that each path has a request of its own in one listed group (`ContextsSound`), an orphan
likewise (`OrphansSound`), that each read belongs to one of these (`ReadsSound`), that the holders of a
group are its users and orphans (`PlacesSound`), and that the class has a reference per user
(`RefsSound`).

### ServiceProofs

`CheckedIsQueuedTheorem`: a path that `check_path()` keeps delayed because it is sampled is in the queue of the
thread that samples it; without an entry it would stay out of use. `IoInv` adds who may hold the two
locks (`LocksHeld`), that the thread evaluates an entry of the queue (`Evaluable`) and that a path that was
removed does not count as sampled, although its entry stays (`RemovedUnchecked`). Of the constants it only uses
that a second has ticks; when requests are sent, answered and timed out does not matter to it.

`RegisteredEverywhereTheorem`: a registration that is reported as done holds on every path found usable.
`PrInv` says that each path that the command is for is still to be sent it or has answered, and that one
that took it has the key with all paths of its host (`Sent`); with `all_tg_pt` this reaches
all paths (`TargetsReachAll`). `ReportsTrueTheorem` adds the release: as long as no command failed, the
other host's registration is there or among those still to be made again (`PeerBack`), and the paths' key is
noted before it is cleared (`Released`). It assumes that the other host uses a key of its own (`KeysDiffer`):
with a shared key `mpath_prout_rel()` leaves the other host out of what it registers again, as
it takes every registration with its key for one of the map's paths.

### InputProofs

`InUseNotHiddenTheorem`: a device that something else uses is claimed by the rules only if its WWID is
one that was multipathed before. `ClaimInv` says that a device in use has had its first uevent
(`UsedKnown`), that each WWID in the wwids file or with a map is remembered (`Remembers`), and that what
a `multipath -u` has answered is still justified when the rules act on it (`VerdictSound`).

`RepliesMatchTheorem`: a client that reads a reply gets the whole reply to the command it waits for. `UxInv`
says that a connection's file descriptor is on the listener's list and is no other client's
(`Connections`), so that neither what `ppoll()` returned earlier nor `accept()` can mix two of them up, and
that it holds a request or its reply and never both (`Conversation`). `ShowIs` says that doubling the
buffer ends with the whole text or with none.

`BindingsUniqueTheorem`: processes that give names at the same time never bind a name or a WWID twice, and a name that
was given stays bound, for any processes, bindings files and alphabets. `AliasInv` says that two processes that are
past the lock have different files open (`Exclusive`), that a process that asks has a WWID (`AsksForLun`), and that the
id that it is about to bind is still free in its file, as is the WWID (`StillFree`). That a free id
is a free name has two parts. `ScanFormat` and `FormatScan`: an id's name is read back as that id, and
a name that is read as an id is that id's name. `FreeIdIs`: the scan of `lookup_binding()`, which counts up while
the lines are in order and otherwise remembers the largest id, ends with an id no line has. The prover
has no induction over data for recursive functions; here the recursion runs over a range of integers, and
`UpTo` (a set that has 0 and the successor of each of its members has the range) and `Recursion`
(such a function exists) take the place of the library's theorems.

`SelectedRightTheorem`: what a map and its paths get follows from the configuration and the hardware alone, whatever
the map went through. `Chosen` relates one selection made of two maps: it touches the options of a set `T`
only and decides those of a set `C`. Each `select_...` function has such a lemma, and they compose to six
parts of `select_properties()` and then to `setup_map()`. `SelectedRight` is only about a map as
`setup_map()` left it. `SelInv` is about the map after commands and removals as well: all that is not selected
is as it was in a new map (`SelKept`), what is selected is as in a new map (`SelFresh`), but for queueing, which
`setup_map()` restores if `no_path_retry` is configured (`SelQueueing`), and a deferred removal (`SelDeferred`), and
the path is as selected (`SelPath`). `SelAssumption` says that `deferred_remove` is "yes" or "no" in a
configuration: "in progress" is a value that only a map has.

`RoundTripTheorem`: an option that is printed and read back counts for what it did. `DictInv` says which values lines
leave in each option (`Kept`): without it a printer meets values that it has no text for. `Reads` is what a printer and
a handler owe each other, and is proved for each kind of option, in each section (`StrReads`, `OffIntReads`, ...).
`DictAssumption` bounds decimal numerals by `MaxUint`, the model's `UINT_MAX`, and octal ones by 0777, since the
change of base is defined for three digits. Words are arbitrary.

### LogProofs

`LogChainTheorem`: the `next` pointers lead through whole messages from head to tail. `IsFifoTheorem`:
`LogSpec => IsFifo`, the area implements `LogFifo`, step by step. `LogInv` orders the records
in the area as a ring, so that no two overlap and the place for the next one is behind the last or
before the first. It needs an area of at least two of the longest messages (`LogAssumption`).

### What is only model-checked

* Liveness, which needs fairness and ENABLED: the properties that end in `Ends`, `Happens`, `Completes`,
  `Handled`, `Dropped`, `Served` and `Written`, and `DisableTakesEffect` and `QueueingRestored`.
* `TablesSound` and `NoStray` when a name is reused early, within the run's bounds.
* `LoadedRight`, `GroupsFollowPolicy` and `NoReloadTwice`: what the operators of `Config` and `MapSetup` compute, which
  are recursive, over lists of sections and of words.

## Findings

* A delayed reconfiguration that `missing_uev_wait_tick()` announces is lost
  (`daemon_delayed`): the checker thread waits for `DAEMON_IDLE`, which only itself can post.
* After `no_path_retry` ran out, a reload makes the kernel queue again for good
  (`retry_reload`): `enter_recovery_mode()` returns early as `in_recovery` is still set.
* `ev_add_path()` orphans a path that the table holds when it gives up a reload
  (`maps_giveup`), and a later removal leaves a dangling pointer in the map.

Formulas below are stated in the modules, do not hold of the code, and are in no configuration;
adding one to the configuration named shows the counterexample.

* `TablesSound` with `MaxEnv = 7` (`Maps`, in `MC_Maps.cfg` with `Failures = {}`): a name is given to another LUN while
  its old LUN's table, loaded by another process, still has it, so that the kernel refuses the next reload of
  that LUN's map or of the new one; `ev_add_path()` gives up and orphans the path as in `maps_giveup`.
* `ReaddSafe` (`Maps`, in `MC_Maps.cfg`): `uev_add_path()` takes "delayed" for "freed": a removed path
  that comes back while its map awaits its creation uevent gets a second `struct path`
  (`multipathd/main.c:888`).
* `RemovedMapsAreGone` (`DmEvents`, as a property in `MC_Events.cfg`): the poller drops a map that was
  created and watched after it had read the list of maps (`dmevents.c:167`). Two more weak points:
  `unwatch_dmevents()` runs after `vecs->lock` was released (`dmevents.c:368`), and an event is not
  read when `dm_get_events()` fails after the poll was armed.
* `CheckReturns` (`IoErrStat`, with the specification `IoSpec`): the checker and the accounting thread take
  `vecs->lock` and `paths->mutex` in opposite orders and may wait for each other
  (`io_err_stat.c:459` against `:261`).
* `LaterWins` (`Config`, in `MC_Inputs.cfg`): merging two device sections with the same strings moves
  the options of the earlier one past a section between them; `multipath.conf.5:1461` says that
  later entries take precedence.
* `MarginalExclusive` (`PropSelect`, in `MC_Inputs.cfg`): `delay_*_checks` turn `san_path_err` on
  again after the `marginal_path` method has turned it off; `multipath.conf.5:1812` says that
  it is "implicitly set to 0".
* `AllAnswered` (`IoErrStat`, in `MC_Services.cfg` with `IoMaxRequests = 2`): the "free time for all IO to complete or
  timeout" (`io_err_stat.c:530`) is too short by up to a second. A request that is sent in the last fraction of the
  time for sending is some `IOTIMEOUT_SEC` and a half old when the error rate is computed, which is truncated to
  `IOTIMEOUT_SEC` and not yet a time-out (`:450`, `:534`, `:561`). It counts as sent, and neither as answered nor as an error.
* `MaybeEnds` (`Claim`, as a property in `MC_Inputs.cfg`): a device that is hidden to wait for siblings may wait for
  the "another uevent eventually" of `multipath.rules:63` for ever. One that returns under the name of a
  device whose timer still runs (removing a device does not stop it) gets no timer of its own, as
  systemd-run refuses a second one of the name, and the old one fires too early for the new wait file, or for
  another path in sysfs. The same goes, with `MaxSteps = 4`, for a device that is hidden by a "change" uevent, for
  which the rules start no timer. `TimedWaitEnds` therefore is about devices whose own timer runs.

What the properties except, as they say where they are stated:

* Merging uevents keeps the order of one WWID only: a device name that passes to another LUN within
  a burst has its events reordered (`uevent.c:274`).
* Waiter threads: an event before the first `dm_geteventnr()`, while `event_nr` is 0, or of a new map
  with the same number is not noticed; a signal between `pthread_testcancel()` and the ioctl is lost.
* `Persist`: a path that comes up between registration and the daemon's update of `prflag` stays
  unregistered; `prflag` is set although the daemon's registration failed; rolling back
  unregisters instead of restoring the old key; a release by one who is not the holder clears the
  other host's reservation; errors while keys are registered again are overwritten.
* `IoErrStat`: an entry is freed with its buffers although `io_cancel()` may have failed to take a request back; the
  model only forgets the request then (`kern`).
* `PathCheck`: `LastPathNotDelayed` is about the only usable path that stays delayed, not about the check
  in which a path hits the threshold: that one delays it without a look at the others (`main.c:2037`).
* `MapSetup`: priorities are those of paths that have one; `PRIO_UNDEF` (-1) is not among them.
* `Claim`: only devices that were released (`DM_MULTIPATH_DEVICE_PATH` is "0") are put to use, so that
  `released_to_systemd()` decides what `InUseNotHidden` is about; between the O_EXCL test of `multipath -u` and
  the end of the rules, somebody may open a device that was not.
* `Aliases`: `BindingsUnique` is about the names in one file: a process that waits for the lock of a file that is renamed away
  writes to the old one. `fix_bindings_file()` renames after the lock was released; names of `multipath.conf` are
  not looked at when a new one is allocated.
* `MapSetup`: with `rr_weight priorities` the `minio` read back differs, and the map is reloaded each
  time; `pgcmp()` does not see a change of the groups' order.
* `Directio`: when `checker_init()` fails, `checker_clear()` without `checker_put()` keeps a reference
  to the class (`discovery.c:1768`), which is then never unloaded.
* `Dict`: `uid` and `gid` are printed in octal and read in decimal, `uid_attrs` is printed without
  quotes, and a `max_fds` of 0 prints nothing. `Config`: an empty string ends the merge of two sections.
* `PropSelect`: `no_path_retry` has no default, so that "fail" stays after queueing was disabled once.

## Not modelled

* `foreign.c` and the NVMe library: calls into a shared object under one lock; the library decodes sysfs.
* Discovery beyond what decides `pp->initialized` and the WWID, the prioritizers and the synchronous
  checkers: decoding of sysfs, SCSI and NVMe answers; the modules take the result as an input.
* The hardware table, which is data, the reports of `print.c` other than the configuration, and the
  tokenizer of `parser.c`.
* The inotify watches of the listener, the interactive mode of the client, the option parsing of the tools.
* kpartx, a separate tool that parses partition tables; libdmmp, a client library that decodes JSON;
  vendored headers.

## Plan

1. Theorems without `Tame`: what holds of recovery mode between a failed reload and the next check.
