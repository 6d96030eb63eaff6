# A verification of the QoT stack

The Quality-of-Time stack lets applications share *timelines*: virtual clocks
that are projected from one core clock, disciplined by a synchronisation service,
and waited on by tasks. This directory holds TLA+ models of its kernel modules, of
its synchronisation service and of its support for virtual machines, TLC runs over small instances, and TLAPS proofs
about the scheduler for all instances. Paths below are relative to `src/src/`
unless they start otherwise; `linuxptp/` stands for
`service/sync/ptp/linuxptp-1.8/`.

1. [The system](#1-the-system): components, state, operations, interaction
2. [The modules](#2-the-modules): what models what
3. [Abstractions](#3-abstractions)
4. [The runs](#4-the-runs): what is checked, with which bounds and fairness
5. [What the code does differently](#5-what-the-code-does-differently)
6. [The proofs](#6-the-proofs)
7. [Not modelled, and the plan](#7-not-modelled-and-the-plan)

## 1. The system

### Inventory

| Component | Source | State | Operations |
| --- | --- | --- | --- |
| Timeline scheduler | `modules/qot/qot_scheduler.c` | an event tree of sleepers per timeline, `next_interrupt_callback`, the programmed interrupt | `qot_attosleep`, `qot_timer_create`, `qot_timer_destroy`, the core clock interrupt, `qot_scheduler_update` |
| Projection and discipline | `modules/qot/qot_timeline_chdev.c`, `qot_clock_gl.c` | `last`, `nsec`, `mult` per local timeline, one set for all global ones; uncertainty parameters | `qot_loc2rem`, `qot_rem2loc`, `adjtime`, `adjfreq`, `settime`, `GET_TIME_NOW` |
| Time arithmetic | `qot_types.h` | none | conversion, sums, differences and comparison of timepoints and timelengths, with intervals |
| Core clock drivers | `modules/qot_am335x`, `modules/qot_x86` | hardware counter, comparator | `read_time`, `program_sched_interrupt` |
| Timeline registry | `modules/qot/qot_timeline.c` | red-black tree of timelines by name, index allocation | `register`, `get_info`, `remove`, the event lock |
| Bindings | `modules/qot/qot_timeline_chdev.c` | bindings of a timeline, sorted lists of accuracy and resolution demands | join, leave, update, `poll`, `sync_update_flag` |
| Clock registry | `modules/qot/qot_clock.c` | platform clocks, the core clock | register, unregister, select |
| User device | `modules/qot/qot_user_chdev.c` | connections, an event queue each | open, close, create, destroy, wait, `poll` |
| Admin device, sysfs | `modules/qot/qot_admin*.c`, `*_sysfs.c` | OS latency | attribute access |
| Application interface | `api/c/qot.c`, `api/cpp` | a `timeline_t` per binding | bind, unbind, gettime, waituntil, timers |
| Coordinator | `service/Coordinator.cpp` | master, heartbeat timer | election by the strictest accuracy, heartbeats |
| Notifier | `service/Notifier.cpp` | known timelines | directory scan and watch |
| PTP service | `service/sync/ptp/PTP18.cpp`, `linuxptp/` | a thread per timeline; port state, foreign masters, timers | start, stop, best master election, Announce, Sync, faults |
| NTP service, uncertainty | `service/sync/ntp`, `SyncUncertainty.cpp` | a thread; estimators | start, stop, statistics |
| Broker | `service/broker/` | ZooKeeper sessions, topic assignment | master election, watch callbacks |
| Virtualisation | `virt/`, `api/c/qot.c` with `PARAVIRT_GUEST` | the daemon's list of timelines with a count of guests, a thread for each, parameters in shared memory | create, destroy and update for a guest; copying of parameters |
| Device daemon, GPS | `qot-daemon/` | none | device discovery, serial line |

### How the parts interact

* An application calls the C interface, which opens `/dev/qotusr` to create a
  timeline and `/dev/timelineN` to bind to it, read it, set timers and wait.
* `qot_attosleep` links a sleeper in the timeline's event tree, under that
  timeline's event lock, and programs the core clock when its expiry comes before
  `next_interrupt_callback`, under the scheduler lock.
* The core clock interrupt walks the event trees of all timelines, wakes what is
  due, looks for the next event and programs it, retrying if it has gone by.
* A synchronisation service disciplines a timeline through its PTP clock; the
  call changes the projection, then `qot_scheduler_update` walks that timeline's
  tree from process context.
* The notifier finds new timelines and starts a coordinator for each, whose
  election decides which node's clock the others follow; the coordinator then
  starts the PTP service with a role and a domain.
* Timelines are created by `timeline_bind` (through `/dev/qotusr`) or by an
  administrator (through sysfs), and removed by the last task to unbind or by an
  administrator. Every connection to `/dev/qotusr` is told of every timeline.
* An edge broker campaigns for a ZooKeeper lock and serves once it leads.
* An application in a virtual machine asks a daemon on the host for its timeline. The
  daemon binds once for all guests, and one of its threads polls the timeline and
  copies new parameters into memory that the guests read.

### What is hard, and what makes each part correct

| Component | Hard behaviour | Correct when |
| --- | --- | --- |
| Scheduler | four kinds of process on one tree and one interrupt; the expiry is projected under one clock and compared under another; unlocked tests; sleep and wake-up race | a sleeper is linked exactly while in use; no wake-up is lost; a sleeping task has somebody who will look at it; nobody is released early; every sleep returns; a timer signals `count` times on its phase |
| Projection | truncating and unsigned division, an unscaled remainder, times before the last discipline | the two directions agree within the rounding error; discipline never makes a projection undefined |
| Time arithmetic | borrow and carry around zero, sides of an interval | results are normalised; the interval contains the actual time |
| Registry, bindings | test and insertion in two critical sections, with a device made in between; removal while others look the timeline up, bind or end | one timeline per name; a timeline in the tree has its own complete device; the tree and the lists of bindings agree; everything is given back |
| User device | a connection opens while a timeline is created; events against poll | each connection learns of each timeline; poll reports what waits |
| Notifier | timelines come and go during the scan and before the watch; indices are used again | its map is the set of devices; every device is noticed |
| Coordinator | silence counted in heartbeats; samples lost, late, overlooked, or of nodes that have gone | a live master is kept; in the end all follow the strictest node |
| Broker | requests whose answer is lost, sessions that end, locks that vanish before they are watched | at most one leader with a session, and one again and again |
| PTP | Announces lost, or racing the announce timer; clocks that stop, fault and return | one master in the end; the parent is the master; Stop returns |
| Reading time | clock, parameters and uncertainty read in separate steps | the interval contains the timeline's time |
| Virtualisation | guests come and go by a count; the thread that serves them waits for the threads that copy; the flag of new parameters is cleared without the lock | list, threads and bindings agree; no guest loses its timeline to another; requests are answered; new parameters arrive |

`PROJECT.json` lists the hazards that weigh most, at their lines; section 5 has the
others that were met.

## 2. The modules

| Module | Models |
| --- | --- |
| `QotProjection` | the projection and the effect of the discipline operations on the parameters |
| `QotTime` | the arithmetic of `qot_types.h`, on records of seconds and a sub-second part |
| `QotUtime` | a client that reads a clock and adds and subtracts uncertain lengths |
| `QotScheduler` | the scheduler with its drivers and discipline calls; extends `QotProjection`, instantiates `QotTime` for the first expiry of a timer |
| `QotRegistry` | creation, lookup and removal of timelines, their devices and bindings, for several tasks and administrators |
| `QotUserDevice` | connections to `/dev/qotusr` and their events; extends `QotRegistry` and adds the announcement to its creation |
| `QotNotifier` | the notifier and its `Timeline` objects; extends `QotRegistry`, whose devices it watches |
| `QotCoordinator` | the election by heartbeat among the nodes of the timelines |
| `QotElection` | the election among brokers, with the ZooKeeper service it uses |
| `QotLease` | what that election promises: the abstract specification that `QotElection` implements (`ImplementsLease`) |
| `QotPtp` | the PTP service: clocks of one domain, their ports and messages |
| `QotVirt` | the daemon for virtual machines, its threads, the guests, and of the host's kernel the parameters and `poll` |
| `MC...` | the sets that the configurations use, symmetry |
| `QotScheduler_proofs` | type correctness of the scheduler and of the projection, the case analysis of `Next` that the other proofs use, and `LinkedIffInUse` |
| `QotWakeup_proofs` | `NeverStranded`, `NoMissedWakeup` and `TimerAccounting` |
| `QotUtime_proofs` | `Normalised`, `Contains`, `Ordered` |
| `QotUserDevice_proofs` | what allocation and the lists of bindings do, the invariants of names and of bindings, step by step, those of devices and connections, and the theorems about the registry and the user device |
| `QotElection_proofs` | `LeaderHoldsLock`, that the election implements the safety of `QotLease`, and `StandbyWatches` |
| `QotPtp_proofs` | what the functions of a port do to it, type correctness and `ParentIsRight` |
| `QotVirt_proofs` | type correctness of the daemon and its guests; the invariant behind the next two, with the steps of the host, the threads and the guests |
| `QotMirror_proofs` | the steps of the daemon's main thread, `Mirrors` and `Kept` |

### State of `QotScheduler`

| Variables | Code |
| --- | --- |
| `now`, `armed`, `next_interrupt_callback` | the core clock, its comparator (`Off`: not programmed), the static variable at the top of `qot_scheduler.c` |
| `params` | `timeline_impl_t` of a local timeline; index 0 is `clkgl_params` |
| `tree`, `fifo` | the red-black trees, as sets: order is by `qot_expires`, and `fifo` keeps the order of insertion among equals |
| `evlock` | which walker holds a tree's `rb_lock`; the other holders need one step each |
| `timeline`, `qot_expires`, `sleeper_active`, `task` | fields of `struct timeline_sleeper`; `task` says whether the pointer is set |
| `timer` | period, count and counts of a timer, and as history its first expiry and the signals sent |
| `pc`, `core_time_expiry`, `interruptible`, `signalled` | a task in `qot_attosleep`, or the timer owner in an ioctl |
| `owner` | the timer owner: the timer in hand, and the timer pointer of its binding on each timeline |
| `wpc`, `node`, `cur`, `isr`, `upd` | the interrupt handler and the discipline call: program counter, iterator and locals |
| `reached`, `cancelled`, `fault` | history: the timeline has reached a task's expiry; timers cancelled; freed memory was used |

### Actions

A step is what runs under one lock, or one unlocked access to shared state.

| Code | Actions |
| --- | --- |
| `qot_attosleep` | `InitSleeper`, `Convert`, `SetInterruptible`, `StartReadTime`, `StartCheck`, `StartProgram`, `Schedule`, `Resume`, `EraseSleeper` |
| `qot_sleeper_start_expires` | `StartReadTime`, `StartCheck`, `StartProgram`, for tasks and for the owner |
| `qot_timer_create` | `InitTimerSleeper`, `ConvertStart`, the start, then `PublishTimer` or `UnwindTimer` |
| `qot_timer_destroy` | the action of that name |
| `qot_sleeper_wakeup` | `WakeTimerAgain`, `WakeTimerLast`, `WakeTask` then `ClearTask`, `SkipTask` |
| `scheduler_interface_interrupt` | `Interrupt`, `IsrProject`, `WalkBegin`, the wake-ups, `IsrWalkEnd`, `IsrNextEvent` (`qot_get_next_event`), `IsrProgram`, `IsrReread`, `IsrForce` |
| discipline calls | six actions named after the functions, three for local and three for global timelines |
| `qot_scheduler_update` | `UpdRead`, `WalkBegin`, the wake-ups, `UpdWalkEnd`, `UpdRecheck`, `UpdProgram` |
| driver | `Programmable` and `ArmTime` |

The environment contributes `Tick`, `Signal`, `OwnerExit` and the arguments of the
calls.

### `QotRegistry`, `QotUserDevice`, `QotNotifier`

| Variables | Code |
| --- | --- |
| `info`, `tree` | allocated `timeline_t` objects by address, and those linked by name |
| `impl` | `timeline_impl_t` by index: the object it was made for, how far its device is set up, who has it open, its tree of bindings and its list of demands |
| `proc` | where each task is in a call, and its locals |
| `usr`, `queue`, `event_flag`, `walk` | connections: stage, event list, flag, and where a creation is in its walk over them |
| `taking` | a reader inside `list_del`, or between its look at an empty list and the clearing of the flag |
| `cut`, `overlooked`, `told`, `announced`, `kept` | history: connections whose list was cut, or whose flag was cleared over an event; announcements; devices that a failed creation left behind |
| `watch`, `todo`, `inbox`, `adding`, `timelines` | the notifier: stage, directory entries left to scan, inotify events, the `Timeline` under construction, its map |
| `unseen` | history: indices whose device came or went between scan and watch |
| `fault` | freed or uninitialised memory was used, or a list or tree without a lock was changed by two tasks at once; the behaviour ends there |

An action is one critical section or one unlocked access. `qot_timeline_create` is
`create_find`, then `create_exists` or `device_create`, `posix_clock_register`,
`chdev_init`, `qot_timeline_insert` and, for the loser of a race, `create_undo`,
`create_unregister`, `create_fail`. `qot_timeline_remove` is `remove_find`,
`remove_check`, `remove_destroy`, `remove_erase`. `timeline_bind` goes from
`get_info` or creation to `open`, `BIND_JOIN` (the tree, under its lock) and
`insert_lists` (the lists, without one). An update is `BIND_UPDATE` (`list_del`) and
`insert_lists`; unbinding is `BIND_LEAVE` (`list_del`), `leave_tree` (`rb_erase`, under
the lock), `unbind_close` and a removal. `exit` ends a process between two system
calls: its files are closed and its binding stays.
Opening `/dev/qotusr` is `usr_open` (the connection is linked) and `usr_announce`;
a creation goes on with `create_notify`, one connection per step. `GET_NEXT_EVENT` is
`read_events`, followed by `list_del_end` when it takes the only event and by
`clear_flag` when there is none. The notifier is
`Scan`, `ScanNext`, `inotify_add_watch`, `read` (with `add` and `del`),
`Timeline_open` and `Timeline_start`.

### `QotCoordinator`

`Heartbeat` is the whole timer handler: timeout, publication, election, restart of
the service. `silence` is `counter_ - lastcount_`, cut off where larger values are
not told apart. A second has `Slots` phases, in which heartbeats fall;
`on_data_available`, `Overlooked` (the heartbeat read the sample before the
listener saw it) and `Lost` are the three fates of a sample.

### `QotElection`

`connected`, `expired` and `leader` are the static variables of `zk_logic.c`;
`inbox` holds what the client library has yet to hand over, in order. The actions
are the watchers and completions by name and the three waits of `init_zk_logic`.
The service is external: `Execute`, `Connect`, `Drop`, `Expire`, `Refuse`, `Crash`.

### `QotPtp`

`port[c]` is the port of a running clock: state, `best`, the clock's `parent`, the
foreign masters with the ages of their messages, the held Sync or Follow_Up, and
the announce timers. Functions of `port.c`, `bmc.c`, `fsm.c` and `clock.c` are
operators of the same name from a port to a port. An action is one pass of
`clock_poll` (`port_event`, `FD_ANNOUNCE_TIMER`, `port_tx_announce`,
`port_tx_sync`, `Fault`, `clock_fault_timeout`, `InitializeFails`, `LinkDown`,
`LinkUp`, `LinkUpFails`) with the state decision it may ask for (`Polled`), or a call of
`PTP18::Start` or `Stop`. The transport may fail to open whenever a port is initialised
(`InitializeFails`, `LinkUpFails`, `StartFails`).

### `QotVirt`

`kernel` is what the daemon sees of the host's timelines, with a stamp in place of
each set of parameters; `vtimeline` and `tl_count` are the daemon's list; `main` and
`thread` are the program counters of its threads; `shm` is the shared memory, the
first parameter apart from the others; `msg[g]` is the message of a guest or the reply.
The three messages are `TIMELINE_CREATE` (then `CREATE_TIMELINE`, `BIND_JOIN`,
`pthread_create`), `TIMELINE_DESTROY` (then `cancel`, `pthread_join`, `BIND_LEAVE`,
`DESTROY_TIMELINE`) and `TIMELINE_UPDATE`, with a step for each system call.
`write_timeline_params` is `OpenTimeline`, `GET_PARAMETERS`, `CopyFirst`,
`CopyOthers`, `qot_timeline_chdev_poll`, `ClearFlag` and `EndThread`.

## 3. Abstractions

The scheduler:

* Times are integers; a "second" has `Giga` units and an unsigned 64-bit number
  wraps at `Word`. Both are parameters, so the divisions and the wrap-around of
  `qot_rem2loc` are the code's, at a smaller scale in the runs.
* The core clock stops at `MaxNow`. That value stands for all later times: an
  interrupt programmed beyond it may fire (`AtHorizon`). A second reading of the clock
  may give the same value as the first.
* With `SMP = FALSE` nothing runs beside the interrupt handler or beside a walk,
  which masks interrupts (`raw_spin_lock_irqsave`); a process may be preempted
  between any two of its other steps. With `SMP = TRUE` only the locks order steps.
* There is one process that disciplines timelines, and one owner of timers, with
  one binding on each timeline. A timer identity is one allocation.
* Once the owner has used a timer that was freed, `fault` is set and the model
  stops: C says nothing of what follows, so neither does the model.
* `UpdRead` reads `next_interrupt_callback` and the core clock in one step.
* Global timelines are disciplined against `CLOCK_REALTIME` and scheduled on the
  core clock. The model has one clock for both, as on x86.
* A frequency correction keeps a timeline running forward (`Ppb`), which the cast
  `(u32)(mult + 1000000000)` relies on. `adjtime` on a global timeline with no mode
  bit set is an offset of zero.
* Allocation failure and the absence of a core clock are left out;
  `qot_timeline_lock` orders nothing here because no timeline is created or removed.

The registry and what is built on it:

* An object has an address nobody remembers when it is allocated, so a pointer to
  freed memory is recognised. Its use sets `fault` and ends the behaviour, as above;
  the properties speak of the behaviours before that, and `NoFault` is discussed in
  section 5.
* One list of demands stands for the three of the code, which are treated alike;
  a demand is a number. Failures of allocation are left out.
* The lists have no lock, and neither has the tree of connections. A change is one
  step. When another task could make a change at that moment (it has the device open
  and is bound or inserting; it may open or close a connection, or walks over them), the
  two may overlap, and the step has two outcomes: both changes take place, or `fault`.
  Lookups in a tree that changes meanwhile (`con_search`, `find_binding`) are
  taken to find what they look for.
* `Stale` is the set of values that the index in a caller's `timeline_t` may have
  by chance when a call does not set it.
* A task has one binding at a time, and reads events while it is bound, whether it has
  polled (`timeline_read_events` does) or not. An administrator does not bind, and has no
  `timeline_t` of its own.
* The notifier reads the directory in one step (`Scan`); devices are added in any
  order. inotify reports in order and loses nothing. The demand that
  `TIMELINE_GET_BINDING_INFO` reads from the first binding of a list may be that of a
  binding whose task leaves at the moment: then `fault`, or what was there.

The elections:

* `QotCoordinator`: a sample takes less than a slot. `Coordinator::Update` has no
  caller (the thread that would call it is not started) and is left out, and so is
  `on_liveliness_changed`, which only logs. The accuracy of a node is positive.
  The random domain is any of `Domains`.
* `QotElection`: a broker has one request out at a time, as the code does. The
  parent znodes exist. Session expiry follows a lost connection.
* `QotPtp`: one port per clock and one domain. `PTP18` leaves `slaveOnly` at 0 and
  `clockClass` at 248, so PRE_MASTER, PASSIVE, DISABLED and `ptp_slave_fsm` cannot be
  reached. One event per poll, except that the announce timer may be ready beside
  a message. The interval of Sync messages is left open (`mod_log_sync_interval` is
  uninitialised for intervals of a second or more). Delay measurement, the servo
  (its verdict is a choice) and management messages are not modelled. Identities
  differ.

The virtual machines:

* A call of the registry is one step; `QotRegistry` looks into it. A guest runs one
  application and has its timeline in its own kernel already when it asks.
* A guest reads the shared memory whenever it likes, so that reading is no action:
  what it may find is a question about `shm`.
* `poll` returns within a second, and finds the flag whether the thread was woken
  or not.
* `Crash` is the end of a virtual machine, which closes its socket. Messages are not
  lost or cut; the guest's retry after a short read is left out.
* Once the daemon writes outside the shared memory or waits for a thread that it has
  not started, `fault` is set and it stops.

## 4. The runs

`tlc -config <run>.cfg <module>`, with the module that `PROJECT.json` names.
Deadlock is not checked: the clock and the calls are bounded, and a system in which
nobody waits for anything may stop. In `QotPtp` a clock whose port is closed, with
no timer left, waits for ever.

### Runs that pass

| Run | Instance | Properties |
| --- | --- | --- |
| `am335x_sleep` | two tasks, signals, one processor | `TypeOK`, `NoMissedWakeup`, `NeverStranded` |
| `am335x_discipline` | a task, a local timeline stepped both ways, slewed both ways and set, two discipline calls | `NeverStranded`, `NoEarlyRelease`, `UpdateReleasesOverdue` |
| `am335x_live` | a task and a counted timer, a step forward, fairness | `SleepReturns`, `TimerEnds` |
| `x86_smp` | a task, a counted or endless timer, a global timeline set or stepped back once, at any point of a sleep or of the handler, cancel, owner exit, several processors | `LinkedIffInUse`, `TimerAccounting`, `NoEarlyRelease` |
| `utime` | chains of three uncertain additions and evenly uncertain subtractions around zero | `Normalised`, `Contains`, `Ordered` |
| `registry` | two tasks and an administrator, one name, three calls, a crash | `DeviceTypeOK`, `NamesUnique`, `HasDevice`, `BindingsAgree`, `Announced`, `PollReports`, `Reclaimed` |
| `service` | two tasks, one name, three calls, a notifier that starts at any time | `Follows`, `AllReclaimed`, `Noticed` |
| `coordinator` | two nodes on a timeline and one on another, one stop and restart, one sample missed | `NoFalseTimeout`, `Elected` |
| `broker` | three brokers, one connection broken, one crash | `LeaderHoldsLock`, `StandbyWatches`, `HolderLeads`, `ImplementsLease` |
| `ptp` | two clocks, two troubles of any kind (a stop, a fault, a link down, a lost message), one Sync | `TypeOK`, `ParentIsRight`, `Converges`, `StopReturns`, `Loyal` |
| `virt` | two guests of one timeline, three requests, two discipline calls, one trouble (an application on the host with a timeline of its own, the end of a guest, SIGINT) | `TypeOK`, `Mirrors`, `Kept`, `Answered`, `Refreshed` |

A property is listed in the run where it tells most. `LinkedIffInUse` and
`NoEarlyRelease` hold in the instance of `am335x_sleep` too, `NoMissedWakeup` in that of
`am335x_discipline`, and `TypeOK` of `QotCoordinator` and of `QotElection` in those of
`coordinator` and `broker`.

`NoEarlyRelease` allows for two things. The tolerance `HasReached` is the shortest
interval the driver can program plus the rounding of one conversion. And a
projection computed before a discipline call may be acted on after it. The task projects
its expiry once for its whole loop (line 434 of `qot_scheduler.c`, `StaleExpiry`): a
timeline stepped back between lines 434 and 337 lets the call return before the timeline
reaches the time asked for, with one processor as with several. The handler projects the
clock before it takes the event lock (line 268, `StaleTime`): on several processors a
step back in between lets it wake a task too early. Without either exemption the property
fails in `x86_smp`, and without `StaleExpiry` in `am335x_discipline`; with both, nothing
else in a walk, a retry or a failed start releases a task early.

`UpdateReleasesOverdue` is what an update guarantees: it speaks of expiries that
had gone by at the update's *first* reading of the clock. The stronger
`OverdueIsReleased`, of whoever is overdue whenever nothing runs, is what the
comment on `qot_scheduler_update` suggests, and it fails (`v_update`).

`NamesUnique` and `HasDevice` hold although two creations of one name may both make
a device: the loser takes its own back. `Announced` is the interplay of a walk over
the connections with a connection that is being opened; it is the reason why
`qot_user_chdev_ioctl_open` links first and announces then, at the price of double
announcements. `Reclaimed` is about what is left when all calls have returned: a device
without a timeline is one that was bound to, by an index held by chance, before its
creation lost the race for the name (`kept`), so that its removal is refused.
`BindingsAgree` speaks of the states outside the gaps of `BIND_JOIN`, `BIND_UPDATE` and
`BIND_LEAVE`, between the tree and the lists. `PollReports` allows for one event that is
overlooked: it came after the reader had found the list empty and before it cleared the
flag. `Follows`, `AllReclaimed` and `Noticed` exempt the indices in `unseen` and no
others; section 5 has those.

`NoFalseTimeout` is about a master that has been heard since it was elected. One
missed sample is then not enough to give it up, with `MASTER_TIMEOUT` 2 as with the
code's 3 and two misses. `Elected` speaks of nodes whose demand does not change
over a restart (`Steady`).

`ImplementsLease` is a refinement: under the mapping that takes the running brokers
with a session as candidates, and those of them with `leader` set as leaders, every
behaviour of `QotElection` is one of `QotLease`, with its liveness.

`Converges` says that once nothing more goes wrong the best clock that can be heard
is the only master and the others follow it. `Loyal` says that a port in state SLAVE
does not take over while it has heard from a better master within the last interval, and
often enough for that master to qualify.
`StopReturns` leaves out the closed port with no timer (section 5).

`Refreshed` is about the comment at `qot_timeline_chdev.c:949`, "May cause a race but
seems to be harmless": an update between the test of the flag and its clearing loses
its flag, but the thread reads the parameters after that, and has the new ones. It is
so because one thread polls a timeline. `Mirrors` relates the daemon's list, its
threads and the host's bindings to what the guests have been told; `Kept` is the
guests' view of it. `Answered` holds although the only thread that serves guests
waits for a thread that polls.

### Bounds

Two tasks are enough for one to overwrite the other's interrupt, for equal
expiries, and for a walk to pass a task already woken. Two discipline calls let the
second fall into the conversions and sleeps that the first one disturbed.
`MaxDelta` is smaller than the clock's range or equal to it, so that the am335x
driver's limit on intervals is met by the initial `MAX_TIMEPOINT_SEC`; for x86 it
is larger, as in the code. `Giga = 4` with rates of one unit gives a quarter
faster or slower, so that conversions round; `Word = 4096` is far above all times,
so that only a difference that is really negative wraps. `LastRequest` stops new
calls early where a run would otherwise be too large. In `am335x_live` the last
expiry of the timer is below `MaxNow`: an expiry at the horizon is never passed,
because the clock stops there.

Two creators and a remover of one name meet in every pair of steps of `registry`;
an administrator removes what tasks are bound to; one task binds to the device that the
administrator has made, and loses to the other, so that it cannot be taken back. In
`service` three calls let a device go and its index return while its events are
unread, and let devices come and go before, between and after scan and watch. Three tasks
are out of reach there (more than 50 million states), and a process that ends is left to
`registry`. In `x86_smp` requests come until after the first tick, so that a discipline
call meets a task in every step of its sleep and the handler in every step of a walk.
`coordinator` has three phases in a second, so that a slave's heartbeat
falls before or after the master's, and a stop and a restart in any phase. Three
brokers are a master, a standby that succeeds it and one whose watch moves; two
broken connections with three brokers, and three with two, were checked too. In
`ptp` two lost messages, or one and a restart, are what the announce timeout of
three intervals is sensitive to. Checked as well: three troubles; two Sync
messages; an interval of two ticks. With three clocks all five properties hold without
troubles, with no Sync (36 thousand states) and with one (1.6 million); with one
trouble and no Sync `Converges`, `StopReturns` and `Loyal` (1.5 million);
with one trouble and one Sync the search for `Loyal` was stopped, unfinished, at 39
million states without a violation.
Only there has a port two foreign masters, one of which `port_compute_best` clears.

In `virt` three requests let both guests bind and one bind again, so that the last
guest leaves, or stays, while another comes, and two discipline calls let the second
fall between the test of a flag that the first has set and its clearing. With two names and room for three
timelines the properties hold for two requests (780 thousand states), and for three
requests without a trouble.

### Fairness

`FairSpec` assumes that the clock runs, that a programmed interrupt is taken and
that its handler proceeds (weak fairness: nothing disables these). A process
inside a call is disabled whenever the handler runs, so the scheduler's promise
that a runnable process is run is strong fairness of its steps. Nobody has to make
a call, send a signal or exit.

In the other modules fairness is weak and covers what a working machine does by
itself: the service's thread is woken by an event (`QotNotifier`); timers fire and
samples arrive (`QotCoordinator`); threads run, the service answers and accepts
connections, and the session of a crashed broker ends (`QotElection`); threads run,
messages arrive and time passes (`QotPtp`, where the formula spells out what
enables a step: `Quiet`, `Due`); the daemon's threads run and `poll` times out
(`QotVirt`). Failures, calls and repairs of links are never
assumed. Losses and crashes are bounded in number, so "in the end" means once
nothing more goes wrong.

## 5. What the code does differently

One run checks a property that a comment states, and ends in a counterexample.

| Run | Property | What happens |
| --- | --- | --- |
| `v_update` | `OverdueIsReleased` | an expiry between the update's two readings of the clock is neither woken nor programmed |

More properties of the modules fail. Each is stated there, and is found violated
when it is put into the configuration of the run named, with the constants given.

| Property | Run and constants | What happens, against which words |
| --- | --- | --- |
| `EarliestIsProgrammed` | `am335x_sleep` | two tasks pass the unlocked test at `qot_scheduler.c:340`, and the later expiry is programmed last (line 329) |
| `NeverStranded` | `x86_smp`, `SMP = FALSE`, no timer, `Giga = 16`, `Ppbs <- Halved`, `Deltas` and `Settings` empty, local, `Expiries = {6}`, `MaxNow = 12`, `LastRequest = 99` | the x86 driver ignores `force`: an interrupt that comes early on a slow timeline leaves none programmed (line 323) |
| `NoMissedWakeup` | `v_update`, `SMP = TRUE` | the woken task sleeps again before its task pointer is cleared (line 172) |
| `OverdueIsReleased` | `v_update`, `Global = {1}`, `Deltas = {}`, `Settings = {6}` | a stray semicolon at `qot_timeline_chdev.c:550` makes `settime` return before the update |
| `CancelledIsDead` | `x86_smp`, `Timer = {k1, k2}`, `SMP = FALSE`, no task, no discipline, `LastRequest = 99` | cancelling the older of two timers destroys the newer (`api/c/qot.h:239`) |
| `NoFault` | `registry` | a removal goes on with a timeline that another has freed (`qot_timeline.c:75`) |
| `BoundIsKept` | `registry` | a task joins between the test for bindings and the removal, or an administrator removes (`qot.c:243`: "will destroy if no other bindings exist") |
| `IndexUnique` | `registry`, two names | a removal gives its index back before it takes the name out of the tree, and a creation in between draws the same (`qot_timeline_chdev.c:1009`: "an index that identifies it uniquely") |
| `BoundToNamed` | `registry`, two names | creation of a timeline that exists counts as success and leaves the caller's index as it was: another timeline's device is opened (`qot.c:137`) |
| `TightestFirst` | `registry`, `Demand = {1, 2}` | a binding goes before the first whose demand *differs* (`qot_timeline_chdev.c:660`) |
| `DataReady` | `registry` | a reader that finds the list empty clears the flag after an event has come (`qot_user_chdev.c:58`: "Data ready flag") |
| `NoneLeftBehind` | `registry` | the device of a creation that lost the race has been bound to by an index held by chance; the refusal to remove it is not looked at (`qot_timeline.c:226`) |
| `AllReadable` | `registry` | an event is taken from the list without its lock while one is added (`qot_user_chdev.c:60`) |
| `AlwaysNoticed` | `service` | the directory is scanned before it is watched, and a device that comes in between is not noticed (`Notifier.cpp:67`: "add all existing timelines") |
| `StartsOnDemand` | `service` | the demand is read before the creator has bound, from an empty list (`Timeline.cpp:45-47`) |
| `Served` | `service` | the device node appears before it can be opened, and opening is not tried again (`Notifier.cpp:108`: "this is a valid timeline") |
| `Elected` | `coordinator`, `Hosted <- Pair`, `Demands <- Weakening`, `Steady = FALSE` | a master that returns with a weaker demand is kept by some (`readme.md:927`) |
| `Elected` | `coordinator`, `Hosted <- Crossed`, `Demands <- Alike`, two names, no stop, no miss | the topic is keyed by the node's name: a node on two timelines overwrites its own sample |
| `FullTimeout` | `coordinator` | `lastcount_` is not set at an election: a new master has less than `MASTER_TIMEOUT` heartbeats (`Coordinator.cpp:39`) |
| `SameDomain` | `coordinator`, `Domains = {1, 2}`, no stop, no miss | slaves do not follow a master that changes its domain |
| `StandbyWatches`, `HolderLeads` | `broker`, two brokers, `TimesOut = TRUE` | a creation that times out is not checked (`zk_logic.c:289`: "in the case of errors ... we need to check") |
| `StandbyWatches` | `broker`, two brokers, `DropsAtStart = TRUE` | a connection lost before the first campaign: nobody campaigns again |
| `StandbyWatches` | `broker`, `Overlap = TRUE` | a watch that fires because the lock changed hands is ignored and not renewed |
| `OneServes` | `broker`, two brokers | `leader` stays set when the session ends (`zk_logic.c:1136`) |
| `LeaderHoldsLock` | `broker`, `server_id <- Equal` | `server_id` is seeded with the time in seconds |
| `HoldsOfParent` | `ptp`, three clocks, `MaxTroubles = 0` | an UNCALIBRATED port that changes its master keeps the Sync of the old one |
| `LoyalUncalibrated` | `ptp`, three clocks, `MaxSyncs = 0`, `MaxTroubles = 1` | an UNCALIBRATED port that changes its master does not start the announce timer again, which runs out although the new master is heard |
| `AppointedServes` | `ptp` | `PTP18::Start` logs the role it is given, and sets nothing that the election of PTP looks at |
| `Mirrors`, `Kept`, `Refreshed` | `virt`, `HostName = {na}` (`Refreshed`: `MaxRequests = 1`) | a timeline that exists, because the host has it, is not in the daemon's list: nothing is counted, nobody binds, no thread writes (`qot_virthost.c:470`) |
| `Kept` | `virt`, two names, `HostName = {}`, `MAX_TIMELINES = 1` | a guest that was refused does not look at `retval`; when it unbinds, the count of whoever has that timeline by then goes down (`qot.c:195`: "Add error handling") |
| `Refreshed` | `virt`, `Global = {na}` | a discipline of a global timeline does not set `sync_update_flag` (`qot_timeline_chdev.c:576-609`) |
| `WrittenFirst` | `virt` | the reply is sent before the thread has written the first parameters (`qot_virthost.c:456`) |
| `Untorn` | `virt` | the parameters are copied one by one into memory that guests read (`qot_timeline_chdev.c:931`) |
| `Satisfied` | `virt`, `Demand = {1, 2}` | the demand of a guest that joins an existing timeline is not passed on, and an update replaces that of the others |
| `Survives` | `virt` | the reply to a virtual machine that has ended raises SIGPIPE, which ends the daemon (`qot_virthost.c:559`) |
| `Inside` | `virt`, `HostName = {nh, nb}`, `MaxTroubles = 2` | an index beyond `MAX_TIMELINES`, which others on the host use up too, is written outside the shared memory (`qot_virthost.c:192`) |

`PTP18::Stop` waits for a thread that may be in `poll` without a timeout: after a
link has gone down, or after the transport could not be opened again (the fault
timer is not set a second time), it returns only when the link changes
(`StopReturns` excludes it with `Deaf`).

Other differences met while modelling, part of the model or the arithmetic but
without a property of their own:

* A step of the clock that all global timelines share updates the sleepers of the
  one timeline it was made through (`qot_timeline_chdev.c:605`).
* `utimepoint_sub` (`qot_types.h:353`) adds like sides of the intervals, where
  subtraction exchanges them; the run `utime` therefore subtracts lengths with
  even intervals only.
* `timepoint_diff` (`qot_types.h:279`) subtracts seconds and attoseconds each on
  its own, without a borrow. `FirstExpiry` is computed with it.
* `timelength_cmp` (`qot_types.h:122`) has the opposite sign of its comment; its
  callers rely on the code. The comment at `Coordinator.cpp:118` says "choose the max of
  the upper and lower bound of accuracy", and line 122 takes `timelength_min`;
  `timelength_max` is called only from `Coordinator::Update`, which has no caller.
* SIGINT interrupts the daemon's `select`, which is then followed by an `accept` that
  blocks until a guest connects (`qot_virthost.c:360-370`).
* A timer may complete and be freed while `qot_timer_create` still uses it
  (`fault`).

Hazards outside the models, seen while reading:

* A task sleeps with a pointer to a timeline that may be removed meanwhile
  (`qot_user_chdev.c:389`).
* The core clock is freed when its driver unregisters, and the pointer to it stays
  (`qot_clock.c:201`).
* The notifier deletes a coordinator whose heartbeat may be queued already; `cancel`
  does not take it back (`Timeline.cpp:80`).
* The pool of messages of linuxptp is a list without a lock, shared by the threads of
  all timelines (`linuxptp/msg.c:45`).
* `NTP18::Stop` joins a thread that may wait for a condition nobody signals
  (`NTP18.cpp:422`).
* A short read makes a guest send its request again, so that it may be carried out
  twice (`qot_virtguest.c:197`).

## 6. The proofs

The theorems hold for every value of the constants that satisfies the assumptions of
the modules: any numbers of tasks, timers, timelines, names, connections, brokers, PTP
clocks and guests, any clock range, any sets of arguments. The assumptions
(`SchedulerAssumption`, `ProjectionAssumption`, `TimeAssumption`, `UtimeAssumption`,
`RegistryAssumption`, `DeviceAssumption`, `ElectionAssumption`, `PtpAssumption`,
`PortAssumption`, `VirtAssumption`, `RequestAssumption`) say that identities are
distinct, that quantities are numbers, that periods are positive, that timelines run
forward, that there are finitely many tasks and guests, that the connections of tasks
have different addresses, and that `Nil` is neither a port nor a request. TLC evaluates
them in each run.

| Theorem | Statement | Inductive invariant |
| --- | --- | --- |
| `TypeCorrect` | `Spec => []TypeOK` | `TypeInv`: also that the owner converts the start of a timer it has |
| `Stranded` | `HonoursForce => (Spec => []NeverStranded)` | `AttendedInv` |
| `MissedWakeup` | `~ SMP => (Spec => []NoMissedWakeup)` | `WakeInv` |
| `TreesHoldWhatIsInUse` | `Spec => []LinkedIffInUse` | `LinkInv` |
| `TimersAccounted` | `Spec => []TimerAccounting` | `AccountInv`, on top of `LinkInv` |
| `StaysNormalised` | `Spec => []Normalised` | itself |
| `IntervalContains` | `Even => (Spec => []Contains)` | `ContainsInv` |
| `ComparisonIsOrder` | `Spec => []Ordered` | follows from `Normalised` |
| `NamesStayUnique` | `DeviceSpec => []NamesUnique` | `NameInv` |
| `BindingsStayTogether` | `DeviceSpec => []BindingsAgree` | `BindInv` |
| `TimelinesHaveDevices` | `DeviceSpec => []HasDevice` | `SoundInv`, on top of the two |
| `AnnouncementsReachAll`, `PollTellsOfEvents`, `DeviceIsTyped` | `DeviceSpec => []Announced`, and so on | `DInv`, which includes all of these |
| `LeaderOwnsTheLock` | `DistinctIds => (Spec => []LeaderHoldsLock)` | `LockInv` |
| `ElectionIsALease` | `DistinctIds => (Spec => Lease!LeaseSafe)` | `LockInv` |
| `StandbyIsWatching` | `Calm => (Spec => []StandbyWatches)` | `WatchInv` |
| `PtpIsTyped`, `SlavesFollowTheirMaster` | `Spec => []TypeOK`, `Spec => []ParentIsRight` | `PtpInv` |
| `VirtIsTyped` | `Spec => []TypeOK` | `Served`: also whose message the main thread carries out, and on which entry of the list |
| `DaemonMirrorsItsGuests`, `GuestsKeepTheirTimelines` | `Separate => (Spec => []Mirrors)`, `Separate => (Spec => []Kept)` | `Mirror`, on top of `Served` |

**`Stranded`.** That a sleeping task has an interrupt is not inductive: it comes
to rest because `next_interrupt_callback` is no later than its expiry, so the
invariant says that a value below `MAX_TIMEPOINT_SEC` there has an interrupt
behind it (`NextAttended`), that a task about to sleep counts as sleeping
(`RestingAttended`), and that a set task pointer has an active sleeper, without
which the start would skip the programming (`Active`). The handler ends by
programming something only if the driver heeds `force`; section 5
shows that the hypothesis is needed. The theorem says nothing of *when* the
interrupt comes (`EarliestIsProgrammed`).

**`MissedWakeup`.** Between `WakeTask` and `ClearTask` the pointer of a woken task
is still set. The invariant says that this task is not asleep (`WokenIsAwake`).
On one processor nothing runs in between; on several the statement is false
(section 5).

**`TreesHoldWhatIsInUse`.** A walk unlinks and re-links the sleeper under its
iterator, so the invariant must know that the iterator is linked in the tree whose
lock the walk holds (`WalkLinked`) and that reading the next node does not return
the same one (`Irreflexive`, of the order among equal expiries). Destruction goes
through the binding's pointer, so that has to name an allocated timer of the same
timeline (`BoundHere`), and so does the timer in the owner's hand (`InHand`).
It holds on several processors.

**`TimersAccounted`.** Only a live timer may be signalled for the count to be
right; that the timer in a walk's hand is live is `LinkInv`. The phase is one
step of arithmetic.

**The time arithmetic.** Lemmas relate each operation on seconds and attoseconds to
the integer that the record stands for (`Value`), for any number of attoseconds in a
second; the theorems are about integers from there on. `Even` says that lengths with
unequal sides are not subtracted: section 5 has the reason.

**`NamesStayUnique`.** Uniqueness alone is not inductive: the task that inserts has
looked the name up in the same critical section, but its timeline must not be in the
tree already, or in the hand of another. `NameInv` says what the pointer of a task may
name at each label: a timeline of its own outside the tree while it creates (`Apart`:
no two tasks the same), and after a lookup a timeline of the tree, or freed memory.
That there is always a free address rests on counting (`FreshAddress`).

**`BindingsStayTogether`.** `Tie` says for each label how a task stands to a device:
its file, its place in the tree of bindings and in the list. It needs that a task has
one file at most (`OneFile`) and is once at most in a list (`Single`), which the lemmas
about `qot_insert_list` and `list_del` carry along. Between the tree and the lists (`Gap`)
a task is in the tree only; it cannot end there, and its device is not unregistered under
it, because `posix_clock_unregister` waits for the ioctl. A binding that outlives its
process stays in the tree and in the list alike. Where two tasks change the lists at the
same moment the theorem claims something only of the outcome without damage.

**`TimelinesHaveDevices`.** A removal destroys the device first and erases the timeline
after it, so that the invariant excuses a timeline that somebody is about to erase
(`Erases`). Two removals of one timeline may both get there, and then the second frees
it again; from then on (`fault`) neither `HasDevice` nor `BindingsAgree` nor `Announced`
claims anything. The state in which this is certain, before
the fault, is `Doomed`, and `DoomedStays` shows that it leads nowhere else. `SoundInv`
is: a fault, `Doomed`, or each timeline has its device (`Own`) and each task that
creates or removes has the right address of it (`Addressed`).

**`AnnouncementsReachAll`.** While an announcement walks over the connections, those
behind it have been told, either by it or, if they came later, by their own scan of the
tree (`Passed`). The walk goes by address, so no connection can appear between its place
and the next one without being either told or still ahead. That it ends only at the end
needs that the tree of connections is totally ordered (`Address` is injective). Like
`BindingsAgree` it claims nothing once two tasks have damaged the tree at the same moment.

**`PollTellsOfEvents`.** The queue of a connection grows under its lock together with the
flag, or in the opening, whose own flag adds to one that was set before; the reader alone
clears it. The invariant is the statement itself, which names the connections whose
reader has cleared the flag over an event that came in between (`overlooked`), until the
next event sets it again.

**`LeaderOwnsTheLock`, `ElectionIsALease`.** A broker learns that it leads from an
answer, or from reading its own identifier in the lock, so the invariant is about what
the queues hold: an answer or an identifier under way that will make a broker lead
comes from the session that owns the lock (`LockInv`). `DistinctIds` says that no two
brokers share an identifier, which the code draws at random. The refinement is proved
for the safety part of `QotLease`: initial states, and each step maps to a step or to
none.

**`StandbyIsWatching`.** A broker may rest only when its last look at the lock has set
a watch. `WatchInv` follows the chain of requests, answers and events in each queue
(`Answers`, `News`): while one is under way, the broker will look again. `Calm` is what
the run `broker` assumes too: one connection at most is down at a time, no request ends
with an operation timeout, and no connection is lost before the first request. Section 5
shows that each of the three is needed.

**`SlavesFollowTheirMaster`.** Within one round of `clock_poll` the statement is false: an
announce timeout makes a port MASTER while the clock's parent is the old one, and
`port_compute_best` replaces `best` before state and parent follow. So the lemmas have two
levels. `Sane` is what every function of a port leaves behind: types, bounded lists of
messages, and a `best` that is in the list of foreign masters. `Right` adds what state and
parent have to do with `best`, and holds where a round ends, after the state decision if
one was asked for (`sde`). Lost messages, faults, stops and links that go down need no
hypothesis, and the servo's verdict may be any.

**`VirtIsTyped`.** That `tl_count` is the number of entries in use depends on which entry a
message works on: one is taken after the test for room, in another step, and freed several
system calls after it was found in the list. `Served` carries these tests over the steps in
between, together with whose request it is.

**`DaemonMirrorsItsGuests`, `GuestsKeepTheirTimelines`.** While a message is carried out,
list, bindings, counts and threads disagree, each in its own steps. `Mirror` says what is
excused, and until when: a timeline just created is not bound yet (`Bindings`), its entry
counts a guest that has not been told, and one that is given up no longer counts the last
guest (`Counts`), the thread of an entry is missing from the moment the main thread has
waited for it (`Threads`). It also needs that indices are unique (`Indices`) and that list
and timelines correspond one to one (`Complete`), since the daemon finds an entry by its
index. `Separate` says that the host has no timeline of a guest's name, and that the list
has room for all names, so that no guest is ever refused; section 5 shows that each part
is needed. The second part is a counting argument: an entry for every name but the new one
leaves an entry free. The host may have timelines of other names, disciplines may come at
any time, and guests may end at any time.

Only model-checked: the liveness properties, which need reasoning about fairness
and enabledness that the prover does not offer, and with them the fairness of the lease;
`NoEarlyRelease` and `UpdateReleasesOverdue`, whose proofs need bounds on the rounding
of the two projections (see the plan); of `QotPtp` the action property `Loyal`, which
rests on a count of timeouts against ages; `Reclaimed` of the registry; the notifier
(`Follows`, `AllReclaimed`) and the coordinator. The models declare no recursive operators, and no
statement here needs induction over data, which is also out of the prover's reach:
finite sets are counted with the theorems of the library. The modules with proofs, and
what they extend, do without `SequencesExt`, `@@` and `:>`, which the prover handles
badly or not at all.

## 7. Not modelled, and the plan

Left out for good:

* the formatting in the admin device and in sysfs, the device daemon and the GPS
  service (input and output), PTP pins and power management of the drivers
  (hardware access);
* the estimators of the synchronisation services, the servos and filters
  (floating-point statistics, which TLC has no numbers for);
* the repository's copies of chrony 3.2 and linuxptp (three, in `service/sync/ptp` and
  in `gps-service`), apart from the part of linuxptp 1.8 above. They are about three
  quarters of the repository's lines:
  command-line clients, configuration and date parsers, drivers for reference
  clocks, socket and timestamping layers, management messages. `NTP18.cpp` is
  chrony's main program with another end. A model of what matters to this system
  covers a small share of all these lines, and no attempt is made to cover more
  for its own sake;
* the clock registry (drivers register once, when they are loaded).

Not modelled yet: `GET_TIME_NOW` with its uncertainty against concurrent
discipline; the assignment of topics by the broker; the guest's retry after half a
reply; the composition of the registry with the scheduler, which
would show what a sleeping task meets when its timeline is removed. The two alone
have a million states each.

Next, for the proofs:

1. `Follows` of `QotNotifier`: the queue of events, applied to the map of timelines,
   gives the devices there are, but for those in `unseen`.
2. Bounds on the projection's round trip, and from them `NoEarlyRelease`.
