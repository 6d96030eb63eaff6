---------------------------- MODULE QotScheduler ----------------------------
(***************************************************************************)
(* The timeline scheduler of the QoT core module (qot_scheduler.c): tasks  *)
(* that block until a timeline reaches a time, periodic timers, the core   *)
(* clock interrupt that releases them, and the discipline calls that move  *)
(* a timeline under their feet.                                            *)
(*                                                                         *)
(* Processes and their program counters:                                   *)
(*   pc[t]     a task in qot_attosleep                                     *)
(*   pc[Owner] the process that creates and destroys periodic timers       *)
(*   wpc[ISR]  scheduler_interface_interrupt, the core clock interrupt     *)
(*   wpc[UPD]  a discipline call followed by qot_scheduler_update          *)
(* A step is what runs under one lock, or one unlocked read of shared      *)
(* state.  The walk over a timeline's event tree takes several steps, and  *)
(* evlock says who holds the tree's lock (rb_lock) meanwhile.              *)
(*                                                                         *)
(* Times are integers in the unit of QotProjection.  A sleeper is the      *)
(* struct timeline_sleeper of a task (on its stack) or of a timer (heap).  *)
(***************************************************************************)
EXTENDS QotProjection, FiniteSets

CONSTANTS
    Task,           \* tasks that call qot_attosleep
    Timer,          \* timer allocations, each used once
    Owner,          \* the process that owns the timers
    ISR, UPD,       \* the two walkers of the event trees
    Nil,            \* the NULL pointer
    NTimelines,     \* number of timelines
    Global,         \* those of type QOT_TIMELINE_GLOBAL
    SMP,            \* FALSE: one processor, nothing runs beside the interrupt
    HonoursForce,   \* whether the driver heeds force (am335x does, x86 not)
    MinDelta,       \* shortest interval the driver can program (x86: 0)
    MaxDelta,       \* longest interval the driver can program
    MaxTimepoint,   \* MAX_TIMEPOINT_SEC
    \* Bounds: the inputs offered by the environment.
    MaxNow,         \* last value of the core clock
    LastRequest,    \* last value at which a process makes a call
    Signallable,    \* tasks that may get a signal
    Expiries,       \* timeline times to wait for
    Periods, Counts,\* timer parameters
    Deltas,         \* arguments of adjtime
    Ppbs,           \* arguments of adjfreq
    Settings,       \* arguments of settime
    MaxDisciplines  \* number of discipline calls

Timeline == 1 .. NTimelines
Clock    == 0 .. NTimelines       \* clock 0 is clkgl_params
Sleeper  == Task \cup Timer
Proc     == Task \cup {Owner}
Walker   == {ISR, UPD}
Off      == -1                    \* the interrupt is not programmed

ASSUME SchedulerAssumption ==
    /\ NTimelines \in Nat \ {0}
    /\ Global \subseteq Timeline
    /\ SMP \in BOOLEAN /\ HonoursForce \in BOOLEAN
    /\ MinDelta \in Nat /\ MaxDelta \in Nat /\ MinDelta <= MaxDelta
    /\ MaxTimepoint \in Nat /\ MaxNow \in Nat
    /\ LastRequest \in Nat /\ MaxDisciplines \in Nat
    /\ Signallable \subseteq Task
    /\ Expiries \subseteq Int /\ Settings \subseteq Int
    /\ Periods \subseteq Nat \ {0} /\ Counts \subseteq Nat
    /\ Deltas \subseteq Int
    /\ Ppbs \subseteq Ppb
    /\ Owner \notin Task /\ ISR # UPD
    /\ ISR \notin Task \cup {Owner} /\ UPD \notin Task \cup {Owner}
    /\ Nil \notin Task \cup Timer \cup {ISR, UPD}
    /\ Task \cap Timer = {}

VARIABLES
    now,                        \* the core clock
    armed,                      \* programmed interrupt of the core clock
    next_interrupt_callback,
    params,                     \* projection parameters of every clock
    disciplines,                \* discipline calls so far
    evlock,                     \* who holds each timeline's rb_lock
    \* The sleepers.
    tree,                       \* the sleepers linked in each event tree
    fifo,                       \* pairs of equal expiry, in order of insertion
    timeline,                   \* sleeper->timeline
    qot_expires,                \* sleeper->qot_expires
    sleeper_active,             \* sleeper->sleeper_active
    task,                       \* whether sleeper->task is not NULL
    timer,                      \* the timer fields of a sleeper
    \* The processes.
    pc,
    core_time_expiry,           \* the local variable of that name
    interruptible,              \* task state TASK_INTERRUPTIBLE
    signalled,                  \* signal_pending
    reached,                    \* history: the timeline has reached the expiry
    owner,                      \* the timer owner's local and binding state
    cancelled,                  \* history: timers the owner has cancelled
    fault,                      \* the owner has used freed memory
    wpc, node, cur,             \* walkers: program counter, iterator, sleeper
    isr, upd                    \* walkers: local variables

tickVars    == <<now, armed, next_interrupt_callback>>
treeVars    == <<tree, fifo, timeline, qot_expires>>
sleeperVars == <<sleeper_active, task>>
procVars    == <<pc, core_time_expiry, interruptible, signalled>>
ownerVars   == <<timer, owner, cancelled, fault>>
walkVars    == <<wpc, node, cur, isr, upd, evlock>>
clockVars   == <<params, disciplines, reached>>
vars == <<tickVars, clockVars, treeVars, sleeperVars, procVars, ownerVars,
          walkVars>>

Init ==
    /\ now = 0
    /\ armed = Off
    /\ next_interrupt_callback = MaxTimepoint
    /\ params = [c \in Clock |-> InitParams]
    /\ disciplines = 0
    /\ evlock = [l \in Timeline |-> Nil]
    /\ tree = [l \in Timeline |-> {}]
    /\ fifo = {}
    /\ timeline = [s \in Sleeper |-> 1]
    /\ qot_expires = [s \in Sleeper |-> 0]
    /\ sleeper_active = [s \in Sleeper |-> FALSE]
    /\ task = [t \in Task |-> FALSE]
    /\ timer = [k \in Timer |-> [state |-> "unused", first |-> 0, period |-> 1,
                                 count |-> 0, counts |-> 1, sent |-> 0]]
    /\ pc = [p \in Proc |-> "out"]
    /\ core_time_expiry = [p \in Proc |-> 0]
    /\ interruptible = [t \in Task |-> FALSE]
    /\ signalled = [t \in Task |-> FALSE]
    /\ reached = [t \in Task |-> FALSE]
    /\ owner = [timer |-> Nil, start |-> 0, alive |-> TRUE,
                bound |-> [l \in Timeline |-> Nil]]
    /\ cancelled = {}
    /\ fault = FALSE
    /\ wpc = [x \in Walker |-> "idle"]
    /\ node = [x \in Walker |-> Nil]
    /\ cur = [x \in Walker |-> Nil]
    /\ isr = [tl |-> 1, now |-> 0, time |-> 0, next |-> 0, retries |-> 0]
    /\ upd = [tl |-> 1, now |-> 0, next |-> 0]

-----------------------------------------------------------------------------
\* Time.

Elapsed == INSTANCE QotTime WITH Asec <- Giga

\* The clock a timeline is projected from: all global timelines share one.
ClockOf(l) == IF l \in Global THEN 0 ELSE l

qot_core_to_remote(val, l) == qot_loc2rem(params[ClockOf(l)], val)
qot_remote_to_core(val, l) == qot_rem2loc(params[ClockOf(l)], val)

\* "if (sec < 0) sec = 0": the sub-second part of a negative time is kept.
ClampSec(val) == IF val < 0 THEN val % Giga ELSE val

\* History: whether a clock with parameters p has reached a time at core time
\* val, up to the shortest interval the driver can program and the error of one
\* conversion to the core clock.
HasReached(p, val, expires) ==
    qot_loc2rem(p, val) + MinDelta + Elapsed!Abs(p.mult) >= expires

MarkReached(ps, val) ==
    reached' = [t \in Task |->
        \/ reached[t]
        \/ /\ pc[t] # "out"
           /\ HasReached(ps[ClockOf(timeline[t])], val, qot_expires[t])]

\* The clock stops at MaxNow, which stands for all later times: what waits for
\* the clock to move on may go ahead.
AtHorizon == now = MaxNow

Tick ==
    /\ now < MaxNow
    /\ now' = now + 1
    /\ MarkReached(params, now + 1)
    /\ UNCHANGED <<armed, next_interrupt_callback, params, disciplines, treeVars,
                   sleeperVars, procVars, ownerVars, walkVars>>

\* Mutant: the driver does not look at force.
ForceIgnored(expiry, force) == expiry > now + MinDelta

\* The driver's program_sched_interrupt.  It succeeds for a time that is far
\* enough ahead, or when forced and the driver heeds that.
Programmable(expiry, force) ==
    \/ expiry > now + MinDelta
    \/ force /\ HonoursForce

\* The time the hardware will fire at: the interval is limited to what it can
\* count, and the shortest one stands for a time that has gone by.
ArmTime(expiry) ==
    IF expiry > now + MaxDelta THEN now + MaxDelta
    ELSE IF expiry > now + MinDelta THEN expiry
    ELSE now + MinDelta

-----------------------------------------------------------------------------
\* Event trees: in-order traversal of the red-black tree.

Before(r, s) ==
    \/ qot_expires[r] < qot_expires[s]
    \/ qot_expires[r] = qot_expires[s] /\ <<r, s>> \in fifo

IsFirst(s, S) == \A r \in S : ~ Before(r, s)

rb_first(S) ==
    IF \E s \in S : IsFirst(s, S) THEN CHOOSE s \in S : IsFirst(s, S) ELSE Nil

rb_next(l, s) == rb_first({r \in tree[l] : Before(s, r)})

FifoWithout(s) == {p \in fifo : p[1] # s /\ p[2] # s}

\* Link sleeper s with a new expiry, after those that expire at the same time.
qot_timeline_event_add(l, s, expires) ==
    /\ qot_expires' = [qot_expires EXCEPT ![s] = expires]
    /\ tree' = [tree EXCEPT ![l] = @ \cup {s}]
    /\ fifo' = FifoWithout(s) \cup
               {<<r, s>> : r \in {q \in tree[l] \ {s} : qot_expires[q] = expires}}

\* Mutant: the sleeper stays linked.
rb_erase_forgotten(s) == UNCHANGED <<tree, fifo>>

rb_erase(s) ==
    /\ tree' = [tree EXCEPT ![timeline[s]] = @ \ {s}]
    /\ fifo' = FifoWithout(s)

Unlocked(l) == evlock[l] = Nil

\* On one processor neither the interrupt nor a walk under a lock that masks
\* interrupts is overlapped by another process.
Masked(x) == wpc[x] # "idle" /\ (x = ISR \/ wpc[x] \in {"walk", "clear"})
Runs(x) == SMP \/ \A y \in Walker \ {x} : ~ Masked(y)

-----------------------------------------------------------------------------
\* qot_sleeper_start_expires, for a task or for the timer owner.

StartOk(p)   == IF p = Owner THEN "publish" ELSE "sched"
StartFail(p) == IF p = Owner THEN "unwind"  ELSE "erase"

SleeperOf(p) == IF p = Owner THEN owner.timer ELSE p

Freed(k) == timer[k].state \in {"done", "freed", "failed"}

\* A failed start makes qot_attosleep clear the task pointer and leave.
DropTask(p) == IF p \in Task THEN [task EXCEPT ![p] = FALSE] ELSE task

StartReadTime(p) ==
    /\ Runs(p)
    /\ pc[p] = "start"
    /\ IF core_time_expiry[p] < now
       THEN /\ pc' = [pc EXCEPT ![p] = StartFail(p)]
            /\ task' = DropTask(p)
       ELSE /\ pc' = [pc EXCEPT ![p] = "check"]
            /\ UNCHANGED task
    /\ UNCHANGED <<tickVars, clockVars, treeVars, sleeper_active, core_time_expiry,
                   interruptible, signalled, ownerVars, walkVars>>

\* Mutant: timepoint_cmp has the opposite sign of what it is taken for.
ExpiresAfterNext(p) == core_time_expiry[p] > next_interrupt_callback

ExpiresBeforeNext(p) == core_time_expiry[p] < next_interrupt_callback

\* The unlocked comparison with next_interrupt_callback.
StartCheck(p) ==
    /\ Runs(p)
    /\ pc[p] = "check"
    /\ pc' = [pc EXCEPT ![p] =
                 IF ExpiresBeforeNext(p) /\ sleeper_active[SleeperOf(p)]
                 THEN "program" ELSE StartOk(p)]
    /\ fault' = (ExpiresBeforeNext(p) /\ p = Owner /\ Freed(owner.timer))
    /\ UNCHANGED <<tickVars, clockVars, treeVars, sleeperVars, core_time_expiry,
                   interruptible, signalled, timer, owner, cancelled, walkVars>>

StartProgram(p) ==
    /\ Runs(p)
    /\ pc[p] = "program"
    /\ IF Programmable(core_time_expiry[p], FALSE)
       THEN /\ armed' = ArmTime(core_time_expiry[p])
            /\ next_interrupt_callback' = core_time_expiry[p]
            /\ pc' = [pc EXCEPT ![p] = StartOk(p)]
            /\ UNCHANGED task
       ELSE /\ pc' = [pc EXCEPT ![p] = StartFail(p)]
            /\ task' = DropTask(p)
            /\ UNCHANGED <<armed, next_interrupt_callback>>
    /\ UNCHANGED <<now, clockVars, treeVars, sleeper_active, core_time_expiry,
                   interruptible, signalled, ownerVars, walkVars>>

-----------------------------------------------------------------------------
\* qot_attosleep.

\* qot_init_sleeper, under the event lock.
InitSleeper(t, l, expires) ==
    /\ Runs(t)
    /\ pc[t] = "out"
    /\ Unlocked(l)
    /\ timeline' = [timeline EXCEPT ![t] = l]
    /\ sleeper_active' = [sleeper_active EXCEPT ![t] = TRUE]
    /\ task' = [task EXCEPT ![t] = TRUE]
    /\ reached' = [reached EXCEPT ![t] = HasReached(params[ClockOf(l)], now, expires)]
    /\ qot_timeline_event_add(l, t, expires)
    /\ pc' = [pc EXCEPT ![t] = "convert"]
    /\ UNCHANGED <<tickVars, params, disciplines, core_time_expiry, interruptible, signalled,
                   ownerVars, walkVars>>

\* The expiry is projected to the core clock once, before the loop.
Convert(t) ==
    /\ Runs(t)
    /\ pc[t] = "convert"
    /\ core_time_expiry' = [core_time_expiry EXCEPT
            ![t] = qot_remote_to_core(qot_expires[t], timeline[t])]
    /\ pc' = [pc EXCEPT ![t] = "state"]
    /\ UNCHANGED <<tickVars, clockVars, treeVars, sleeperVars, interruptible,
                   signalled, ownerVars, walkVars>>

SetInterruptible(t) ==
    /\ Runs(t)
    /\ pc[t] = "state"
    /\ interruptible' = [interruptible EXCEPT ![t] = TRUE]
    /\ pc' = [pc EXCEPT ![t] = "start"]
    /\ UNCHANGED <<tickVars, clockVars, treeVars, sleeperVars, core_time_expiry,
                   signalled, ownerVars, walkVars>>

\* "if (likely(sleep_timer.task)) freezable_schedule();"
Schedule(t) ==
    /\ Runs(t)
    /\ pc[t] = "sched"
    /\ pc' = [pc EXCEPT ![t] = IF task[t] THEN "blocked" ELSE "erase"]
    /\ UNCHANGED <<tickVars, clockVars, treeVars, sleeperVars, core_time_expiry,
                   interruptible, signalled, ownerVars, walkVars>>

\* schedule() returns to a task that was woken or has a signal pending, and
\* the loop condition is evaluated.
Resume(t) ==
    /\ Runs(t)
    /\ pc[t] = "blocked"
    /\ ~ interruptible[t] \/ signalled[t]
    /\ interruptible' = [interruptible EXCEPT ![t] = FALSE]
    /\ pc' = [pc EXCEPT ![t] = IF task[t] /\ ~ signalled[t]
                               THEN "state" ELSE "erase"]
    /\ UNCHANGED <<tickVars, clockVars, treeVars, sleeperVars, core_time_expiry,
                   signalled, ownerVars, walkVars>>

\* Unlink the sleeper and return: its stack frame is gone, and a pending signal
\* is taken on the way out.
EraseSleeper(t) ==
    /\ Runs(t)
    /\ pc[t] = "erase"
    /\ Unlocked(timeline[t])
    /\ rb_erase(t)
    /\ interruptible' = [interruptible EXCEPT ![t] = FALSE]
    /\ signalled' = [signalled EXCEPT ![t] = FALSE]
    /\ qot_expires' = [qot_expires EXCEPT ![t] = 0]
    /\ core_time_expiry' = [core_time_expiry EXCEPT ![t] = 0]
    /\ reached' = [reached EXCEPT ![t] = FALSE]
    /\ pc' = [pc EXCEPT ![t] = "out"]
    /\ UNCHANGED <<tickVars, params, disciplines, timeline, sleeperVars, ownerVars, walkVars>>

\* A signal for a task in the call wakes it if it sleeps.
Signal(t) ==
    /\ Runs(t)
    /\ pc[t] # "out"
    /\ ~ signalled[t]
    /\ signalled' = [signalled EXCEPT ![t] = TRUE]
    /\ interruptible' = [interruptible EXCEPT ![t] = FALSE]
    /\ UNCHANGED <<tickVars, clockVars, treeVars, sleeperVars, pc, core_time_expiry,
                   ownerVars, walkVars>>

-----------------------------------------------------------------------------
\* Periodic timers, created and destroyed by the owner process.  Its binding on
\* a timeline has one timer pointer, owner.bound.

\* timepoint_diff of two times, read back as an integer.
TimepointDiff(a, b) ==
    LET tp(v) == Elapsed!scalar_to_timepoint(v, Giga, 1)
    IN  Elapsed!Value(Elapsed!timepoint_diff(tp(a), tp(b)))

\* When a timer starts that is asked to start at time start: then, or a whole
\* number of periods later.
FirstExpiry(start, period, time) ==
    LET elapsed == TimepointDiff(time, start)
        periods == elapsed \div period + (IF elapsed % period = 0 THEN 0 ELSE 1)
    IN  IF start > time THEN start ELSE start + periods * period

\* qot_init_timer_sleeper, under the event lock, on a fresh allocation.
InitTimerSleeper(k, l, start, period, count) ==
    LET first == FirstExpiry(start, period, qot_core_to_remote(now, l))
    IN  /\ Runs(Owner)
        /\ pc[Owner] = "out" /\ owner.alive
        /\ timer[k].state = "unused"
        /\ Unlocked(l)
        /\ timeline' = [timeline EXCEPT ![k] = l]
        /\ sleeper_active' = [sleeper_active EXCEPT ![k] = TRUE]
        /\ timer' = [timer EXCEPT ![k] = [state |-> "live", first |-> first,
                        period |-> period, count |-> count,
                        counts |-> 1, sent |-> 0]]
        /\ owner' = [owner EXCEPT !.timer = k, !.start = first]
        /\ qot_timeline_event_add(l, k, first)
        /\ pc' = [pc EXCEPT ![Owner] = "convert"]
        /\ UNCHANGED <<tickVars, clockVars, task, core_time_expiry, interruptible,
                       signalled, cancelled, fault, walkVars>>

\* The start time, which the call above may have moved, is projected.
ConvertStart ==
    /\ Runs(Owner)
    /\ pc[Owner] = "convert"
    /\ core_time_expiry' = [core_time_expiry EXCEPT
            ![Owner] = qot_remote_to_core(owner.start, timeline[owner.timer])]
    /\ pc' = [pc EXCEPT ![Owner] = "start"]
    /\ UNCHANGED <<tickVars, clockVars, treeVars, sleeperVars, interruptible,
                   signalled, ownerVars, walkVars>>

\* Leave the ioctl.
OwnerReturns ==
    /\ pc' = [pc EXCEPT ![Owner] = "out"]
    /\ core_time_expiry' = [core_time_expiry EXCEPT ![Owner] = 0]

\* The start failed: unlink and free the timer.
UnwindTimer ==
    /\ Runs(Owner)
    /\ pc[Owner] = "unwind"
    /\ LET k == owner.timer
       IN  /\ Unlocked(timeline[k])
           /\ rb_erase(k)
           /\ timer' = [timer EXCEPT ![k].state = "failed"]
           /\ fault' = Freed(k)
    /\ OwnerReturns
    /\ UNCHANGED <<tickVars, clockVars, timeline, qot_expires, sleeperVars,
                   interruptible, signalled, owner, cancelled, walkVars>>

\* The start succeeded: the binding points to the timer, which is copied back.
PublishTimer ==
    /\ Runs(Owner)
    /\ pc[Owner] = "publish"
    /\ LET k == owner.timer
       IN  /\ owner' = [owner EXCEPT !.bound[timeline[k]] = k]
           /\ fault' = Freed(k)
    /\ OwnerReturns
    /\ UNCHANGED <<tickVars, clockVars, treeVars, sleeperVars, interruptible,
                   signalled, timer, cancelled, walkVars>>

\* TIMELINE_DESTROY_TIMER with the handle of timer k on timeline l: the timer
\* the binding points to is unlinked and freed, the pointer stays.
qot_timer_destroy(k, l) ==
    LET b == owner.bound[l]
    IN  /\ Runs(Owner)
        /\ pc[Owner] = "out" /\ owner.alive
        /\ timer[k].state \in {"live", "done", "freed"} /\ timeline[k] = l
        /\ k \notin cancelled
        /\ b # Nil
        /\ Unlocked(l)
        /\ sleeper_active' = [sleeper_active EXCEPT ![b] = FALSE]
        /\ rb_erase(b)
        /\ timer' = [timer EXCEPT ![b].state = "freed"]
        /\ fault' = Freed(b)
        /\ cancelled' = cancelled \cup {k}
        /\ UNCHANGED <<tickVars, clockVars, timeline, qot_expires, task, procVars,
                       owner, walkVars>>

\* The owner exits: pid_task() no longer finds it.
OwnerExit ==
    /\ Runs(Owner)
    /\ pc[Owner] = "out" /\ owner.alive
    /\ owner' = [owner EXCEPT !.alive = FALSE]
    /\ UNCHANGED <<tickVars, clockVars, treeVars, sleeperVars, procVars, timer,
                   cancelled, fault, walkVars>>

-----------------------------------------------------------------------------
\* qot_sleeper_wakeup: the body of both walks over an event tree, for the
\* sleeper under walker x's iterator.

TimelineOf(x) == IF x = ISR THEN isr.tl ELSE upd.tl

\* Mutants: the comparison is dropped, or compares core time with timeline time.
DueAlways(x) == node[x] # Nil
DueUnprojected(x) ==
    /\ node[x] # Nil
    /\ qot_expires[node[x]] < (IF x = ISR THEN isr.now ELSE upd.now)

\* The condition on which a walk calls qot_sleeper_wakeup.
Due(x) ==
    /\ node[x] # Nil
    /\ IF x = ISR
       THEN qot_expires[node[x]] < isr.time
       ELSE qot_remote_to_core(qot_expires[node[x]], upd.tl) < upd.now

Advance(x) == node' = [node EXCEPT ![x] = rb_next(TimelineOf(x), node[x])]

AtDueSleeper(x) == Runs(x) /\ wpc[x] = "walk" /\ Due(x)

\* Mutants: one signal too many, and the count ignored.
OneMore(k) == timer[k].counts <= timer[k].count \/ timer[k].count = 0
NeverDone(k) == TRUE

MoreToCome(k) == timer[k].counts < timer[k].count \/ timer[k].count = 0

\* A periodic timer signals its owner and is linked again, one period later.
WakeTimerAgain(x) ==
    LET k == node[x]
    IN  /\ AtDueSleeper(x) /\ k \in Timer
        /\ owner.alive
        /\ MoreToCome(k)
        /\ Advance(x)
        /\ timer' = [timer EXCEPT ![k].sent = @ + 1, ![k].counts = @ + 1]
        /\ qot_timeline_event_add(timeline[k], k, qot_expires[k] + timer[k].period)
        /\ UNCHANGED <<tickVars, clockVars, timeline, sleeperVars, procVars, owner,
                       cancelled, fault, wpc, cur, isr, upd, evlock>>

\* The last signal of a timer, or a timer whose owner is gone: it is unlinked
\* and freed, and the binding's pointer is cleared, whichever timer it names.
WakeTimerLast(x) ==
    LET k == node[x]
    IN  /\ AtDueSleeper(x) /\ k \in Timer
        /\ ~ owner.alive \/ ~ MoreToCome(k)
        /\ Advance(x)
        /\ timer' = [timer EXCEPT
                ![k].sent  = IF owner.alive THEN @ + 1 ELSE @,
                ![k].state = IF owner.alive THEN "done" ELSE "freed"]
        /\ rb_erase(k)
        /\ sleeper_active' = [sleeper_active EXCEPT ![k] = FALSE]
        /\ owner' = [owner EXCEPT !.bound[timeline[k]] = Nil]
        /\ UNCHANGED <<tickVars, clockVars, timeline, qot_expires, task, procVars,
                       cancelled, fault, wpc, cur, isr, upd, evlock>>

\* Mutant: the test of the task pointer inverted.
WakeIfNone(t) == interruptible' = [interruptible EXCEPT ![t] = @ /\ task[t]]

\* wake_up_process, if the task pointer is not NULL.
WakeIfSet(t) == interruptible' = [interruptible EXCEPT ![t] = @ /\ ~ task[t]]

\* A task that still waits: wake_up_process comes first ...
WakeTask(x) ==
    LET t == node[x]
    IN  /\ AtDueSleeper(x) /\ t \in Task
        /\ sleeper_active[t]
        /\ Advance(x)
        /\ WakeIfSet(t)
        /\ cur' = [cur EXCEPT ![x] = t]
        /\ wpc' = [wpc EXCEPT ![x] = "clear"]
        /\ UNCHANGED <<tickVars, clockVars, treeVars, sleeperVars, pc,
                       core_time_expiry, signalled, ownerVars, isr, upd, evlock>>

\* ... then the task pointer and the active flag are cleared.
ClearTask(x) ==
    /\ Runs(x)
    /\ wpc[x] = "clear"
    /\ task' = [task EXCEPT ![cur[x]] = FALSE]
    /\ sleeper_active' = [sleeper_active EXCEPT ![cur[x]] = FALSE]
    /\ cur' = [cur EXCEPT ![x] = Nil]
    /\ wpc' = [wpc EXCEPT ![x] = "walk"]
    /\ UNCHANGED <<tickVars, clockVars, treeVars, procVars, ownerVars, node, isr,
                   upd, evlock>>

\* A task that was woken before and has not unlinked its sleeper yet.
SkipTask(x) ==
    /\ AtDueSleeper(x) /\ node[x] \in Task
    /\ ~ sleeper_active[node[x]]
    /\ Advance(x)
    /\ UNCHANGED <<tickVars, clockVars, treeVars, sleeperVars, procVars, ownerVars,
                   wpc, cur, isr, upd, evlock>>

\* Take the event lock and start at the first sleeper.
WalkBegin(x) ==
    /\ Runs(x)
    /\ wpc[x] = "lock"
    /\ Unlocked(TimelineOf(x))
    /\ evlock' = [evlock EXCEPT ![TimelineOf(x)] = x]
    /\ node' = [node EXCEPT ![x] = rb_first(tree[TimelineOf(x)])]
    /\ wpc' = [wpc EXCEPT ![x] = "walk"]
    /\ UNCHANGED <<tickVars, clockVars, treeVars, sleeperVars, procVars, ownerVars,
                   cur, isr, upd>>

-----------------------------------------------------------------------------
\* scheduler_interface_interrupt.

\* The interrupt fires and reads the core clock.
Interrupt ==
    /\ Runs(ISR)
    /\ wpc[ISR] = "idle"
    /\ armed # Off /\ (armed <= now \/ AtHorizon)
    /\ armed' = Off
    /\ isr' = [isr EXCEPT !.tl = 1, !.now = now, !.retries = 0]
    /\ wpc' = [wpc EXCEPT ![ISR] = "project"]
    /\ UNCHANGED <<now, next_interrupt_callback, clockVars, treeVars, sleeperVars,
                   procVars, ownerVars, node, cur, upd, evlock>>

\* The time of the next timeline, read before its event lock is taken.
IsrProject ==
    /\ Runs(ISR)
    /\ wpc[ISR] = "project"
    /\ isr' = [isr EXCEPT !.time = qot_core_to_remote(isr.now, isr.tl)]
    /\ wpc' = [wpc EXCEPT ![ISR] = "lock"]
    /\ UNCHANGED <<tickVars, clockVars, treeVars, sleeperVars, procVars, ownerVars,
                   node, cur, upd, evlock>>

\* Mutant: one timeline too many.
PastLast(l) == l > NTimelines

IsLast(l) == l >= NTimelines

\* The rest of the tree is in the future: on to the next timeline, or after
\* the last one to qot_get_next_event.
IsrWalkEnd ==
    /\ Runs(ISR)
    /\ wpc[ISR] = "walk" /\ ~ Due(ISR)
    /\ evlock' = [evlock EXCEPT ![isr.tl] = Nil]
    /\ node' = [node EXCEPT ![ISR] = Nil]
    /\ IF ~ IsLast(isr.tl)
       THEN /\ isr' = [isr EXCEPT !.tl = @ + 1]
            /\ wpc' = [wpc EXCEPT ![ISR] = "project"]
       ELSE /\ isr' = [isr EXCEPT !.tl = 1, !.next = MaxTimepoint]
            /\ wpc' = [wpc EXCEPT ![ISR] = "next"]
    /\ UNCHANGED <<tickVars, clockVars, treeVars, sleeperVars, procVars, ownerVars,
                   cur, upd>>

\* One timeline of qot_get_next_event, under its event lock: the first active
\* sleeper, projected to the core clock.
NextExpiry(l, next) ==
    LET first == rb_first({s \in tree[l] : sleeper_active[s]})
        core  == qot_remote_to_core(qot_expires[first], l)
    IN  IF first # Nil /\ core < next THEN core ELSE next

IsrNextEvent ==
    LET next == NextExpiry(isr.tl, isr.next)
    IN  /\ Runs(ISR)
        /\ wpc[ISR] = "next"
        /\ Unlocked(isr.tl)
        /\ IF ~ IsLast(isr.tl)
           THEN /\ isr' = [isr EXCEPT !.tl = @ + 1, !.next = next]
                /\ UNCHANGED wpc
           ELSE /\ isr' = [isr EXCEPT !.next = ClampSec(next)]
                /\ wpc' = [wpc EXCEPT ![ISR] = "program"]
        /\ UNCHANGED <<tickVars, clockVars, treeVars, sleeperVars, procVars,
                       ownerVars, node, cur, upd, evlock>>

IsrReturns ==
    /\ wpc' = [wpc EXCEPT ![ISR] = "idle"]
    /\ isr' = [tl |-> 1, now |-> 0, time |-> 0, next |-> 0, retries |-> 0]

\* Program the next event; done if it is still ahead.
IsrProgram ==
    /\ Runs(ISR)
    /\ wpc[ISR] = "program"
    /\ IF Programmable(isr.next, FALSE)
       THEN /\ armed' = ArmTime(isr.next)
            /\ next_interrupt_callback' = isr.next
            /\ IsrReturns
       ELSE /\ wpc' = [wpc EXCEPT ![ISR] = "reread"]
            /\ UNCHANGED <<armed, next_interrupt_callback, isr>>
    /\ UNCHANGED <<now, clockVars, treeVars, sleeperVars, procVars, ownerVars, node,
                   cur, upd, evlock>>

\* It has gone by: read the clock again, and retry until MaxRetries attempts have
\* failed.
MaxRetries == 3

IsrReread ==
    /\ Runs(ISR)
    /\ wpc[ISR] = "reread"
    /\ isr' = [isr EXCEPT !.tl = 1, !.now = now, !.retries = @ + 1]
    /\ wpc' = [wpc EXCEPT ![ISR] = IF isr.retries + 1 < MaxRetries
                                   THEN "project" ELSE "force"]
    /\ UNCHANGED <<tickVars, clockVars, treeVars, sleeperVars, procVars, ownerVars,
                   node, cur, upd, evlock>>

\* The result of the forced reprogramming is not looked at.
IsrForce ==
    /\ Runs(ISR)
    /\ wpc[ISR] = "force"
    /\ armed' = IF Programmable(isr.next, TRUE) THEN ArmTime(isr.next) ELSE armed
    /\ next_interrupt_callback' = isr.next
    /\ IsrReturns
    /\ UNCHANGED <<now, clockVars, treeVars, sleeperVars, procVars, ownerVars, node,
                   cur, upd, evlock>>

-----------------------------------------------------------------------------
\* Discipline calls.  All but settime on a global timeline end in
\* qot_scheduler_update for the timeline the call was made on.

Discipline(c, p) ==
    /\ Runs(UPD)
    /\ wpc[UPD] = "idle"
    /\ disciplines < MaxDisciplines
    /\ disciplines' = disciplines + 1
    /\ params' = [params EXCEPT ![c] = p]
    /\ MarkReached(params', now)
    /\ UNCHANGED <<tickVars, treeVars, sleeperVars, procVars, ownerVars, node,
                   cur, isr, evlock>>

\* Mutant: the call of qot_scheduler_update is left out.
SkipUpdate(l) == UNCHANGED <<wpc, upd>>

StartUpdate(l) ==
    /\ wpc' = [wpc EXCEPT ![UPD] = "read"]
    /\ upd' = [upd EXCEPT !.tl = l]

qot_timeline_clock_adjfreq(l, ppb) ==
    /\ l \notin Global
    /\ Discipline(l, adjfreq(params[l], now, ppb))
    /\ StartUpdate(l)

qot_timeline_clock_adjtime(l, delta) ==
    /\ l \notin Global
    /\ Discipline(l, adjtime(params[l], delta))
    /\ StartUpdate(l)

qot_timeline_chdev_settime(l, val) ==
    /\ l \notin Global
    /\ Discipline(l, settime(params[l], now, val))
    /\ StartUpdate(l)

\* qot_timeline_gl_chdev_adjtime with an offset or with a frequency.
qot_clock_gl_adjtime(l, delta) ==
    /\ l \in Global
    /\ Discipline(0, adjtime(params[0], delta))
    /\ StartUpdate(l)

qot_clock_gl_adjfreq(l, ppb) ==
    /\ l \in Global
    /\ Discipline(0, adjfreq(params[0], now, ppb))
    /\ StartUpdate(l)

\* "if (qot_clock_gl_settime(tp)); { return 1; }" returns before the update.
qot_timeline_gl_chdev_settime(l, val) ==
    /\ l \in Global
    /\ Discipline(0, settime(params[0], now, val))
    /\ UNCHANGED <<wpc, upd>>

-----------------------------------------------------------------------------
\* qot_scheduler_update.

\* Unlocked reads of next_interrupt_callback and of the core clock.
UpdRead ==
    /\ Runs(UPD)
    /\ wpc[UPD] = "read"
    /\ upd' = [upd EXCEPT !.next = next_interrupt_callback, !.now = now]
    /\ wpc' = [wpc EXCEPT ![UPD] = "lock"]
    /\ UNCHANGED <<tickVars, clockVars, treeVars, sleeperVars, procVars, ownerVars,
                   node, cur, isr, evlock>>

\* The walk stops at the first sleeper that is not due, whose expiry may be the
\* next event.
UpdWalkEnd ==
    LET core == qot_remote_to_core(qot_expires[node[UPD]], upd.tl)
        next == IF node[UPD] # Nil /\ core < upd.next THEN core ELSE upd.next
    IN  /\ Runs(UPD)
        /\ wpc[UPD] = "walk" /\ ~ Due(UPD)
        /\ evlock' = [evlock EXCEPT ![upd.tl] = Nil]
        /\ node' = [node EXCEPT ![UPD] = Nil]
        /\ upd' = [upd EXCEPT !.next = ClampSec(next)]
        /\ wpc' = [wpc EXCEPT ![UPD] = "recheck"]
        /\ UNCHANGED <<tickVars, clockVars, treeVars, sleeperVars, procVars,
                       ownerVars, cur, isr>>

UpdReturns ==
    /\ wpc' = [wpc EXCEPT ![UPD] = "idle"]
    /\ upd' = [tl |-> 1, now |-> 0, next |-> 0]

\* Unlocked test whether the next event has to be programmed.
UpdRecheck ==
    /\ Runs(UPD)
    /\ wpc[UPD] = "recheck"
    /\ IF now < upd.next /\ upd.next < next_interrupt_callback
       THEN wpc' = [wpc EXCEPT ![UPD] = "program"] /\ UNCHANGED upd
       ELSE UpdReturns
    /\ UNCHANGED <<tickVars, clockVars, treeVars, sleeperVars, procVars, ownerVars,
                   node, cur, isr, evlock>>

UpdProgram ==
    /\ Runs(UPD)
    /\ wpc[UPD] = "program"
    /\ IF Programmable(upd.next, TRUE)
       THEN /\ armed' = ArmTime(upd.next)
            /\ next_interrupt_callback' = upd.next
       ELSE UNCHANGED <<armed, next_interrupt_callback>>
    /\ UpdReturns
    /\ UNCHANGED <<now, clockVars, treeVars, sleeperVars, procVars, ownerVars, node,
                   cur, isr, evlock>>

-----------------------------------------------------------------------------
StartStep(p) == StartReadTime(p) \/ StartCheck(p) \/ StartProgram(p)

TaskStep(t) ==
    \/ Convert(t) \/ SetInterruptible(t) \/ StartStep(t)
    \/ Schedule(t) \/ Resume(t) \/ EraseSleeper(t)

OwnerStep ==
    ConvertStart \/ StartStep(Owner) \/ UnwindTimer \/ PublishTimer

WalkStep(x) ==
    \/ WalkBegin(x) \/ WakeTask(x) \/ ClearTask(x) \/ SkipTask(x)
    \/ WakeTimerAgain(x) \/ WakeTimerLast(x)

IsrStep ==
    \/ WalkStep(ISR) \/ IsrProject \/ IsrWalkEnd \/ IsrNextEvent
    \/ IsrProgram \/ IsrReread \/ IsrForce

UpdStep ==
    WalkStep(UPD) \/ UpdRead \/ UpdWalkEnd \/ UpdRecheck \/ UpdProgram

\* What the environment may ask for.
Request ==
    /\ now <= LastRequest
    /\ \E l \in Timeline :
        \/ \E t \in Task, e \in Expiries : InitSleeper(t, l, e)
        \/ \E k \in Timer, e \in Expiries, p \in Periods, c \in Counts :
               InitTimerSleeper(k, l, e, p, c)
        \/ \E k \in Timer : qot_timer_destroy(k, l)
        \/ \E d \in Deltas : qot_timeline_clock_adjtime(l, d)
                             \/ qot_clock_gl_adjtime(l, d)
        \/ \E f \in Ppbs : qot_timeline_clock_adjfreq(l, f)
                           \/ qot_clock_gl_adjfreq(l, f)
        \/ \E v \in Settings : qot_timeline_chdev_settime(l, v)
                               \/ qot_timeline_gl_chdev_settime(l, v)

\* Nothing is said of what happens after the use of freed memory.
Next ==
    /\ ~ fault
    /\ \/ Tick \/ Request \/ OwnerExit
       \/ \E t \in Task : TaskStep(t)
       \/ \E t \in Signallable : Signal(t)
       \/ OwnerStep \/ Interrupt \/ IsrStep \/ UpdStep

Spec == Init /\ [][Next]_vars

\* The clock runs, a pending interrupt is taken and handled to its end.  A
\* process inside a call is held up by an interrupt again and again, but not by
\* one after the other without a gap, and the kernel schedules it in between.
\* Nobody has to call, signal or exit.
Fairness ==
    /\ WF_vars(~ fault /\ Tick)
    /\ WF_vars(~ fault /\ Interrupt)
    /\ WF_vars(~ fault /\ IsrStep)
    /\ SF_vars(~ fault /\ UpdStep)
    /\ SF_vars(~ fault /\ OwnerStep)
    /\ \A t \in Task : SF_vars(~ fault /\ TaskStep(t))

FairSpec == Spec /\ Fairness

-----------------------------------------------------------------------------
\* Properties.

TaskPc  == {"out", "convert", "state", "start", "check", "program", "sched",
            "blocked", "erase"}
OwnerPc == {"out", "convert", "start", "check", "program", "publish", "unwind"}
IsrPc   == {"idle", "project", "lock", "walk", "clear", "next", "program",
            "reread", "force"}
UpdPc   == {"idle", "read", "lock", "walk", "clear", "recheck", "program"}

TimerRecord ==
    [state : {"unused", "live", "done", "freed", "failed"},
     first : Int, period : Nat \ {0}, count : Nat, counts : Nat \ {0},
     sent : Nat]

TickType ==
    /\ now \in Nat
    /\ armed \in Nat \cup {Off}
    /\ next_interrupt_callback \in Int

ClockType ==
    /\ params \in [Clock -> Params]
    /\ disciplines \in Nat
    /\ reached \in [Task -> BOOLEAN]

TreeType ==
    /\ tree \in [Timeline -> SUBSET Sleeper]
    /\ fifo \subseteq Sleeper \X Sleeper
    /\ timeline \in [Sleeper -> Timeline]
    /\ qot_expires \in [Sleeper -> Int]

SleeperType ==
    /\ sleeper_active \in [Sleeper -> BOOLEAN]
    /\ task \in [Task -> BOOLEAN]

ProcType ==
    /\ pc \in [Proc -> TaskPc \cup OwnerPc]
    /\ core_time_expiry \in [Proc -> Int]
    /\ interruptible \in [Task -> BOOLEAN]
    /\ signalled \in [Task -> BOOLEAN]

OwnerType ==
    /\ timer \in [Timer -> TimerRecord]
    /\ owner \in [timer : Timer \cup {Nil}, start : Int, alive : BOOLEAN,
                  bound : [Timeline -> Timer \cup {Nil}]]
    /\ cancelled \subseteq Timer
    /\ fault \in BOOLEAN

WalkType ==
    /\ wpc \in [Walker -> IsrPc \cup UpdPc]
    /\ node \in [Walker -> Sleeper \cup {Nil}]
    /\ cur \in [Walker -> Task \cup {Nil}]
    /\ isr \in [tl : Timeline, now : Nat, time : Int, next : Int, retries : Nat]
    /\ upd \in [tl : Timeline, now : Nat, next : Int]
    /\ evlock \in [Timeline -> Walker \cup {Nil}]

\* The types of all variables.
TypeOK ==
    /\ TickType /\ ClockType /\ TreeType /\ SleeperType /\ ProcType
    /\ OwnerType /\ WalkType

\* A task that sleeps in schedule() and that only a wake-up can release.
Parked(t) == pc[t] = "blocked" /\ interruptible[t] /\ ~ signalled[t]

\* Every sleeper of a task inside qot_attosleep, and every live timer, is linked
\* in the event tree of its timeline, and nothing else is: no tree ever reaches
\* a stack frame that was left or a timer that was freed (lines 364, 448, 142,
\* 160, 480 and 507 of qot_scheduler.c).
LinkedIffInUse ==
    \A l \in Timeline :
        tree[l] = {t \in Task : pc[t] # "out" /\ timeline[t] = l} \cup
                  {k \in Timer : timer[k].state = "live" /\ timeline[k] = l}

\* A sleeping task is one that the next walk will wake: its wake-up has not been
\* spent (the set_current_state / test / schedule pattern of qot_attosleep
\* against qot_sleeper_wakeup).
NoMissedWakeup ==
    \A t \in Task : Parked(t) => task[t] /\ sleeper_active[t]

\* While a task sleeps, an interrupt is programmed or being handled, so somebody
\* will look at its expiry again (qot_sleeper_start_expires skips programming on
\* the strength of next_interrupt_callback alone).
NeverStranded ==
    \A t \in Task :
        Parked(t) /\ core_time_expiry[t] < MaxTimepoint
            => armed # Off \/ wpc[ISR] # "idle"

\* A periodic timer has signalled once for each period behind it, keeps its
\* phase whatever happens to the timeline, never signals more than count times,
\* and when it ends with its owner alive has signalled exactly count times.
TimerAccounting ==
    \A k \in Timer :
        LET r == timer[k]
        IN  /\ r.state = "live" =>
                   /\ r.sent = r.counts - 1
                   /\ qot_expires[k] = r.first + r.sent * r.period
                   /\ r.count # 0 => r.counts <= r.count
            /\ r.state = "done" => r.sent = r.count

\* A projection that a walker or a task computed before a discipline call changed
\* the timeline: the handler projects the core clock before it takes the event
\* lock (line 268 of qot_scheduler.c), a task its expiry once for the whole loop
\* (line 434).
StaleTime(t) ==
    /\ wpc[ISR] = "clear" /\ cur[ISR] = t
    /\ isr.time # qot_core_to_remote(isr.now, isr.tl)
StaleExpiry(t) ==
    /\ pc[t] \in {"start", "program"}
    /\ core_time_expiry[t] # qot_remote_to_core(qot_expires[t], timeline[t])

\* A task is released, other than by a signal, only when its timeline has
\* reached the expiry during the call, or on the strength of a projection from
\* before a discipline call: no walk, retry or failed start releases it early
\* otherwise, wherever steps forth and back fall.
NoEarlyRelease ==
    [][\A t \in Task :
          task[t] /\ ~ task'[t] =>
              reached[t] \/ StaleTime(t) \/ StaleExpiry(t)]_vars

\* When qot_scheduler_update returns, nobody sleeps on its timeline whose expiry
\* had gone by at its first reading of the clock: not a task that was asleep, nor
\* one that was on its way to sleep with a projection from before the discipline
\* call, or called while the update ran.
UpdateReleasesOverdue ==
    [][wpc[UPD] # "idle" /\ wpc'[UPD] = "idle" =>
          \A t \in Task :
              Parked(t) /\ timeline[t] = upd.tl =>
                  qot_remote_to_core(qot_expires[t], upd.tl) >= upd.now]_vars

\* Every call of qot_attosleep returns.
SleepReturns ==
    \A t \in Task : pc[t] = "convert" ~> (pc[t] = "out" \/ fault)

\* A timer with a count comes to its end.
TimerEnds ==
    \A k \in Timer : (timer[k].state = "live" /\ timer[k].count # 0)
                         ~> (timer[k].state # "live" \/ fault)

-----------------------------------------------------------------------------
\* What comments and documents of the repository say, where the code differs.

\* Nobody is between a decision about the interrupt and acting on it.
Quiet ==
    /\ \A x \in Walker : wpc[x] = "idle"
    /\ \A p \in Proc : pc[p] # "program"

\* qot_scheduler.c:329: "If the new node being programmed has to be woken up
\* before already existing nodes, then reprogram the interrupt": the interrupt
\* comes no later than the expiry of any sleeping task.
EarliestIsProgrammed ==
    Quiet => \A t \in Task :
        Parked(t) => armed # Off /\ armed <= core_time_expiry[t] + MinDelta

\* qot_scheduler.c:514: "Updates timeline nodes waiting on a queue when a time
\* change happens, called by the set_time adj_time functions": a task whose
\* expiry has gone by does not go on sleeping without an interrupt at hand.
OverdueIsReleased ==
    Quiet => \A t \in Task :
        Parked(t) /\ qot_core_to_remote(now, timeline[t]) > qot_expires[t]
            => armed # Off /\ armed <= now + MinDelta

\* api/c/qot.h:239, of timeline_timer_cancel: "Non-blocking call to cancel a
\* timer", "timer: A pointer to a timer object": a timer that was cancelled is
\* no longer live.
CancelledIsDead == \A k \in cancelled : timer[k].state # "live"
=============================================================================
