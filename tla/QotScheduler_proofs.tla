------------------------ MODULE QotScheduler_proofs ------------------------
(***************************************************************************)
(* Theorems about the scheduler, for any number of tasks, timers and       *)
(* timelines, on one processor or several, and for any driver: the types,  *)
(* and that the event trees hold exactly the sleepers in use.  The second  *)
(* rests on the event locks: a sleeper that a walk has in hand stays       *)
(* linked until the walk moves on.                                         *)
(***************************************************************************)
EXTENDS QotScheduler, TLAPS

-----------------------------------------------------------------------------
\* The projection and the discipline operations, over integers and parameters.

LEMMA DivType ==
    ASSUME NEW a \in Int, NEW b \in Nat \ {0}
    PROVE  /\ a \div b \in Int
           /\ a % b \in 0 .. b - 1
           /\ a >= 0 => a \div b \in Nat
    BY SMT

LEMMA DivS64Type ==
    ASSUME NEW a \in Int, NEW b \in Nat \ {0}
    PROVE  div_s64(a, b) \in Int
<1>1. CASE a >= 0
  BY <1>1, DivType, Zenon DEF div_s64
<1>2. CASE ~ (a >= 0)
  <2>1. (-a) \div b \in Int
    BY DivType
  <2> QED
    BY <1>2, <2>1 DEF div_s64
<1> QED
  BY <1>1, <1>2, Zenon

LEMMA Loc2RemType ==
    ASSUME NEW p \in Params, NEW val \in Int
    PROVE  qot_loc2rem(p, val) \in Int
<1>1. p.nsec \in Int /\ p.last \in Int /\ p.mult \in Int
  BY Zenon DEF Params, Ppb
<1>2. p.mult * (val - p.last) \in Int
  BY <1>1
<1>3. div_s64(p.mult * (val - p.last), Giga) \in Int
  BY <1>2, DivS64Type, ProjectionAssumption, Zenon
<1> QED
  BY <1>1, <1>3 DEF qot_loc2rem

LEMMA S64Type ==
    ASSUME NEW x \in Int
    PROVE  s64(x) \in Int
<1>1. x % Word \in Int /\ Word \div 2 \in Int
  BY DivType, ProjectionAssumption
<1> QED
  BY <1>1, ProjectionAssumption DEF s64

LEMMA Rem2LocType ==
    ASSUME NEW p \in Params, NEW val \in Int
    PROVE  qot_rem2loc(p, val) \in Int
<1> DEFINE diff == (val - p.nsec) % Word
           rate == p.mult + Giga
<1>1. p.nsec \in Int /\ p.last \in Int /\ rate \in Nat \ {0}
  BY ProjectionAssumption DEF Params, Ppb
<1>2. val - p.nsec \in Int
  BY <1>1
<1>3. diff \in Nat
  BY <1>2, DivType, ProjectionAssumption
<1>4. diff \div rate \in Int /\ diff % rate \in Int
  <2> HIDE DEF diff, rate
  <2> QED
    BY <1>1, <1>3, DivType
<1>5. (diff \div rate) * Giga \in Int
  BY <1>4, ProjectionAssumption
<1>6. s64((diff \div rate) * Giga) \in Int
  BY <1>5, S64Type, Zenon
<1> QED
  BY <1>1, <1>4, <1>6 DEF qot_rem2loc

\* The discipline operations keep the parameters well formed.
LEMMA DisciplineType ==
    ASSUME NEW p \in Params, NEW ns \in Int
    PROVE  /\ \A ppb \in Ppb : adjfreq(p, ns, ppb) \in Params
           /\ \A delta \in Int : adjtime(p, delta) \in Params
           /\ \A val \in Int : settime(p, ns, val) \in Params
<1>1. qot_loc2rem(p, ns) \in Int
  BY Loc2RemType, Zenon
<1>2. ASSUME NEW ppb \in Ppb PROVE adjfreq(p, ns, ppb) \in Params
  BY <1>1, Zenon DEF adjfreq, Params
<1>3. ASSUME NEW delta \in Int PROVE adjtime(p, delta) \in Params
  BY DEF adjtime, Params
<1>4. ASSUME NEW val \in Int PROVE settime(p, ns, val) \in Params
  BY Zenon DEF settime, Params
<1> QED
  BY <1>2, <1>3, <1>4, Zenon

-----------------------------------------------------------------------------
\* What the helpers return.

LEMMA RbFirstType ==
    ASSUME NEW S
    PROVE  rb_first(S) \in S \cup {Nil}
<1>1. CASE \E s \in S : IsFirst(s, S)
  <2>1. rb_first(S) = CHOOSE s \in S : IsFirst(s, S)
    BY <1>1, Zenon DEF rb_first
  <2>2. (CHOOSE s \in S : IsFirst(s, S)) \in S
    BY <1>1, Zenon
  <2> QED
    BY <2>1, <2>2, Zenon
<1>2. CASE ~ \E s \in S : IsFirst(s, S)
  BY <1>2, Zenon DEF rb_first
<1> QED
  BY <1>1, <1>2, Zenon

LEMMA ClockOfType ==
    ASSUME NEW l \in Timeline
    PROVE  ClockOf(l) \in Clock
    BY SchedulerAssumption DEF ClockOf, Clock, Timeline

LEMMA ProjectedType ==
    ASSUME params \in [Clock -> Params], NEW l \in Timeline, NEW v \in Int
    PROVE  /\ qot_remote_to_core(v, l) \in Int
           /\ qot_core_to_remote(v, l) \in Int
<1>1. params[ClockOf(l)] \in Params
  BY ClockOfType, Zenon
<1> QED
  BY <1>1, Loc2RemType, Rem2LocType, Zenon DEF qot_remote_to_core, qot_core_to_remote

LEMMA ArmTimeType ==
    ASSUME now \in Nat, NEW e \in Int
    PROVE  ArmTime(e) \in Nat
    BY SchedulerAssumption DEF ArmTime

LEMMA ClampType ==
    ASSUME NEW v \in Int
    PROVE  ClampSec(v) \in Int
<1>1. v % Giga \in Int
  BY DivType, ProjectionAssumption
<1> QED
  BY <1>1, Zenon DEF ClampSec

LEMMA TimepointDiffType ==
    ASSUME NEW a \in Int, NEW b \in Int
    PROVE  TimepointDiff(a, b) \in Nat
<1> DEFINE tp(v) == Elapsed!scalar_to_timepoint(v, Giga, 1)
<1>1. ASSUME NEW v \in Int PROVE tp(v).sec \in Int /\ tp(v).asec \in Int
  <2>1. Elapsed!Abs(v) \in Int
    BY DEF Elapsed!Abs
  <2>2. Elapsed!Abs(v) \div Giga \in Int
    BY <2>1, DivType, ProjectionAssumption, Zenon
  <2>3. Giga * (Elapsed!Abs(v) \div Giga) \in Int
    BY <2>2, ProjectionAssumption
  <2> QED
    BY <2>1, <2>2, <2>3, ProjectionAssumption DEF Elapsed!scalar_to_timepoint
<1>2. ASSUME NEW x \in Int, NEW y \in Int PROVE Elapsed!Abs(x - y) \in Nat
  BY DEF Elapsed!Abs
<1> DEFINE d == Elapsed!timepoint_diff(tp(a), tp(b))
<1>3. d.sec \in Nat /\ d.asec \in Nat
  <2> HIDE DEF tp
  <2> QED
    BY <1>1, <1>2, Zenon DEF Elapsed!timepoint_diff
<1>4. TimepointDiff(a, b) = d.sec * Giga + d.asec
  BY Zenon DEF TimepointDiff, Elapsed!Value
<1>5. d.sec * Giga \in Nat
  <2> HIDE DEF d
  <2> QED
    BY <1>3, ProjectionAssumption
<1> HIDE DEF d
<1> QED
  BY <1>3, <1>4, <1>5

LEMMA FirstExpiryType ==
    ASSUME NEW start \in Int, NEW period \in Nat \ {0}, NEW time \in Int
    PROVE  FirstExpiry(start, period, time) \in Int
<1> DEFINE elapsed == TimepointDiff(time, start)
           periods == elapsed \div period + (IF elapsed % period = 0 THEN 0 ELSE 1)
<1>1. elapsed \in Nat
  BY TimepointDiffType, Zenon
<1>2. periods \in Int
  <2> HIDE DEF elapsed
  <2>1. elapsed \div period \in Int
    BY <1>1, DivType
  <2> QED
    BY <2>1
<1>3. start + periods * period \in Int
  <2> HIDE DEF periods
  <2> QED
    BY <1>2
<1> QED
  BY <1>3, Zenon DEF FirstExpiry
-----------------------------------------------------------------------------
\* What the sub-actions do to the types.

LEMMA MarkReachedType ==
    ASSUME NEW ps, NEW val, MarkReached(ps, val), reached \in [Task -> BOOLEAN]
    PROVE  reached' \in [Task -> BOOLEAN]
    BY Zenon DEF MarkReached

LEMMA EventAddType ==
    ASSUME TreeType, NEW l \in Timeline, NEW s \in Sleeper, NEW e \in Int,
           qot_timeline_event_add(l, s, e)
    PROVE  /\ tree' \in [Timeline -> SUBSET Sleeper]
           /\ fifo' \subseteq Sleeper \X Sleeper
           /\ qot_expires' \in [Sleeper -> Int]
<1>1. tree' \in [Timeline -> SUBSET Sleeper]
  BY Zenon DEF TreeType, qot_timeline_event_add
<1>2. FifoWithout(s) \subseteq Sleeper \X Sleeper
  BY Zenon DEF TreeType, FifoWithout
<1>3. {<<r, s>> : r \in {q \in tree[l] \ {s} : qot_expires[q] = e}}
          \subseteq Sleeper \X Sleeper
  BY DEF TreeType
<1>4. qot_expires' \in [Sleeper -> Int]
  BY Zenon DEF TreeType, qot_timeline_event_add
<1> QED
  BY <1>1, <1>2, <1>3, <1>4, Zenon DEF qot_timeline_event_add

LEMMA RbEraseType ==
    ASSUME TreeType, NEW s, rb_erase(s)
    PROVE  /\ tree' \in [Timeline -> SUBSET Sleeper]
           /\ fifo' \subseteq Sleeper \X Sleeper
    BY Zenon DEF TreeType, rb_erase, FifoWithout

LEMMA AdvanceType ==
    ASSUME TypeOK, NEW x \in Walker, Advance(x)
    PROVE  node' \in [Walker -> Sleeper \cup {Nil}]
<1> DEFINE S == {r \in tree[TimelineOf(x)] : Before(node[x], r)}
<1>1. TimelineOf(x) \in Timeline
  BY Zenon DEF TypeOK, WalkType, TimelineOf
<1>2. S \subseteq Sleeper
  BY <1>1, Zenon DEF TypeOK, TreeType
<1>3. rb_next(TimelineOf(x), node[x]) \in Sleeper \cup {Nil}
  <2> HIDE DEF S
  <2>1. rb_next(TimelineOf(x), node[x]) = rb_first(S)
    BY Zenon DEF rb_next, S
  <2> QED
    BY <1>2, <2>1, RbFirstType, Zenon
<1> QED
  BY <1>3, Zenon DEF Advance, TypeOK, WalkType

\* The parts an action leaves alone.
LEMMA TypeUnchanged ==
    ASSUME TypeOK
    PROVE  /\ UNCHANGED tickVars => TickType'
           /\ UNCHANGED clockVars => ClockType'
           /\ UNCHANGED treeVars => TreeType'
           /\ UNCHANGED sleeperVars => SleeperType'
           /\ UNCHANGED procVars => ProcType'
           /\ UNCHANGED ownerVars => OwnerType'
           /\ UNCHANGED walkVars => WalkType'
    BY Zenon DEF TypeOK, TickType, ClockType, TreeType, SleeperType, ProcType, OwnerType,
                 WalkType, tickVars, clockVars, treeVars, sleeperVars, procVars, ownerVars,
                 walkVars

-----------------------------------------------------------------------------
\* Type correctness.  It needs that the owner process has a timer in hand while
\* its expiry is being projected.

OwnerHasTimer == pc[Owner] = "convert" => owner.timer \in Timer

TypeInv == TypeOK /\ OwnerHasTimer

LEMMA InitTypeInv == Init => TypeInv
<1> SUFFICES ASSUME Init PROVE TypeInv
  BY Zenon
<1> USE SchedulerAssumption, ProjectionAssumption DEF Init
<1>1. InitParams \in Params
  BY DEF InitParams, Params, Ppb
<1>2. 1 \in Timeline
  BY DEF Timeline
<1>3. TickType
  BY DEF TickType
<1>4. ClockType
  BY <1>1, Zenon DEF ClockType
<1>5. TreeType
  BY <1>2 DEF TreeType
<1>6. SleeperType
  BY Zenon DEF SleeperType
<1>7. ProcType
  <2>1. pc \in [Proc -> TaskPc \cup OwnerPc]
    BY Zenon DEF TaskPc
  <2> QED
    BY <2>1 DEF ProcType
<1>8. OwnerType
  <2>1. timer \in [Timer -> TimerRecord]
    BY DEF TimerRecord
  <2>2. owner \in [timer : Timer \cup {Nil}, start : Int, alive : BOOLEAN,
                   bound : [Timeline -> Timer \cup {Nil}]]
    BY SMTT(30)
  <2>3. cancelled \subseteq Timer /\ fault \in BOOLEAN
    BY Zenon
  <2> QED
    BY <2>1, <2>2, <2>3, Zenon DEF OwnerType
<1>9. WalkType
  <2>1. wpc \in [Walker -> IsrPc \cup UpdPc]
    BY Zenon DEF IsrPc
  <2>2. /\ isr \in [tl : Timeline, now : Nat, time : Int, next : Int, retries : Nat]
        /\ upd \in [tl : Timeline, now : Nat, next : Int]
    BY <1>2
  <2> QED
    BY <2>1, <2>2, Zenon DEF WalkType
<1>10. OwnerHasTimer
  BY Zenon DEF OwnerHasTimer, Proc
<1> QED
  BY <1>3, <1>4, <1>5, <1>6, <1>7, <1>8, <1>9, <1>10, Zenon DEF TypeInv, TypeOK

LEMMA TickTypeInv ==
    ASSUME TypeInv, Tick
    PROVE  TypeInv'
<1>1. TickType'
  BY DEF Tick, TypeInv, TypeOK, TickType
<1>2. ClockType'
  BY MarkReachedType, Zenon DEF Tick, TypeInv, TypeOK, ClockType
<1>3. OwnerHasTimer'
  BY Zenon DEF Tick, TypeInv, OwnerHasTimer, procVars, ownerVars
<1> QED
  BY <1>1, <1>2, <1>3, TypeUnchanged, Zenon DEF Tick, TypeInv, TypeOK

LEMMA StartTypeInv ==
    ASSUME TypeInv, NEW p \in Proc, StartStep(p)
    PROVE  TypeInv'
<1> USE DEF TypeInv, TypeOK
<1>1. DropTask(p) \in [Task -> BOOLEAN]
  BY Zenon DEF DropTask, SleeperType
<1>2. StartOk(p) \in (TaskPc \cup OwnerPc) \ {"convert"}
  BY Zenon DEF StartOk, TaskPc, OwnerPc
<1>3. StartFail(p) \in (TaskPc \cup OwnerPc) \ {"convert"}
  BY Zenon DEF StartFail, TaskPc, OwnerPc
<1>4. CASE StartReadTime(p)
  <2>1. SleeperType'
    BY <1>1, <1>4, Zenon DEF StartReadTime, SleeperType
  <2>2. \E v \in {"check", StartFail(p)} : pc' = [pc EXCEPT ![p] = v]
    BY <1>4, Zenon DEF StartReadTime
  <2>3. ProcType' /\ OwnerHasTimer'
    BY <1>3, <1>4, <2>2 DEF StartReadTime, ProcType, OwnerHasTimer, TaskPc, ownerVars
  <2> QED
    BY <1>4, <2>1, <2>3, TypeUnchanged, Zenon DEF StartReadTime
<1>5. CASE StartCheck(p)
  <2>1. ProcType' /\ OwnerHasTimer'
    BY <1>2, <1>5 DEF StartCheck, ProcType, OwnerHasTimer, TaskPc
  <2>2. OwnerType'
    BY <1>5, Zenon DEF StartCheck, OwnerType, Freed
  <2> QED
    BY <1>5, <2>1, <2>2, TypeUnchanged, Zenon DEF StartCheck
<1>6. CASE StartProgram(p)
  <2>1. TickType'
    <3>1. core_time_expiry[p] \in Int
      BY Zenon DEF ProcType
    <3>2. ArmTime(core_time_expiry[p]) \in Nat
      BY <3>1, ArmTimeType, Zenon DEF TickType
    <3> QED
      BY <1>6, <3>1, <3>2, Zenon DEF StartProgram, TickType
  <2>2. SleeperType'
    BY <1>1, <1>6, Zenon DEF StartProgram, SleeperType
  <2>3. \E v \in {StartOk(p), StartFail(p)} : pc' = [pc EXCEPT ![p] = v]
    BY <1>6, Zenon DEF StartProgram
  <2>4. ProcType' /\ OwnerHasTimer'
    BY <1>2, <1>3, <1>6, <2>3 DEF StartProgram, ProcType, OwnerHasTimer, ownerVars
  <2> QED
    BY <1>6, <2>1, <2>2, <2>4, TypeUnchanged, Zenon DEF StartProgram
<1> QED
  BY <1>4, <1>5, <1>6, Zenon DEF StartStep

\* qot_attosleep.
LEMMA TaskTypeInv ==
    ASSUME TypeInv, NEW t \in Task,
           \/ Convert(t) \/ SetInterruptible(t) \/ Schedule(t) \/ Resume(t)
           \/ EraseSleeper(t) \/ Signal(t)
    PROVE  TypeInv'
<1> USE DEF TypeInv, TypeOK
<1>1. t \in Proc /\ t \in Sleeper /\ t # Owner /\ Owner \in Proc
  BY SchedulerAssumption, Zenon DEF Proc, Sleeper
<1>2. CASE Convert(t)
  <2>1. qot_remote_to_core(qot_expires[t], timeline[t]) \in Int
    BY <1>1, ProjectedType, Zenon DEF TreeType, ClockType
  <2>2. ProcType' /\ OwnerHasTimer'
    BY <1>1, <1>2, <2>1, Zenon DEF Convert, ProcType, OwnerHasTimer, TaskPc, ownerVars
  <2> QED
    BY <1>2, <2>2, TypeUnchanged, Zenon DEF Convert
<1>3. CASE SetInterruptible(t)
  <2>1. ProcType' /\ OwnerHasTimer'
    BY <1>1, <1>3, Zenon DEF SetInterruptible, ProcType, OwnerHasTimer, TaskPc, ownerVars
  <2> QED
    BY <1>3, <2>1, TypeUnchanged, Zenon DEF SetInterruptible
<1>4. CASE Schedule(t)
  <2>1. ProcType' /\ OwnerHasTimer'
    BY <1>1, <1>4, Zenon DEF Schedule, ProcType, OwnerHasTimer, TaskPc, ownerVars
  <2> QED
    BY <1>4, <2>1, TypeUnchanged, Zenon DEF Schedule
<1>5. CASE Resume(t)
  <2>1. ProcType' /\ OwnerHasTimer'
    BY <1>1, <1>5, Zenon DEF Resume, ProcType, OwnerHasTimer, TaskPc, ownerVars
  <2> QED
    BY <1>5, <2>1, TypeUnchanged, Zenon DEF Resume
<1>6. CASE EraseSleeper(t)
  <2>1. ProcType' /\ OwnerHasTimer'
    BY <1>1, <1>6, SMTT(30) DEF EraseSleeper, ProcType, OwnerHasTimer, TaskPc, ownerVars
  <2>2. TreeType'
    BY <1>1, <1>6, RbEraseType, SMTT(30) DEF EraseSleeper, TreeType
  <2>3. ClockType'
    BY <1>6, Zenon DEF EraseSleeper, ClockType
  <2> QED
    BY <1>6, <2>1, <2>2, <2>3, TypeUnchanged, Zenon DEF EraseSleeper
<1>7. CASE Signal(t)
  <2>1. ProcType' /\ OwnerHasTimer'
    BY <1>1, <1>7, Zenon DEF Signal, ProcType, OwnerHasTimer, ownerVars
  <2> QED
    BY <1>7, <2>1, TypeUnchanged, Zenon DEF Signal
<1> QED
  BY <1>2, <1>3, <1>4, <1>5, <1>6, <1>7, Zenon

LEMMA InitSleeperTypeInv ==
    ASSUME TypeInv, NEW t \in Task, NEW l \in Timeline, NEW e \in Int,
           InitSleeper(t, l, e)
    PROVE  TypeInv'
<1> USE DEF TypeInv, TypeOK, InitSleeper
<1>1. t \in Proc /\ t \in Sleeper /\ t # Owner /\ Owner \in Proc
  BY SchedulerAssumption, Zenon DEF Proc, Sleeper
<1>2. TreeType'
  BY <1>1, EventAddType, Zenon DEF TreeType
<1>3. SleeperType'
  BY <1>1, Zenon DEF SleeperType
<1>4. ClockType'
  <2>1. HasReached(params[ClockOf(l)], now, e) \in BOOLEAN
    BY DEF HasReached
  <2> HIDE DEF TypeInv
  <2> QED
    BY <2>1, Zenon DEF TypeInv, ClockType
<1>5. ProcType' /\ OwnerHasTimer'
  BY <1>1, Zenon DEF ProcType, OwnerHasTimer, TaskPc, ownerVars
<1> QED
  BY <1>2, <1>3, <1>4, <1>5, TypeUnchanged, Zenon

\* The timer owner.
LEMMA InitTimerTypeInv ==
    ASSUME TypeInv, NEW k \in Timer, NEW l \in Timeline, NEW e \in Int,
           NEW p \in Nat \ {0}, NEW c \in Nat, InitTimerSleeper(k, l, e, p, c)
    PROVE  TypeInv'
<1> USE DEF TypeInv, TypeOK
<1> DEFINE first == FirstExpiry(e, p, qot_core_to_remote(now, l))
<1>1. k \in Sleeper /\ Owner \in Proc
  BY Zenon DEF Proc, Sleeper
<1>2. first \in Int
  <2>1. qot_core_to_remote(now, l) \in Int
    BY ProjectedType DEF TickType, ClockType
  <2> QED
    BY <2>1, FirstExpiryType, Zenon
<1>3. /\ timeline' = [timeline EXCEPT ![k] = l]
      /\ sleeper_active' = [sleeper_active EXCEPT ![k] = TRUE]
      /\ timer' = [timer EXCEPT ![k] = [state |-> "live", first |-> first,
                        period |-> p, count |-> c, counts |-> 1, sent |-> 0]]
      /\ owner' = [owner EXCEPT !.timer = k, !.start = first]
      /\ qot_timeline_event_add(l, k, first)
      /\ pc' = [pc EXCEPT ![Owner] = "convert"]
      /\ UNCHANGED <<tickVars, clockVars, task, core_time_expiry, interruptible,
                     signalled, cancelled, fault, walkVars>>
  BY Zenon DEF InitTimerSleeper
<1> HIDE DEF first
<1>4. TreeType'
  BY <1>1, <1>2, <1>3, EventAddType, Zenon DEF TreeType
<1>5. SleeperType'
  BY <1>1, <1>3, Zenon DEF SleeperType
<1>6. ProcType'
  BY <1>1, <1>3, Zenon DEF ProcType, TaskPc
<1>7. OwnerType'
  <2>1. timer' \in [Timer -> TimerRecord]
    BY <1>2, <1>3 DEF OwnerType, TimerRecord
  <2>2. owner' \in [timer : Timer \cup {Nil}, start : Int, alive : BOOLEAN,
                    bound : [Timeline -> Timer \cup {Nil}]]
    BY <1>2, <1>3, Zenon DEF OwnerType
  <2> QED
    BY <1>3, <2>1, <2>2, Zenon DEF OwnerType
<1>8. OwnerHasTimer'
  BY <1>3, Zenon DEF OwnerType, OwnerHasTimer
<1> QED
  BY <1>3, <1>4, <1>5, <1>6, <1>7, <1>8, TypeUnchanged, Zenon

LEMMA TimerStateType ==
    ASSUME NEW f \in [Timer -> TimerRecord], NEW b,
           NEW v \in {"unused", "live", "done", "freed", "failed"}
    PROVE  [f EXCEPT ![b].state = v] \in [Timer -> TimerRecord]
<1>1. \A r \in TimerRecord : [r EXCEPT !.state = v] \in TimerRecord
  BY Zenon DEF TimerRecord
<1> QED
  BY <1>1, Zenon

LEMMA OwnerTypeInv ==
    ASSUME TypeInv, ConvertStart \/ UnwindTimer \/ PublishTimer \/ OwnerExit
    PROVE  TypeInv'
<1> USE DEF TypeInv, TypeOK
<1>1. Owner \in Proc
  BY Zenon DEF Proc
<1>2. CASE ConvertStart
  <2>1. owner.timer \in Timer /\ owner.start \in Int
    BY <1>2, Zenon DEF ConvertStart, OwnerHasTimer, OwnerType
  <2>2. timeline[owner.timer] \in Timeline
    BY <2>1, Zenon DEF TreeType, Sleeper
  <2>3. qot_remote_to_core(owner.start, timeline[owner.timer]) \in Int
    BY <2>1, <2>2, ProjectedType, Zenon DEF ClockType
  <2>4. ProcType' /\ OwnerHasTimer'
    BY <1>1, <1>2, <2>3, Zenon DEF ConvertStart, ProcType, OwnerHasTimer, TaskPc
  <2> QED
    BY <1>2, <2>4, TypeUnchanged, Zenon DEF ConvertStart
<1>3. CASE UnwindTimer
  <2>1. ProcType' /\ OwnerHasTimer'
    BY <1>1, <1>3 DEF UnwindTimer, OwnerReturns, ProcType, OwnerHasTimer, TaskPc
  <2>2. TreeType'
    BY <1>3, RbEraseType, Zenon DEF UnwindTimer, TreeType
  <2>3. SleeperType'
    BY <1>3, TypeUnchanged, Zenon DEF UnwindTimer
  <2>4. OwnerType'
    <3>1. timer' = [timer EXCEPT ![owner.timer].state = "failed"]
      BY <1>3, Zenon DEF UnwindTimer
    <3>2. timer' \in [Timer -> TimerRecord]
      BY <3>1, TimerStateType, Zenon DEF OwnerType
    <3>3. fault' \in BOOLEAN
      BY <1>3 DEF UnwindTimer, Freed
    <3> QED
      BY <1>3, <3>2, <3>3, Zenon DEF UnwindTimer, OwnerType
  <2> QED
    BY <1>3, <2>1, <2>2, <2>3, <2>4, TypeUnchanged, Zenon DEF UnwindTimer
<1>4. CASE PublishTimer
  <2>1. ProcType' /\ OwnerHasTimer'
    BY <1>1, <1>4 DEF PublishTimer, OwnerReturns, ProcType, OwnerHasTimer, TaskPc
  <2>2. OwnerType'
    <3>1. owner' = [owner EXCEPT !.bound[timeline[owner.timer]] = owner.timer]
      BY <1>4, Zenon DEF PublishTimer
    <3>2. owner' \in [timer : Timer \cup {Nil}, start : Int, alive : BOOLEAN,
                      bound : [Timeline -> Timer \cup {Nil}]]
      BY <3>1, Zenon DEF OwnerType
    <3>3. fault' \in BOOLEAN
      BY <1>4 DEF PublishTimer, Freed
    <3> QED
      BY <1>4, <3>2, <3>3, Zenon DEF PublishTimer, OwnerType
  <2> QED
    BY <1>4, <2>1, <2>2, TypeUnchanged, Zenon DEF PublishTimer
<1>5. CASE OwnerExit
  <2>1. OwnerType' /\ OwnerHasTimer'
    BY <1>5, Zenon DEF OwnerExit, OwnerType, OwnerHasTimer, procVars
  <2> QED
    BY <1>5, <2>1, TypeUnchanged, Zenon DEF OwnerExit
<1> QED
  BY <1>2, <1>3, <1>4, <1>5, Zenon

LEMMA DestroyTypeInv ==
    ASSUME TypeInv, NEW k \in Timer, NEW l \in Timeline, qot_timer_destroy(k, l)
    PROVE  TypeInv'
<1> USE DEF TypeInv, TypeOK
<1> DEFINE b == owner.bound[l]
<1>1. /\ sleeper_active' = [sleeper_active EXCEPT ![b] = FALSE]
      /\ rb_erase(b)
      /\ timer' = [timer EXCEPT ![b].state = "freed"]
      /\ fault' = Freed(b)
      /\ cancelled' = cancelled \cup {k}
      /\ UNCHANGED <<tickVars, clockVars, timeline, qot_expires, task, procVars,
                     owner, walkVars>>
  BY Zenon DEF qot_timer_destroy
<1> HIDE DEF b
<1>2. TreeType'
  BY <1>1, RbEraseType, Zenon DEF TreeType
<1>3. SleeperType'
  BY <1>1, Zenon DEF SleeperType
<1>4. OwnerType'
  <2>1. timer' \in [Timer -> TimerRecord]
    BY <1>1, TimerStateType, Zenon DEF OwnerType
  <2>2. fault' \in BOOLEAN
    BY <1>1 DEF Freed
  <2> QED
    BY <1>1, <2>1, <2>2, Zenon DEF OwnerType
<1>5. OwnerHasTimer'
  BY <1>1, Zenon DEF OwnerHasTimer, procVars
<1> QED
  BY <1>1, <1>2, <1>3, <1>4, <1>5, TypeUnchanged, Zenon

\* The walks over an event tree.
LEMMA WalkTypeInv ==
    ASSUME TypeInv, NEW x \in Walker, WalkStep(x)
    PROVE  TypeInv'
<1> USE DEF TypeInv, TypeOK
<1>1. TimelineOf(x) \in Timeline
  BY Zenon DEF WalkType, TimelineOf
<1>2. CASE WalkBegin(x)
  <2>1. rb_first(tree[TimelineOf(x)]) \in Sleeper \cup {Nil}
    BY <1>1, RbFirstType, Zenon DEF TreeType
  <2>2. WalkType'
    BY <1>1, <1>2, <2>1, Zenon DEF WalkBegin, WalkType, IsrPc
  <2>3. OwnerHasTimer'
    BY <1>2, Zenon DEF WalkBegin, OwnerHasTimer, procVars, ownerVars
  <2> QED
    BY <1>2, <2>2, <2>3, TypeUnchanged, Zenon DEF WalkBegin
<1>3. CASE WakeTask(x)
  <2> DEFINE t == node[x]
  <2>1. /\ t \in Task
        /\ Advance(x)
        /\ WakeIfSet(t)
        /\ cur' = [cur EXCEPT ![x] = t]
        /\ wpc' = [wpc EXCEPT ![x] = "clear"]
        /\ UNCHANGED <<tickVars, clockVars, treeVars, sleeperVars, pc,
                       core_time_expiry, signalled, ownerVars, isr, upd, evlock>>
    BY <1>3, Zenon DEF WakeTask
  <2> HIDE DEF t
  <2>2. WalkType'
    BY <2>1, AdvanceType, Zenon DEF WalkType, IsrPc
  <2>3. ProcType' /\ OwnerHasTimer'
    <3>1. interruptible' \in [Task -> BOOLEAN]
      BY <2>1, Zenon DEF WakeIfSet, ProcType
    <3> QED
      BY <2>1, <3>1, Zenon DEF ProcType, OwnerHasTimer, ownerVars
  <2> QED
    BY <2>1, <2>2, <2>3, TypeUnchanged, Zenon
<1>4. CASE ClearTask(x)
  <2>1. WalkType'
    BY <1>4, Zenon DEF ClearTask, WalkType, IsrPc
  <2>2. SleeperType'
    BY <1>4, Zenon DEF ClearTask, SleeperType
  <2>3. OwnerHasTimer'
    BY <1>4, Zenon DEF ClearTask, OwnerHasTimer, procVars, ownerVars
  <2> QED
    BY <1>4, <2>1, <2>2, <2>3, TypeUnchanged, Zenon DEF ClearTask
<1>5. CASE SkipTask(x)
  <2>1. WalkType'
    BY <1>5, AdvanceType, Zenon DEF SkipTask, WalkType
  <2>2. OwnerHasTimer'
    BY <1>5, Zenon DEF SkipTask, OwnerHasTimer, procVars, ownerVars
  <2> QED
    BY <1>5, <2>1, <2>2, TypeUnchanged, Zenon DEF SkipTask
<1>6. CASE WakeTimerAgain(x)
  <2> DEFINE k == node[x]
  <2>1. /\ k \in Timer
        /\ Advance(x)
        /\ timer' = [timer EXCEPT ![k].sent = @ + 1, ![k].counts = @ + 1]
        /\ qot_timeline_event_add(timeline[k], k, qot_expires[k] + timer[k].period)
        /\ UNCHANGED <<tickVars, clockVars, timeline, sleeperVars, procVars, owner,
                       cancelled, fault, wpc, cur, isr, upd, evlock>>
    BY <1>6, Zenon DEF WakeTimerAgain
  <2> HIDE DEF k
  <2>2. WalkType'
    BY <2>1, AdvanceType, Zenon DEF WalkType
  <2>3. timer[k] \in TimerRecord
    BY <2>1, Zenon DEF OwnerType
  <2>4. TreeType'
    <3>1. k \in Sleeper /\ timeline[k] \in Timeline
      BY <2>1, Zenon DEF Sleeper, TreeType
    <3>2. qot_expires[k] + timer[k].period \in Int
      <4>1. timer[k].period \in Nat
        BY <2>3, Zenon DEF TimerRecord
      <4>2. qot_expires[k] \in Int
        BY <3>1, Zenon DEF TreeType
      <4> QED
        BY <4>1, <4>2
    <3> QED
      BY <2>1, <3>1, <3>2, EventAddType, Zenon DEF TreeType
  <2>5. OwnerType'
    <3>1. timer' \in [Timer -> TimerRecord]
      BY <2>1, <2>3 DEF OwnerType, TimerRecord
    <3> QED
      BY <2>1, <3>1, Zenon DEF OwnerType
  <2>6. OwnerHasTimer'
    BY <2>1, Zenon DEF OwnerHasTimer, procVars
  <2> QED
    BY <2>1, <2>2, <2>4, <2>5, <2>6, TypeUnchanged, Zenon
<1>7. CASE WakeTimerLast(x)
  <2> DEFINE k == node[x]
             sent == IF owner.alive THEN timer[k].sent + 1 ELSE timer[k].sent
             state == IF owner.alive THEN "done" ELSE "freed"
  <2>1. /\ k \in Timer
        /\ Advance(x)
        /\ timer' = [timer EXCEPT ![k].sent = sent, ![k].state = state]
        /\ rb_erase(k)
        /\ sleeper_active' = [sleeper_active EXCEPT ![k] = FALSE]
        /\ owner' = [owner EXCEPT !.bound[timeline[k]] = Nil]
        /\ UNCHANGED <<tickVars, clockVars, timeline, qot_expires, task, procVars,
                       cancelled, fault, wpc, cur, isr, upd, evlock>>
    BY <1>7, Zenon DEF WakeTimerLast
  <2>2. timer[k] \in TimerRecord
    BY <2>1, Zenon DEF OwnerType
  <2>3. sent \in Nat /\ state \in {"done", "freed"}
    <3>1. timer[k].sent \in Nat
      BY <2>2, Zenon DEF TimerRecord
    <3> QED
      BY ONLY <3>1
  <2> HIDE DEF k, sent, state
  <2>4. WalkType'
    BY <2>1, AdvanceType, Zenon DEF WalkType
  <2>5. TreeType'
    BY <2>1, RbEraseType, Zenon DEF TreeType
  <2>6. SleeperType'
    BY <2>1, Zenon DEF SleeperType
  <2>7. OwnerType'
    <3>1. timer' \in [Timer -> TimerRecord]
      BY <2>1, <2>2, <2>3, Zenon DEF OwnerType, TimerRecord
    <3>2. owner' \in [timer : Timer \cup {Nil}, start : Int, alive : BOOLEAN,
                      bound : [Timeline -> Timer \cup {Nil}]]
      BY <2>1, Zenon DEF OwnerType
    <3> QED
      BY <2>1, <3>1, <3>2, Zenon DEF OwnerType
  <2>8. OwnerHasTimer'
    BY <2>1, Zenon DEF OwnerHasTimer, OwnerType, procVars
  <2> QED
    BY <2>1, <2>4, <2>5, <2>6, <2>7, <2>8, TypeUnchanged, Zenon
<1> QED
  BY <1>2, <1>3, <1>4, <1>5, <1>6, <1>7, Zenon DEF WalkStep

\* scheduler_interface_interrupt.
LEMMA IsrTypeInv ==
    ASSUME TypeInv,
           \/ Interrupt \/ IsrProject \/ IsrWalkEnd \/ IsrNextEvent
           \/ IsrProgram \/ IsrReread \/ IsrForce
    PROVE  TypeInv'
<1> USE DEF TypeInv, TypeOK
<1>1. ISR \in Walker /\ 1 \in Timeline /\ MaxTimepoint \in Int
  BY SchedulerAssumption DEF Walker, Timeline
<1>2. /\ isr.tl \in Timeline /\ isr.now \in Nat /\ isr.next \in Int
      /\ isr.retries \in Nat /\ now \in Nat
  BY Zenon DEF WalkType, TickType
<1>3. ~ IsLast(isr.tl) => isr.tl + 1 \in Timeline
  <2>1. NTimelines \in Nat
    BY SchedulerAssumption, Zenon
  <2> QED
    BY <1>2, <2>1 DEF IsLast, Timeline
<1>4. ArmTime(isr.next) \in Nat
  BY <1>2, ArmTimeType, Zenon
<1>5. CASE Interrupt
  <2>1. WalkType'
    BY <1>1, <1>2, <1>5, Zenon DEF Interrupt, WalkType, IsrPc
  <2>2. TickType' /\ OwnerHasTimer'
    BY <1>5, Zenon DEF Interrupt, TickType, OwnerHasTimer, procVars, ownerVars
  <2> QED
    BY <1>5, <2>1, <2>2, TypeUnchanged, Zenon DEF Interrupt
<1>6. CASE IsrProject
  <2>1. qot_core_to_remote(isr.now, isr.tl) \in Int
    BY <1>2, ProjectedType DEF ClockType
  <2>2. WalkType'
    BY <1>1, <1>6, <2>1, Zenon DEF IsrProject, WalkType, IsrPc
  <2>3. OwnerHasTimer'
    BY <1>6, Zenon DEF IsrProject, OwnerHasTimer, procVars, ownerVars
  <2> QED
    BY <1>6, <2>2, <2>3, TypeUnchanged, Zenon DEF IsrProject
<1>7. CASE IsrWalkEnd
  <2>1. isr' \in [tl : Timeline, now : Nat, time : Int, next : Int, retries : Nat]
    BY <1>1, <1>3, <1>7, Zenon DEF IsrWalkEnd, WalkType
  <2>2. wpc' \in [Walker -> IsrPc \cup UpdPc]
    BY <1>7 DEF IsrWalkEnd, WalkType, IsrPc
  <2>3. WalkType'
    BY <1>7, <2>1, <2>2, Zenon DEF IsrWalkEnd, WalkType
  <2>4. OwnerHasTimer'
    BY <1>7, Zenon DEF IsrWalkEnd, OwnerHasTimer, procVars, ownerVars
  <2> QED
    BY <1>7, <2>3, <2>4, TypeUnchanged, Zenon DEF IsrWalkEnd
<1>8. CASE IsrNextEvent
  <2> DEFINE next == NextExpiry(isr.tl, isr.next)
  <2>1. next \in Int
    <3> DEFINE S == {s \in tree[isr.tl] : sleeper_active[s]}
               first == rb_first(S)
    <3>1. first \in Sleeper \cup {Nil}
      <4>1. S \subseteq Sleeper
        BY <1>2, Zenon DEF TreeType
      <4> HIDE DEF S
      <4> QED
        BY <4>1, RbFirstType, Zenon
    <3>2. next = IF first # Nil /\ qot_remote_to_core(qot_expires[first], isr.tl) < isr.next
                 THEN qot_remote_to_core(qot_expires[first], isr.tl) ELSE isr.next
      BY Zenon DEF NextExpiry
    <3> HIDE DEF first, next
    <3>3. first # Nil => qot_remote_to_core(qot_expires[first], isr.tl) \in Int
      BY <1>2, <3>1, ProjectedType, Zenon DEF TreeType, ClockType
    <3> QED
      BY <1>2, <3>2, <3>3, Zenon
  <2>2. ClampSec(next) \in Int
    BY <2>1, ClampType, Zenon
  <2>3. /\ IF ~ IsLast(isr.tl)
           THEN /\ isr' = [isr EXCEPT !.tl = @ + 1, !.next = next]
                /\ UNCHANGED wpc
           ELSE /\ isr' = [isr EXCEPT !.next = ClampSec(next)]
                /\ wpc' = [wpc EXCEPT ![ISR] = "program"]
        /\ UNCHANGED <<tickVars, clockVars, treeVars, sleeperVars, procVars,
                       ownerVars, node, cur, upd, evlock>>
    BY <1>8, Zenon DEF IsrNextEvent
  <2> HIDE DEF next
  <2>4. isr' \in [tl : Timeline, now : Nat, time : Int, next : Int, retries : Nat]
    BY <1>3, <2>1, <2>2, <2>3, Zenon DEF WalkType
  <2>5. wpc' \in [Walker -> IsrPc \cup UpdPc]
    BY <2>3, Zenon DEF WalkType, IsrPc
  <2>6. WalkType'
    BY <2>3, <2>4, <2>5, Zenon DEF WalkType
  <2>7. OwnerHasTimer'
    BY <2>3, Zenon DEF OwnerHasTimer, procVars, ownerVars
  <2> QED
    BY <2>3, <2>6, <2>7, TypeUnchanged, Zenon
<1>9. IsrReturns => /\ isr' \in [tl : Timeline, now : Nat, time : Int, next : Int,
                                 retries : Nat]
                    /\ wpc' \in [Walker -> IsrPc \cup UpdPc]
  <2>1. IsrReturns => isr' \in [tl : Timeline, now : Nat, time : Int, next : Int,
                                retries : Nat]
    BY <1>1 DEF IsrReturns
  <2>2. IsrReturns => wpc' \in [Walker -> IsrPc \cup UpdPc]
    BY Zenon DEF IsrReturns, WalkType, IsrPc
  <2> QED
    BY <2>1, <2>2, Zenon
<1>10. CASE IsrProgram
  <2>1. TickType'
    BY <1>2, <1>4, <1>10, Zenon DEF IsrProgram, TickType
  <2>2. isr' \in [tl : Timeline, now : Nat, time : Int, next : Int, retries : Nat]
    BY <1>9, <1>10, Zenon DEF IsrProgram, WalkType
  <2>3. wpc' \in [Walker -> IsrPc \cup UpdPc]
    BY <1>9, <1>10, Zenon DEF IsrProgram, WalkType, IsrPc
  <2>4. WalkType'
    BY <1>10, <2>2, <2>3, Zenon DEF IsrProgram, WalkType
  <2>5. OwnerHasTimer'
    BY <1>10, Zenon DEF IsrProgram, OwnerHasTimer, procVars, ownerVars
  <2> QED
    BY <1>10, <2>1, <2>4, <2>5, TypeUnchanged, Zenon DEF IsrProgram
<1>11. CASE IsrReread
  <2>1. WalkType'
    <3>1. isr' \in [tl : Timeline, now : Nat, time : Int, next : Int, retries : Nat]
      <4>1. isr' = [isr EXCEPT !.tl = 1, !.now = now, !.retries = isr.retries + 1]
        BY <1>11, Zenon DEF IsrReread
      <4>2. isr.retries + 1 \in Nat
        BY <1>2
      <4> QED
        BY <1>1, <1>2, <4>1, <4>2, Zenon DEF WalkType
    <3>2. wpc' \in [Walker -> IsrPc \cup UpdPc]
      BY <1>11, Zenon DEF IsrReread, WalkType, IsrPc
    <3> QED
      BY <1>11, <3>1, <3>2, Zenon DEF IsrReread, WalkType
  <2>2. OwnerHasTimer'
    BY <1>11, Zenon DEF IsrReread, OwnerHasTimer, procVars, ownerVars
  <2> QED
    BY <1>11, <2>1, <2>2, TypeUnchanged, Zenon DEF IsrReread
<1>12. CASE IsrForce
  <2>1. TickType'
    BY <1>2, <1>4, <1>12, Zenon DEF IsrForce, TickType
  <2>2. WalkType'
    BY <1>9, <1>12, Zenon DEF IsrForce, WalkType
  <2>3. OwnerHasTimer'
    BY <1>12, Zenon DEF IsrForce, OwnerHasTimer, procVars, ownerVars
  <2> QED
    BY <1>12, <2>1, <2>2, <2>3, TypeUnchanged, Zenon DEF IsrForce
<1> QED
  BY <1>5, <1>6, <1>7, <1>8, <1>10, <1>11, <1>12, Zenon

\* qot_scheduler_update.
LEMMA UpdTypeInv ==
    ASSUME TypeInv, UpdRead \/ UpdWalkEnd \/ UpdRecheck \/ UpdProgram
    PROVE  TypeInv'
<1> USE DEF TypeInv, TypeOK
<1>1. UPD \in Walker /\ 1 \in Timeline
  BY SchedulerAssumption DEF Walker, Timeline
<1>2. /\ upd.tl \in Timeline /\ upd.now \in Nat /\ upd.next \in Int
      /\ now \in Nat /\ next_interrupt_callback \in Int
  BY Zenon DEF WalkType, TickType
<1>3. UpdReturns => /\ upd' \in [tl : Timeline, now : Nat, next : Int]
                    /\ wpc' \in [Walker -> IsrPc \cup UpdPc]
  <2>1. UpdReturns => upd' \in [tl : Timeline, now : Nat, next : Int]
    BY <1>1 DEF UpdReturns
  <2>2. UpdReturns => wpc' \in [Walker -> IsrPc \cup UpdPc]
    BY Zenon DEF UpdReturns, WalkType, IsrPc
  <2> QED
    BY <2>1, <2>2, Zenon
<1>4. CASE UpdRead
  <2>1. WalkType'
    BY <1>1, <1>2, <1>4, Zenon DEF UpdRead, WalkType, IsrPc
  <2>2. OwnerHasTimer'
    BY <1>4, Zenon DEF UpdRead, OwnerHasTimer, procVars, ownerVars
  <2> QED
    BY <1>4, <2>1, <2>2, TypeUnchanged, Zenon DEF UpdRead
<1>5. CASE UpdWalkEnd
  <2> DEFINE core == qot_remote_to_core(qot_expires[node[UPD]], upd.tl)
             next == IF node[UPD] # Nil /\ core < upd.next THEN core ELSE upd.next
  <2>1. node[UPD] # Nil => core \in Int
    BY <1>1, <1>2, ProjectedType, Zenon DEF TreeType, ClockType, WalkType
  <2>2. next \in Int
    <3> HIDE DEF core
    <3> QED
      BY <1>2, <2>1, Zenon
  <2>3. ClampSec(next) \in Int
    <3> HIDE DEF next
    <3> QED
      BY <2>2, ClampType, Zenon
  <2>4. /\ evlock' = [evlock EXCEPT ![upd.tl] = Nil]
        /\ node' = [node EXCEPT ![UPD] = Nil]
        /\ upd' = [upd EXCEPT !.next = ClampSec(next)]
        /\ wpc' = [wpc EXCEPT ![UPD] = "recheck"]
        /\ UNCHANGED <<tickVars, clockVars, treeVars, sleeperVars, procVars,
                       ownerVars, cur, isr>>
    BY <1>5, Zenon DEF UpdWalkEnd
  <2> HIDE DEF next
  <2>5. WalkType'
    BY <1>1, <2>3, <2>4, Zenon DEF WalkType, UpdPc
  <2>6. OwnerHasTimer'
    BY <2>4, Zenon DEF OwnerHasTimer, procVars, ownerVars
  <2> QED
    BY <2>4, <2>5, <2>6, TypeUnchanged, Zenon
<1>6. CASE UpdRecheck
  <2>1. /\ upd' \in [tl : Timeline, now : Nat, next : Int]
        /\ wpc' \in [Walker -> IsrPc \cup UpdPc]
    BY <1>3, <1>6, Zenon DEF UpdRecheck, WalkType, IsrPc
  <2>2. WalkType'
    BY <1>6, <2>1, Zenon DEF UpdRecheck, WalkType
  <2>3. OwnerHasTimer'
    BY <1>6, Zenon DEF UpdRecheck, OwnerHasTimer, procVars, ownerVars
  <2> QED
    BY <1>6, <2>2, <2>3, TypeUnchanged, Zenon DEF UpdRecheck
<1>7. CASE UpdProgram
  <2>1. ArmTime(upd.next) \in Nat
    BY <1>2, ArmTimeType, Zenon
  <2>2. TickType'
    BY <1>2, <1>7, <2>1, Zenon DEF UpdProgram, TickType
  <2>3. WalkType'
    BY <1>3, <1>7, Zenon DEF UpdProgram, WalkType
  <2>4. OwnerHasTimer'
    BY <1>7, Zenon DEF UpdProgram, OwnerHasTimer, procVars, ownerVars
  <2> QED
    BY <1>7, <2>2, <2>3, <2>4, TypeUnchanged, Zenon DEF UpdProgram
<1> QED
  BY <1>4, <1>5, <1>6, <1>7

\* A discipline call, with or without the update that follows it.
DisciplineCall(l) ==
    /\ \E c \in Clock, p \in Params : Discipline(c, p)
    /\ StartUpdate(l) \/ UNCHANGED <<wpc, upd>>

LEMMA DisciplineTypeInv ==
    ASSUME TypeInv, NEW l \in Timeline, DisciplineCall(l)
    PROVE  TypeInv'
<1> USE DEF TypeInv, TypeOK
<1>1. PICK c \in Clock, p \in Params : Discipline(c, p)
  BY Zenon DEF DisciplineCall
<1>2. /\ disciplines' = disciplines + 1
      /\ params' = [params EXCEPT ![c] = p]
      /\ MarkReached(params', now)
      /\ UNCHANGED <<tickVars, treeVars, sleeperVars, procVars, ownerVars, node,
                     cur, isr, evlock>>
  BY <1>1, Zenon DEF Discipline
<1>3. ClockType'
  <2>1. reached' \in [Task -> BOOLEAN]
    BY <1>2, MarkReachedType, Zenon DEF ClockType
  <2> QED
    BY <1>2, <2>1 DEF ClockType
<1>4. WalkType'
  <2>1. /\ upd' \in [tl : Timeline, now : Nat, next : Int]
        /\ wpc' \in [Walker -> IsrPc \cup UpdPc]
    BY Zenon DEF DisciplineCall, StartUpdate, WalkType, UpdPc
  <2> QED
    BY <1>2, <2>1, Zenon DEF WalkType
<1>5. OwnerHasTimer'
  BY <1>2, Zenon DEF OwnerHasTimer, procVars, ownerVars
<1> QED
  BY <1>2, <1>3, <1>4, <1>5, TypeUnchanged, Zenon

-----------------------------------------------------------------------------
\* The steps of the system, with the types of their arguments: the case split
\* of every proof that a property is preserved.

RequestStep(l) ==
    \/ \E t \in Task, e \in Int : InitSleeper(t, l, e)
    \/ \E k \in Timer, e \in Int, p \in Nat \ {0}, c \in Nat :
           InitTimerSleeper(k, l, e, p, c)
    \/ \E k \in Timer : qot_timer_destroy(k, l)
    \/ DisciplineCall(l)

ProcStep ==
    \/ \E p \in Proc : StartStep(p)
    \/ \E t \in Task : \/ Convert(t) \/ SetInterruptible(t) \/ Schedule(t)
                       \/ Resume(t) \/ EraseSleeper(t) \/ Signal(t)
    \/ ConvertStart \/ UnwindTimer \/ PublishTimer \/ OwnerExit

IsrOwnStep ==
    \/ Interrupt \/ IsrProject \/ IsrWalkEnd \/ IsrNextEvent
    \/ IsrProgram \/ IsrReread \/ IsrForce

UpdOwnStep == UpdRead \/ UpdWalkEnd \/ UpdRecheck \/ UpdProgram

LEMMA RequestCases ==
    ASSUME TypeInv, Request
    PROVE  \E l \in Timeline : RequestStep(l)
<1> USE SchedulerAssumption
<1>1. PICK l \in Timeline :
        \/ \E t \in Task, e \in Expiries : InitSleeper(t, l, e)
        \/ \E k \in Timer, e \in Expiries, p \in Periods, c \in Counts :
               InitTimerSleeper(k, l, e, p, c)
        \/ \E k \in Timer : qot_timer_destroy(k, l)
        \/ \E d \in Deltas : qot_timeline_clock_adjtime(l, d)
                             \/ qot_clock_gl_adjtime(l, d)
        \/ \E f \in Ppbs : qot_timeline_clock_adjfreq(l, f)
                           \/ qot_clock_gl_adjfreq(l, f)
        \/ \E v \in Settings : qot_timeline_chdev_settime(l, v)
                               \/ qot_timeline_gl_chdev_settime(l, v)
  BY Zenon DEF Request
<1>2. l \in Clock /\ 0 \in Clock /\ now \in Int
  <2>1. NTimelines \in Nat
    BY SchedulerAssumption, Zenon
  <2>2. l \in Clock /\ 0 \in Clock
    BY <2>1 DEF Clock, Timeline
  <2>3. now \in Int
    BY DEF TypeInv, TypeOK, TickType
  <2> QED
    BY <2>2, <2>3, Zenon
<1>3. params[l] \in Params /\ params[0] \in Params
  BY <1>2, Zenon DEF TypeInv, TypeOK, ClockType
<1>4. CASE \E t \in Task, e \in Expiries : InitSleeper(t, l, e)
  BY <1>4, Zenon DEF RequestStep
<1>5. CASE \E k \in Timer, e \in Expiries, p \in Periods, c \in Counts :
               InitTimerSleeper(k, l, e, p, c)
  BY <1>5, Zenon DEF RequestStep
<1>6. CASE \E k \in Timer : qot_timer_destroy(k, l)
  BY <1>6, Zenon DEF RequestStep
<1>7. CASE \E d \in Deltas : qot_timeline_clock_adjtime(l, d)
                             \/ qot_clock_gl_adjtime(l, d)
  <2>1. PICK d \in Deltas : qot_timeline_clock_adjtime(l, d)
                            \/ qot_clock_gl_adjtime(l, d)
    BY <1>7, Zenon
  <2>2. d \in Int
    BY Zenon
  <2>3. adjtime(params[l], d) \in Params /\ adjtime(params[0], d) \in Params
    BY <1>2, <1>3, <2>2, DisciplineType, Zenon
  <2> QED
    BY <1>2, <2>1, <2>3, Zenon
       DEF qot_timeline_clock_adjtime, qot_clock_gl_adjtime, RequestStep, DisciplineCall
<1>8. CASE \E f \in Ppbs : qot_timeline_clock_adjfreq(l, f)
                           \/ qot_clock_gl_adjfreq(l, f)
  <2>1. PICK f \in Ppbs : qot_timeline_clock_adjfreq(l, f)
                          \/ qot_clock_gl_adjfreq(l, f)
    BY <1>8, Zenon
  <2>2. f \in Ppb
    BY Zenon
  <2>3. adjfreq(params[l], now, f) \in Params /\ adjfreq(params[0], now, f) \in Params
    BY <1>2, <1>3, <2>2, DisciplineType, Zenon
  <2> QED
    BY <1>2, <2>1, <2>3, Zenon
       DEF qot_timeline_clock_adjfreq, qot_clock_gl_adjfreq, RequestStep, DisciplineCall
<1>9. CASE \E v \in Settings : qot_timeline_chdev_settime(l, v)
                               \/ qot_timeline_gl_chdev_settime(l, v)
  <2>1. PICK v \in Settings : qot_timeline_chdev_settime(l, v)
                              \/ qot_timeline_gl_chdev_settime(l, v)
    BY <1>9, Zenon
  <2>2. v \in Int
    BY Zenon
  <2>3. settime(params[l], now, v) \in Params /\ settime(params[0], now, v) \in Params
    BY <1>2, <1>3, <2>2, DisciplineType, Zenon
  <2> QED
    BY <1>2, <2>1, <2>3, Zenon
       DEF qot_timeline_chdev_settime, qot_timeline_gl_chdev_settime, RequestStep,
           DisciplineCall
<1> QED
  BY <1>1, <1>4, <1>5, <1>6, <1>7, <1>8, <1>9, Zenon

LEMMA NextCases ==
    ASSUME TypeInv, [Next]_vars
    PROVE  \/ UNCHANGED vars
           \/ Tick
           \/ \E l \in Timeline : RequestStep(l)
           \/ ProcStep
           \/ \E x \in Walker : WalkStep(x)
           \/ IsrOwnStep
           \/ UpdOwnStep
<1>1. CASE Request
  BY <1>1, RequestCases, Zenon
<1>2. CASE (\E t \in Task : TaskStep(t)) \/ (\E t \in Signallable : Signal(t))
  BY <1>2, SchedulerAssumption, Zenon DEF TaskStep, ProcStep, Proc
<1>3. CASE OwnerStep \/ OwnerExit
  BY <1>3, Zenon DEF OwnerStep, ProcStep, Proc
<1>4. CASE Interrupt \/ IsrStep
  BY <1>4, Zenon DEF IsrStep, IsrOwnStep, Walker
<1>5. CASE UpdStep
  BY <1>5, Zenon DEF UpdStep, UpdOwnStep, Walker
<1> QED
  BY <1>1, <1>2, <1>3, <1>4, <1>5, Zenon DEF Next

LEMMA NextTypeInv ==
    ASSUME TypeInv, [Next]_vars
    PROVE  TypeInv'
<1>1. CASE UNCHANGED vars
  BY <1>1, TypeUnchanged, Zenon DEF vars, TypeInv, TypeOK, OwnerHasTimer, procVars, ownerVars
<1>2. CASE Tick
  BY <1>2, TickTypeInv, Zenon
<1>3. CASE \E l \in Timeline : RequestStep(l)
  BY <1>3, InitSleeperTypeInv, InitTimerTypeInv, DestroyTypeInv, DisciplineTypeInv, Zenon
     DEF RequestStep
<1>4. CASE ProcStep
  BY <1>4, TaskTypeInv, StartTypeInv, OwnerTypeInv, Zenon DEF ProcStep
<1>5. CASE \E x \in Walker : WalkStep(x)
  BY <1>5, WalkTypeInv, Zenon
<1>6. CASE IsrOwnStep
  BY <1>6, IsrTypeInv, Zenon DEF IsrOwnStep
<1>7. CASE UpdOwnStep
  BY <1>7, UpdTypeInv, Zenon DEF UpdOwnStep
<1> QED
  BY <1>1, <1>2, <1>3, <1>4, <1>5, <1>6, <1>7, NextCases, Zenon

LEMMA TypeInvariant == Spec => []TypeInv
  BY InitTypeInv, NextTypeInv, PTL DEF Spec

\* The variables of the scheduler keep their types: the iterator of a walk is a
\* sleeper or NULL, a programmed interrupt is a time of the core clock, and all
\* projections are integers, whatever the discipline calls do.
THEOREM TypeCorrect == Spec => []TypeOK
<1>1. TypeInv => TypeOK
  BY Zenon DEF TypeInv
<1> QED
  BY <1>1, TypeInvariant, PTL

-----------------------------------------------------------------------------
\* The inductive invariant.

Walking(x) == wpc[x] \in {"walk", "clear"}

\* LinkedIffInUse, sleeper by sleeper.
Linked ==
    /\ \A t \in Task, l \in Timeline :
           t \in tree[l] <=> pc[t] # "out" /\ timeline[t] = l
    /\ \A k \in Timer, l \in Timeline :
           k \in tree[l] <=> timer[k].state = "live" /\ timeline[k] = l

\* A walk holds the lock of its tree, and its iterator is linked there.
WalkLinked ==
    \A x \in Walker : Walking(x) =>
        /\ evlock[TimelineOf(x)] = x
        /\ node[x] \in tree[TimelineOf(x)] \cup {Nil}

\* No sleeper comes after itself.
Irreflexive == \A s \in Sleeper : <<s, s>> \notin fifo

\* The binding points to a timer of its own timeline.
BoundHere ==
    \A l \in Timeline : owner.bound[l] # Nil =>
        /\ timer[owner.bound[l]].state # "unused"
        /\ timeline[owner.bound[l]] = l

\* The owner in an ioctl has a timer in hand that was allocated.
InHand ==
    pc[Owner] # "out" =>
        owner.timer \in Timer /\ timer[owner.timer].state # "unused"

LinkInv == TypeInv /\ Linked /\ WalkLinked /\ Irreflexive /\ BoundHere /\ InHand

\* The two ways a walk's claim survives a step of somebody else: the tree is
\* another one, or nothing in it changes.
LEMMA WalkStays ==
    ASSUME LinkInv, UNCHANGED walkVars,
           NEW l, evlock[l] = Nil,
           \A m \in Timeline \ {l} : tree'[m] = tree[m]
    PROVE  WalkLinked'
<1> SUFFICES ASSUME NEW x \in Walker, Walking(x)'
             PROVE  /\ evlock'[TimelineOf(x)'] = x
                    /\ node'[x] \in tree'[TimelineOf(x)'] \cup {Nil}
  BY Zenon DEF WalkLinked
<1>1. Walking(x) /\ TimelineOf(x)' = TimelineOf(x) /\ UNCHANGED <<evlock, node>>
  BY Zenon DEF walkVars, Walking, TimelineOf
<1>2. /\ evlock[TimelineOf(x)] = x
      /\ node[x] \in tree[TimelineOf(x)] \cup {Nil}
  BY <1>1, Zenon DEF LinkInv, WalkLinked
<1>3. TimelineOf(x) \in Timeline /\ x # Nil
  BY SchedulerAssumption, Zenon DEF LinkInv, TypeInv, TypeOK, WalkType, TimelineOf, Walker
<1>4. TimelineOf(x) # l
  BY <1>2, <1>3, Zenon
<1> QED
  BY <1>1, <1>2, <1>3, <1>4, Zenon

LEMMA WalkUnchanged ==
    ASSUME LinkInv, UNCHANGED walkVars, UNCHANGED tree
    PROVE  WalkLinked'
    BY Zenon DEF LinkInv, WalkLinked, Walking, TimelineOf, walkVars

\* Steps that touch no sleeper.
LEMMA QuietLinked ==
    ASSUME LinkInv, UNCHANGED <<tree, fifo, timeline, timer>>,
           \A t \in Task : pc'[t] = "out" <=> pc[t] = "out"
    PROVE  Linked' /\ Irreflexive'
    BY Zenon DEF LinkInv, Linked, Irreflexive

LEMMA QuietOwner ==
    ASSUME LinkInv, UNCHANGED <<timeline, timer>>,
           owner'.bound = owner.bound, owner'.timer = owner.timer,
           pc'[Owner] # "out" => pc[Owner] # "out"
    PROVE  BoundHere' /\ InHand'
    BY Zenon DEF LinkInv, BoundHere, InHand

-----------------------------------------------------------------------------
\* One lemma for each group of actions.

LEMMA RestLinked ==
    ASSUME LinkInv, UNCHANGED vars \/ Tick
    PROVE  Linked' /\ WalkLinked' /\ Irreflexive' /\ BoundHere' /\ InHand'
<1>1. UNCHANGED <<tree, fifo, timeline, timer, pc, owner, walkVars>>
  BY Zenon DEF vars, Tick, treeVars, procVars, ownerVars
<1> QED
  BY <1>1, QuietLinked, QuietOwner, WalkUnchanged, Zenon

LEMMA InitSleeperLinked ==
    ASSUME LinkInv, NEW t \in Task, NEW l \in Timeline, NEW e \in Int,
           InitSleeper(t, l, e)
    PROVE  Linked' /\ WalkLinked' /\ Irreflexive' /\ BoundHere' /\ InHand'
<1> USE DEF LinkInv
<1>1. /\ pc[t] = "out" /\ evlock[l] = Nil
      /\ timeline' = [timeline EXCEPT ![t] = l]
      /\ tree' = [tree EXCEPT ![l] = @ \cup {t}]
      /\ fifo' = FifoWithout(t) \cup
                 {<<r, t>> : r \in {q \in tree[l] \ {t} : qot_expires[q] = e}}
      /\ pc' = [pc EXCEPT ![t] = "convert"]
      /\ UNCHANGED <<ownerVars, walkVars>>
  BY Zenon DEF InitSleeper, qot_timeline_event_add, Unlocked
<1>2. /\ t \in Proc /\ t # Owner /\ Owner \in Proc /\ t \in Sleeper
      /\ \A k \in Timer : k # t /\ k \in Sleeper
      /\ \A s \in Task : s \in Proc /\ s \in Sleeper
  BY SchedulerAssumption, Zenon DEF Proc, Sleeper
<1>3. /\ tree \in [Timeline -> SUBSET Sleeper] /\ timeline \in [Sleeper -> Timeline]
      /\ pc \in [Proc -> TaskPc \cup OwnerPc]
  BY Zenon DEF TypeInv, TypeOK, TreeType, ProcType
<1>4. Linked'
  <2>1. \A s \in Task, m \in Timeline :
            s \in tree'[m] <=> pc'[s] # "out" /\ timeline'[s] = m
    BY <1>1, <1>2, <1>3, Zenon DEF Linked
  <2>2. \A k \in Timer, m \in Timeline :
            k \in tree'[m] <=> timer'[k].state = "live" /\ timeline'[k] = m
    BY <1>1, <1>2, <1>3, Zenon DEF Linked, ownerVars
  <2> QED
    BY <2>1, <2>2, Zenon DEF Linked
<1>5. WalkLinked'
  BY <1>1, <1>3, WalkStays, Zenon
<1>6. Irreflexive'
  BY <1>1, Zenon DEF Irreflexive, FifoWithout
<1>7. BoundHere' /\ InHand'
  <2>1. UNCHANGED <<timer, owner>> /\ pc'[Owner] = pc[Owner]
    BY <1>1, <1>2, <1>3, Zenon DEF ownerVars
  <2>2. \A k \in Timer : timeline'[k] = timeline[k]
    BY <1>1, <1>2, <1>3, Zenon
  <2>3. \A m \in Timeline : owner.bound[m] \in Timer \cup {Nil}
    BY Zenon DEF TypeInv, TypeOK, OwnerType
  <2> QED
    BY <2>1, <2>2, <2>3, Zenon DEF BoundHere, InHand
<1> QED
  BY <1>4, <1>5, <1>6, <1>7, Zenon

LEMMA InitTimerLinked ==
    ASSUME LinkInv, NEW k \in Timer, NEW l \in Timeline, NEW e \in Int,
           NEW p \in Nat \ {0}, NEW c \in Nat, InitTimerSleeper(k, l, e, p, c)
    PROVE  Linked' /\ WalkLinked' /\ Irreflexive' /\ BoundHere' /\ InHand'
<1> USE DEF LinkInv
<1>1. /\ pc[Owner] = "out" /\ timer[k].state = "unused" /\ evlock[l] = Nil
      /\ timeline' = [timeline EXCEPT ![k] = l]
      /\ tree' = [tree EXCEPT ![l] = @ \cup {k}]
      /\ \E S : /\ timer' = [timer EXCEPT ![k] = S]
                /\ S.state = "live"
      /\ \E v : owner' = [owner EXCEPT !.timer = k, !.start = v]
      /\ \E v : fifo' = FifoWithout(k) \cup
                 {<<r, k>> : r \in {q \in tree[l] \ {k} : qot_expires[q] = v}}
      /\ pc' = [pc EXCEPT ![Owner] = "convert"]
      /\ UNCHANGED walkVars
  <2> DEFINE v == FirstExpiry(e, p, qot_core_to_remote(now, l))
             S == [state |-> "live", first |-> v, period |-> p, count |-> c,
                   counts |-> 1, sent |-> 0]
  <2>1. /\ pc[Owner] = "out" /\ timer[k].state = "unused" /\ evlock[l] = Nil
        /\ timeline' = [timeline EXCEPT ![k] = l]
        /\ tree' = [tree EXCEPT ![l] = @ \cup {k}]
        /\ timer' = [timer EXCEPT ![k] = S]
        /\ owner' = [owner EXCEPT !.timer = k, !.start = v]
        /\ fifo' = FifoWithout(k) \cup
                 {<<r, k>> : r \in {q \in tree[l] \ {k} : qot_expires[q] = v}}
        /\ pc' = [pc EXCEPT ![Owner] = "convert"]
        /\ UNCHANGED walkVars
    BY Zenon DEF InitTimerSleeper, qot_timeline_event_add, Unlocked
  <2>2. S.state = "live"
    BY Zenon
  <2> HIDE DEF v, S
  <2> QED
    BY <2>1, <2>2, Zenon
<1>2. /\ k \in Sleeper /\ k \notin Task /\ Owner \in Proc
      /\ \A j \in Timer : j \in Sleeper
      /\ \A s \in Task : s \in Proc /\ s \in Sleeper /\ s # Owner
  BY SchedulerAssumption, Zenon DEF Proc, Sleeper
<1>3. /\ tree \in [Timeline -> SUBSET Sleeper] /\ timeline \in [Sleeper -> Timeline]
      /\ pc \in [Proc -> TaskPc \cup OwnerPc] /\ timer \in [Timer -> TimerRecord]
  BY Zenon DEF TypeInv, TypeOK, TreeType, ProcType, OwnerType
<1>4. /\ timer'[k].state = "live"
      /\ \A j \in Timer \ {k} : timer'[j] = timer[j]
  BY <1>1, <1>3, Zenon
<1>5. Linked'
  <2>1. \A s \in Task, m \in Timeline :
            s \in tree'[m] <=> pc'[s] # "out" /\ timeline'[s] = m
    BY <1>1, <1>2, <1>3 DEF Linked
  <2>2. \A j \in Timer, m \in Timeline :
            j \in tree'[m] <=> timer'[j].state = "live" /\ timeline'[j] = m
    BY <1>1, <1>2, <1>3, <1>4 DEF Linked
  <2> QED
    BY <2>1, <2>2, Zenon DEF Linked
<1>6. WalkLinked'
  BY <1>1, <1>3, WalkStays, Zenon
<1>7. Irreflexive'
  BY <1>1, Zenon DEF Irreflexive, FifoWithout
<1>8. owner'.timer = k /\ owner'.bound = owner.bound
  BY <1>1, Zenon DEF TypeInv, TypeOK, OwnerType
<1>9. BoundHere'
  <2>1. \A m \in Timeline : owner.bound[m] \in Timer \cup {Nil}
    BY Zenon DEF TypeInv, TypeOK, OwnerType
  <2>2. \A m \in Timeline : owner.bound[m] # k
    BY <1>1, <2>1, SchedulerAssumption DEF BoundHere
  <2>3. \A j \in Timer \ {k} : timeline'[j] = timeline[j]
    BY <1>1, <1>2, <1>3, Zenon
  <2> QED
    BY <1>4, <1>8, <2>1, <2>2, <2>3 DEF BoundHere
<1>10. InHand'
  BY <1>4, <1>8, Zenon DEF InHand
<1> QED
  BY <1>5, <1>6, <1>7, <1>9, <1>10, Zenon

\* A timer b of timeline l is unlinked and leaves the state "live", under the
\* event lock: qot_timer_destroy, and the error path of the timer's creation.
LEMMA UnlinkTimer ==
    ASSUME LinkInv, NEW b \in Timer, evlock[timeline[b]] = Nil,
           rb_erase(b), NEW v, v # "live", v # "unused",
           timer[b].state # "unused",
           timer' = [timer EXCEPT ![b].state = v],
           UNCHANGED <<timeline, walkVars>>,
           \A t \in Task : pc'[t] = "out" <=> pc[t] = "out"
    PROVE  /\ Linked' /\ WalkLinked' /\ Irreflexive'
           /\ \A j \in Timer : timer'[j].state = "unused" <=> timer[j].state = "unused"
<1> USE DEF LinkInv
<1>1. /\ tree \in [Timeline -> SUBSET Sleeper] /\ timeline \in [Sleeper -> Timeline]
      /\ timer \in [Timer -> TimerRecord] /\ b \in Sleeper /\ b \notin Task
  BY SchedulerAssumption, Zenon DEF TypeInv, TypeOK, TreeType, OwnerType, Sleeper
<1>2. timer[b] \in TimerRecord
  BY <1>1, Zenon
<1>3. /\ timer'[b].state = v
      /\ \A j \in Timer \ {b} : timer'[j] = timer[j]
  BY <1>1, <1>2, Zenon DEF TimerRecord
<1>4. /\ \A m \in Timeline \ {timeline[b]} : tree'[m] = tree[m]
      /\ tree'[timeline[b]] = tree[timeline[b]] \ {b}
      /\ timeline' = timeline
  BY <1>1, Zenon DEF rb_erase
<1>5. Linked'
  <2>1. ASSUME NEW s \in Task, NEW m \in Timeline
        PROVE  s \in tree'[m] <=> pc'[s] # "out" /\ timeline'[s] = m
    <3>1. s \in tree[m] <=> pc[s] # "out" /\ timeline[s] = m
      BY Zenon DEF Linked
    <3>2. s \in tree'[m] <=> s \in tree[m]
      BY <1>1, <1>4, Zenon
    <3> QED
      BY <1>4, <3>1, <3>2, Zenon
  <2>2. ASSUME NEW j \in Timer, NEW m \in Timeline
        PROVE  j \in tree'[m] <=> timer'[j].state = "live" /\ timeline'[j] = m
    <3>1. j \in tree[m] <=> timer[j].state = "live" /\ timeline[j] = m
      BY Zenon DEF Linked
    <3>2. CASE j = b
      BY <1>3, <1>4, <3>1, <3>2, Zenon
    <3>3. CASE j # b
      BY <1>3, <1>4, <3>1, <3>3, Zenon
    <3> QED
      BY <3>2, <3>3, Zenon
  <2> QED
    BY <2>1, <2>2, Zenon DEF Linked
<1>6. WalkLinked'
  BY <1>4, WalkStays, Zenon
<1>7. Irreflexive'
  BY Zenon DEF Irreflexive, rb_erase, FifoWithout
<1> QED
  BY <1>3, <1>5, <1>6, <1>7, Zenon

LEMMA DestroyLinked ==
    ASSUME LinkInv, NEW k \in Timer, NEW l \in Timeline, qot_timer_destroy(k, l)
    PROVE  Linked' /\ WalkLinked' /\ Irreflexive' /\ BoundHere' /\ InHand'
<1> USE DEF LinkInv
<1>1. PICK b : /\ b = owner.bound[l] /\ b # Nil
               /\ evlock[l] = Nil
               /\ rb_erase(b)
               /\ timer' = [timer EXCEPT ![b].state = "freed"]
               /\ UNCHANGED <<timeline, procVars, owner, walkVars>>
  BY Zenon DEF qot_timer_destroy, Unlocked
<1>2. b \in Timer
  BY <1>1, Zenon DEF TypeInv, TypeOK, OwnerType
<1>3. timer[b].state # "unused" /\ timeline[b] = l
  BY <1>1, Zenon DEF BoundHere
<1>4. \A t \in Task : pc'[t] = "out" <=> pc[t] = "out"
  BY <1>1, Zenon DEF procVars
<1>5. /\ Linked' /\ WalkLinked' /\ Irreflexive'
      /\ \A j \in Timer : timer'[j].state = "unused" <=> timer[j].state = "unused"
  BY <1>1, <1>2, <1>3, <1>4, UnlinkTimer, Zenon
<1>6. \A m \in Timeline : owner.bound[m] \in Timer \cup {Nil}
  BY Zenon DEF TypeInv, TypeOK, OwnerType
<1>7. BoundHere' /\ InHand'
  BY <1>1, <1>5, <1>6, Zenon DEF BoundHere, InHand, procVars
<1> QED
  BY <1>5, <1>7, Zenon

LEMMA DisciplineLinked ==
    ASSUME LinkInv, NEW l \in Timeline, DisciplineCall(l)
    PROVE  Linked' /\ WalkLinked' /\ Irreflexive' /\ BoundHere' /\ InHand'
<1> USE DEF LinkInv
<1>1. /\ wpc[UPD] = "idle"
      /\ UNCHANGED <<treeVars, procVars, ownerVars, node, isr, evlock>>
      /\ \/ UNCHANGED <<wpc, upd>>
         \/ wpc' = [wpc EXCEPT ![UPD] = "read"]
  BY Zenon DEF DisciplineCall, Discipline, StartUpdate
<1>2. UNCHANGED <<tree, fifo, timeline, timer, pc, owner>>
  BY <1>1, Zenon DEF treeVars, procVars, ownerVars
<1>3. WalkLinked'
  <2> SUFFICES ASSUME NEW x \in Walker, Walking(x)'
               PROVE  /\ evlock'[TimelineOf(x)'] = x
                      /\ node'[x] \in tree'[TimelineOf(x)'] \cup {Nil}
    BY Zenon DEF WalkLinked
  <2>1. Walking(x) /\ x = ISR
    BY <1>1, Zenon DEF Walking, Walker, TypeInv, TypeOK, WalkType
  <2>2. TimelineOf(x)' = TimelineOf(x)
    BY <1>1, <2>1, Zenon DEF TimelineOf
  <2> QED
    BY <1>1, <1>2, <2>1, <2>2, Zenon DEF WalkLinked
<1> QED
  BY <1>2, <1>3, QuietLinked, QuietOwner, Zenon

LEMMA ProcLinked ==
    ASSUME LinkInv, ProcStep
    PROVE  Linked' /\ WalkLinked' /\ Irreflexive' /\ BoundHere' /\ InHand'
<1> USE DEF LinkInv
<1>1. /\ Owner \in Proc
      /\ \A s \in Task : s \in Proc /\ s \in Sleeper /\ s # Owner
      /\ pc \in [Proc -> TaskPc \cup OwnerPc]
  BY SchedulerAssumption, Zenon DEF Proc, Sleeper, TypeInv, TypeOK, ProcType
\* A process moves on inside its call.
<1>2. ASSUME NEW p \in Proc, NEW v, pc[p] # "out", v # "out",
             pc' = pc \/ pc' = [pc EXCEPT ![p] = v],
             UNCHANGED <<tree, fifo, timeline, timer, owner, walkVars>>
      PROVE  Linked' /\ WalkLinked' /\ Irreflexive' /\ BoundHere' /\ InHand'
  <2>1. \A q \in Proc : pc'[q] = "out" <=> pc[q] = "out"
    BY <1>1, <1>2, Zenon
  <2> QED
    BY <1>1, <1>2, <2>1, QuietLinked, QuietOwner, WalkUnchanged, Zenon
<1>3. CASE \E p \in Proc : StartStep(p)
  <2>1. PICK p \in Proc : StartStep(p)
    BY <1>3, Zenon
  <2>2. StartOk(p) # "out" /\ StartFail(p) # "out"
    BY Zenon DEF StartOk, StartFail
  <2>3. /\ pc[p] # "out"
        /\ \E v : v # "out" /\ pc' = [pc EXCEPT ![p] = v]
        /\ UNCHANGED <<tree, fifo, timeline, timer, owner, walkVars>>
    <3>1. CASE StartReadTime(p)
      BY <2>2, <3>1, Zenon DEF StartReadTime, treeVars, ownerVars
    <3>2. CASE StartCheck(p)
      BY <2>2, <3>2, Zenon DEF StartCheck, treeVars
    <3>3. CASE StartProgram(p)
      BY <2>2, <3>3, Zenon DEF StartProgram, treeVars, ownerVars
    <3> QED
      BY <2>1, <3>1, <3>2, <3>3, Zenon DEF StartStep
  <2> QED
    BY <1>2, <2>3, Zenon
<1>4. CASE \E t \in Task : Convert(t) \/ SetInterruptible(t) \/ Schedule(t)
                           \/ Resume(t) \/ Signal(t)
  <2>1. PICK t \in Task : Convert(t) \/ SetInterruptible(t) \/ Schedule(t)
                          \/ Resume(t) \/ Signal(t)
    BY <1>4, Zenon
  <2>2. /\ pc[t] # "out"
        /\ \E v : v # "out" /\ (pc' = pc \/ pc' = [pc EXCEPT ![t] = v])
        /\ UNCHANGED <<tree, fifo, timeline, timer, owner, walkVars>>
    <3>1. CASE Convert(t)
      BY <3>1, Zenon DEF Convert, treeVars, ownerVars
    <3>2. CASE SetInterruptible(t)
      BY <3>2, Zenon DEF SetInterruptible, treeVars, ownerVars
    <3>3. CASE Schedule(t)
      BY <3>3, Zenon DEF Schedule, treeVars, ownerVars
    <3>4. CASE Resume(t)
      BY <3>4, Zenon DEF Resume, treeVars, ownerVars
    <3>5. CASE Signal(t)
      BY <3>5, Zenon DEF Signal, treeVars, ownerVars
    <3> QED
      BY <2>1, <3>1, <3>2, <3>3, <3>4, <3>5, Zenon
  <2> QED
    BY <1>1, <1>2, <2>2, Zenon
<1>5. CASE \E t \in Task : EraseSleeper(t)
  <2>1. PICK t \in Task : /\ evlock[timeline[t]] = Nil
                          /\ rb_erase(t)
                          /\ pc' = [pc EXCEPT ![t] = "out"]
                          /\ UNCHANGED <<timeline, ownerVars, walkVars>>
    BY <1>5, Zenon DEF EraseSleeper, Unlocked
  <2>2. /\ tree \in [Timeline -> SUBSET Sleeper] /\ timeline \in [Sleeper -> Timeline]
        /\ t \in Proc /\ t \in Sleeper /\ t \notin Timer
    BY <1>1, SchedulerAssumption, Zenon DEF TypeInv, TypeOK, TreeType
  <2>3. /\ \A m \in Timeline \ {timeline[t]} : tree'[m] = tree[m]
        /\ tree'[timeline[t]] = tree[timeline[t]] \ {t}
        /\ UNCHANGED <<timeline, timer, owner>>
    BY <2>1, <2>2, Zenon DEF rb_erase, ownerVars
  <2>4. Linked'
    <3>1. ASSUME NEW s \in Task, NEW m \in Timeline
          PROVE  s \in tree'[m] <=> pc'[s] # "out" /\ timeline'[s] = m
      <4>1. s \in tree[m] <=> pc[s] # "out" /\ timeline[s] = m
        BY Zenon DEF Linked
      <4>2. CASE s = t
        BY <1>1, <2>1, <2>2, <2>3, <4>1, <4>2, Zenon
      <4>3. CASE s # t
        BY <1>1, <2>1, <2>2, <2>3, <4>1, <4>3, Zenon
      <4> QED
        BY <4>2, <4>3, Zenon
    <3>2. ASSUME NEW j \in Timer, NEW m \in Timeline
          PROVE  j \in tree'[m] <=> timer'[j].state = "live" /\ timeline'[j] = m
      <4>1. j \in tree[m] <=> timer[j].state = "live" /\ timeline[j] = m
        BY Zenon DEF Linked
      <4>2. j \in tree'[m] <=> j \in tree[m]
        BY <2>2, <2>3, Zenon
      <4> QED
        BY <2>3, <4>1, <4>2, Zenon
    <3> QED
      BY <3>1, <3>2, Zenon DEF Linked
  <2>5. WalkLinked'
    BY <2>1, <2>3, WalkStays, Zenon
  <2>6. Irreflexive'
    BY <2>1, Zenon DEF Irreflexive, rb_erase, FifoWithout
  <2>7. BoundHere' /\ InHand'
    BY <1>1, <2>1, <2>2, <2>3, QuietOwner, Zenon
  <2> QED
    BY <2>4, <2>5, <2>6, <2>7, Zenon
<1>6. CASE ConvertStart
  <2>1. /\ pc[Owner] = "convert"
        /\ pc' = [pc EXCEPT ![Owner] = "start"]
        /\ UNCHANGED <<tree, fifo, timeline, timer, owner, walkVars>>
    BY <1>6, Zenon DEF ConvertStart, treeVars, ownerVars
  <2> QED
    BY <1>1, <1>2, <2>1, Zenon
<1>7. CASE UnwindTimer
  <2>1. PICK b : /\ b = owner.timer
                 /\ pc[Owner] = "unwind"
                 /\ evlock[timeline[b]] = Nil
                 /\ rb_erase(b)
                 /\ timer' = [timer EXCEPT ![b].state = "failed"]
                 /\ pc' = [pc EXCEPT ![Owner] = "out"]
                 /\ UNCHANGED <<timeline, owner, walkVars>>
    BY <1>7, Zenon DEF UnwindTimer, OwnerReturns, Unlocked
  <2>2. b \in Timer /\ timer[b].state # "unused"
    BY <2>1, Zenon DEF InHand
  <2>3. \A t \in Task : pc'[t] = "out" <=> pc[t] = "out"
    BY <1>1, <2>1, Zenon
  <2>4. /\ Linked' /\ WalkLinked' /\ Irreflexive'
        /\ \A j \in Timer : timer'[j].state = "unused" <=> timer[j].state = "unused"
    BY <2>1, <2>2, <2>3, UnlinkTimer, Zenon
  <2>5. \A m \in Timeline : owner.bound[m] \in Timer \cup {Nil}
    BY Zenon DEF TypeInv, TypeOK, OwnerType
  <2>6. BoundHere'
    BY <2>1, <2>4, <2>5 DEF BoundHere
  <2>7. InHand'
    BY <1>1, <2>1, Zenon DEF InHand
  <2> QED
    BY <2>4, <2>6, <2>7, Zenon
<1>8. CASE PublishTimer
  <2>1. PICK b : /\ b = owner.timer
                 /\ pc[Owner] = "publish"
                 /\ owner' = [owner EXCEPT !.bound[timeline[b]] = b]
                 /\ pc' = [pc EXCEPT ![Owner] = "out"]
                 /\ UNCHANGED <<treeVars, timer, walkVars>>
    BY <1>8, Zenon DEF PublishTimer, OwnerReturns
  <2>2. b \in Timer /\ timer[b].state # "unused"
    BY <2>1, Zenon DEF InHand
  <2>3. UNCHANGED <<tree, fifo, timeline>>
    BY <2>1, Zenon DEF treeVars
  <2>4. \A t \in Task : pc'[t] = "out" <=> pc[t] = "out"
    BY <1>1, <2>1, Zenon
  <2>5. \A m \in Timeline :
            owner'.bound[m] = IF m = timeline[b] THEN b ELSE owner.bound[m]
    BY <2>1, Zenon DEF TypeInv, TypeOK, OwnerType
  <2>6. BoundHere'
    <3> SUFFICES ASSUME NEW m \in Timeline, owner'.bound[m] # Nil
                 PROVE  /\ timer'[owner'.bound[m]].state # "unused"
                        /\ timeline'[owner'.bound[m]] = m
      BY Zenon DEF BoundHere
    <3>1. CASE m = timeline[b]
      BY <2>1, <2>2, <2>3, <2>5, <3>1, Zenon
    <3>2. CASE m # timeline[b]
      BY <2>1, <2>3, <2>5, <3>2 DEF BoundHere
    <3> QED
      BY <3>1, <3>2, Zenon
  <2>7. InHand'
    BY <1>1, <2>1, Zenon DEF InHand
  <2> QED
    BY <2>1, <2>3, <2>4, <2>6, <2>7, QuietLinked, WalkUnchanged, Zenon
<1>9. CASE OwnerExit
  <2>1. /\ owner' = [owner EXCEPT !.alive = FALSE]
        /\ UNCHANGED <<tree, fifo, timeline, timer, pc, walkVars>>
    BY <1>9, Zenon DEF OwnerExit, treeVars, procVars
  <2>2. owner'.bound = owner.bound /\ owner'.timer = owner.timer
    BY <2>1, Zenon DEF TypeInv, TypeOK, OwnerType
  <2> QED
    BY <2>1, <2>2, QuietLinked, QuietOwner, WalkUnchanged, Zenon
<1> QED
  BY <1>3, <1>4, <1>5, <1>6, <1>7, <1>8, <1>9, Zenon DEF ProcStep

\* The next sleeper of a walk is linked in the same tree, and another one.
LEMMA NextIsLinked ==
    ASSUME LinkInv, NEW l \in Timeline, NEW s \in Sleeper
    PROVE  rb_next(l, s) \in (tree[l] \ {s}) \cup {Nil}
<1> DEFINE S == {r \in tree[l] : Before(s, r)}
<1>1. qot_expires[s] \in Int /\ <<s, s>> \notin fifo
  BY Zenon DEF LinkInv, TypeInv, TypeOK, TreeType, Irreflexive
<1>2. ~ Before(s, s)
  BY <1>1 DEF Before
<1>3. S \subseteq tree[l] \ {s}
  BY <1>2, Zenon
<1>4. rb_next(l, s) = rb_first(S)
  BY Zenon DEF rb_next
<1> HIDE DEF S
<1> QED
  BY <1>3, <1>4, RbFirstType, Zenon

\* Steps of a walk that leave tree and lock alone.
LEMMA WalkMoves ==
    ASSUME LinkInv, NEW x \in Walker, Walking(x),
           UNCHANGED <<tree, isr, upd, evlock>>,
           \E v : wpc' = [wpc EXCEPT ![x] = v],
           \E n \in tree[TimelineOf(x)] \cup {Nil} : node' = [node EXCEPT ![x] = n]
    PROVE  WalkLinked'
<1> SUFFICES ASSUME NEW y \in Walker, Walking(y)'
             PROVE  /\ evlock'[TimelineOf(y)'] = y
                    /\ node'[y] \in tree'[TimelineOf(y)'] \cup {Nil}
  BY Zenon DEF WalkLinked
<1>1. TimelineOf(y)' = TimelineOf(y)
  BY Zenon DEF TimelineOf
<1>2. wpc \in [Walker -> IsrPc \cup UpdPc] /\ node \in [Walker -> Sleeper \cup {Nil}]
  BY Zenon DEF LinkInv, TypeInv, TypeOK, WalkType
<1>3. Walking(y)
  BY <1>2, Zenon DEF Walking
<1>4. evlock[TimelineOf(y)] = y /\ node[y] \in tree[TimelineOf(y)] \cup {Nil}
  BY <1>3, Zenon DEF LinkInv, WalkLinked
<1>5. node'[y] \in tree[TimelineOf(y)] \cup {Nil}
  BY <1>2, <1>4, Zenon
<1> QED
  BY <1>1, <1>4, <1>5, Zenon

LEMMA WalkStepLinked ==
    ASSUME LinkInv, NEW x \in Walker, WalkStep(x)
    PROVE  Linked' /\ WalkLinked' /\ Irreflexive' /\ BoundHere' /\ InHand'
<1> USE DEF LinkInv
<1>1. TimelineOf(x) \in Timeline /\ x # Nil
  BY SchedulerAssumption, Zenon DEF TypeInv, TypeOK, WalkType, TimelineOf, Walker
<1>2. /\ tree \in [Timeline -> SUBSET Sleeper] /\ timeline \in [Sleeper -> Timeline]
      /\ timer \in [Timer -> TimerRecord]
      /\ wpc \in [Walker -> IsrPc \cup UpdPc] /\ node \in [Walker -> Sleeper \cup {Nil}]
      /\ evlock \in [Timeline -> Walker \cup {Nil}]
  BY Zenon DEF TypeInv, TypeOK, TreeType, OwnerType, WalkType
<1>3. CASE WalkBegin(x)
  <2>1. PICK l \in Timeline :
            /\ l = TimelineOf(x) /\ evlock[l] = Nil
            /\ evlock' = [evlock EXCEPT ![l] = x]
            /\ node' = [node EXCEPT ![x] = rb_first(tree[l])]
            /\ wpc' = [wpc EXCEPT ![x] = "walk"]
            /\ UNCHANGED <<treeVars, procVars, ownerVars, isr, upd>>
    BY <1>1, <1>3, Zenon DEF WalkBegin, Unlocked
  <2>2. UNCHANGED <<tree, fifo, timeline, pc, timer, owner>>
    BY <2>1, Zenon DEF treeVars, procVars, ownerVars
  <2>3. WalkLinked'
    <3> SUFFICES ASSUME NEW y \in Walker, Walking(y)'
                 PROVE  /\ evlock'[TimelineOf(y)'] = y
                        /\ node'[y] \in tree'[TimelineOf(y)'] \cup {Nil}
      BY Zenon DEF WalkLinked
    <3>1. TimelineOf(y)' = TimelineOf(y)
      BY <2>1, Zenon DEF TimelineOf
    <3>2. CASE y = x
      <4>1. rb_first(tree[l]) \in tree[l] \cup {Nil}
        BY RbFirstType, Zenon
      <4> QED
        BY <1>2, <2>1, <2>2, <3>1, <3>2, <4>1, Zenon
    <3>3. CASE y # x
      <4>1. Walking(y)
        BY <1>2, <2>1, <3>3, Zenon DEF Walking
      <4>2. /\ evlock[TimelineOf(y)] = y
            /\ node[y] \in tree[TimelineOf(y)] \cup {Nil}
        BY <4>1, Zenon DEF WalkLinked
      <4>3. TimelineOf(y) # l /\ y # Nil
        BY <2>1, <4>2, SchedulerAssumption, Zenon DEF Walker
      <4> QED
        BY <1>2, <2>1, <2>2, <3>1, <3>3, <4>2, <4>3
    <3> QED
      BY <3>2, <3>3, Zenon
  <2> QED
    BY <2>2, <2>3, QuietLinked, QuietOwner, Zenon
<1>4. ASSUME WakeTask(x) \/ SkipTask(x) \/ WakeTimerAgain(x) \/ WakeTimerLast(x)
      PROVE  /\ Walking(x)
             /\ node[x] \in tree[TimelineOf(x)]
             /\ evlock[TimelineOf(x)] = x
             /\ \E n \in (tree[TimelineOf(x)] \ {node[x]}) \cup {Nil} :
                    node' = [node EXCEPT ![x] = n]
  <2>1. /\ wpc[x] = "walk" /\ node[x] # Nil
        /\ node' = [node EXCEPT ![x] = rb_next(TimelineOf(x), node[x])]
    BY <1>4, Zenon DEF WakeTask, SkipTask, WakeTimerAgain, WakeTimerLast, AtDueSleeper, Due,
                       Advance
  <2>2. Walking(x)
    BY <2>1, Zenon DEF Walking
  <2>3. node[x] \in tree[TimelineOf(x)] /\ evlock[TimelineOf(x)] = x
    BY <2>1, <2>2, Zenon DEF WalkLinked
  <2>4. node[x] \in Sleeper
    BY <1>2, <2>1, Zenon
  <2> QED
    BY <1>1, <2>1, <2>2, <2>3, <2>4, NextIsLinked, Zenon
<1>5. CASE WakeTask(x) \/ SkipTask(x)
  <2>1. /\ UNCHANGED <<treeVars, pc, ownerVars, isr, upd, evlock>>
        /\ UNCHANGED wpc \/ wpc' = [wpc EXCEPT ![x] = "clear"]
    BY <1>5, Zenon DEF WakeTask, SkipTask, procVars
  <2>2. UNCHANGED <<tree, fifo, timeline, timer, owner>>
    BY <2>1, Zenon DEF treeVars, ownerVars
  <2>3. \E v : wpc' = [wpc EXCEPT ![x] = v]
    <3>1. wpc = [wpc EXCEPT ![x] = wpc[x]]
      BY <1>2, Zenon
    <3> QED
      BY <2>1, <3>1, Zenon
  <2>4. WalkLinked'
    BY <1>4, <1>5, <2>1, <2>2, <2>3, WalkMoves, Zenon
  <2> QED
    BY <2>1, <2>2, <2>4, QuietLinked, QuietOwner, Zenon
<1>6. CASE ClearTask(x)
  <2>1. /\ wpc[x] = "clear"
        /\ wpc' = [wpc EXCEPT ![x] = "walk"]
        /\ UNCHANGED <<treeVars, procVars, ownerVars, node, isr, upd, evlock>>
    BY <1>6, Zenon DEF ClearTask
  <2>2. UNCHANGED <<tree, fifo, timeline, pc, timer, owner>>
    BY <2>1, Zenon DEF treeVars, procVars, ownerVars
  <2>3. WalkLinked'
    <3>1. Walking(x)
      BY <2>1, Zenon DEF Walking
    <3>2. \A y \in Walker : Walking(y)' => Walking(y)
      BY <1>2, <2>1, <3>1, Zenon DEF Walking
    <3>3. \A y \in Walker : TimelineOf(y)' = TimelineOf(y)
      BY <2>1, Zenon DEF TimelineOf
    <3> QED
      BY <2>1, <2>2, <3>2, <3>3, Zenon DEF WalkLinked
  <2> QED
    BY <2>2, <2>3, QuietLinked, QuietOwner, Zenon
\* The timer in hand is live, and it is a timer of this timeline.
<1>7. ASSUME WakeTimerAgain(x) \/ WakeTimerLast(x)
      PROVE  /\ node[x] \in Timer /\ timer[node[x]].state = "live"
             /\ timeline[node[x]] = TimelineOf(x)
  <2>1. node[x] \in Timer
    BY <1>7, Zenon DEF WakeTimerAgain, WakeTimerLast
  <2>2. node[x] \in tree[TimelineOf(x)]
    BY <1>4, <1>7, Zenon
  <2>3. \A k \in Timer, l \in Timeline :
            k \in tree[l] => timer[k].state = "live" /\ timeline[k] = l
    BY Zenon DEF Linked
  <2> QED
    BY ONLY <1>1, <2>1, <2>2, <2>3, Zenon
<1>8. CASE WakeTimerAgain(x)
  <2>1. PICK k \in Timer, l \in Timeline :
            k = node[x] /\ l = TimelineOf(x) /\ timeline[k] = l
            /\ timer[k].state = "live" /\ k \in tree[l]
    BY <1>1, <1>4, <1>7, <1>8, Zenon
  <2>2. /\ \E u, v : timer' = [timer EXCEPT ![k].sent = u, ![k].counts = v]
        /\ tree' = [tree EXCEPT ![l] = @ \cup {k}]
        /\ \E v : fifo' = FifoWithout(k) \cup
                 {<<r, k>> : r \in {q \in tree[l] \ {k} : qot_expires[q] = v}}
        /\ UNCHANGED <<timeline, procVars, owner, wpc, isr, upd, evlock>>
    <3>1. /\ timer' = [timer EXCEPT ![node[x]].sent = @ + 1, ![node[x]].counts = @ + 1]
          /\ qot_timeline_event_add(timeline[node[x]], node[x],
                                    qot_expires[node[x]] + timer[node[x]].period)
          /\ UNCHANGED <<timeline, procVars, owner, wpc, isr, upd, evlock>>
      BY <1>8, Zenon DEF WakeTimerAgain
    <3>2. qot_timeline_event_add(l, k, qot_expires[k] + timer[k].period)
      BY <2>1, <3>1, Zenon
    <3>3. \E u, v : timer' = [timer EXCEPT ![k].sent = u, ![k].counts = v]
      BY <2>1, <3>1, Zenon
    <3> QED
      BY <3>1, <3>2, <3>3, Zenon DEF qot_timeline_event_add
  <2>3. tree' = tree
    BY <1>2, <2>1, <2>2
  <2>4. \A j \in Timer : timer'[j].state = timer[j].state
    BY <1>2, <2>2 DEF TimerRecord
  <2>5. Linked'
    <3>1. UNCHANGED <<tree, timeline, pc>>
      BY <2>2, <2>3, Zenon DEF procVars
    <3>2. \A t \in Task, m \in Timeline :
              t \in tree'[m] <=> pc'[t] # "out" /\ timeline'[t] = m
      BY <3>1, Zenon DEF Linked
    <3>3. \A j \in Timer, m \in Timeline :
              j \in tree'[m] <=> timer'[j].state = "live" /\ timeline'[j] = m
      <4>1. \A j \in Timer, m \in Timeline :
                j \in tree[m] <=> timer[j].state = "live" /\ timeline[j] = m
        BY Zenon DEF Linked
      <4> QED
        BY ONLY <2>4, <3>1, <4>1, Zenon
    <3> QED
      BY <3>2, <3>3, Zenon DEF Linked
  <2>6. \E v : wpc' = [wpc EXCEPT ![x] = v]
    <3>1. wpc = [wpc EXCEPT ![x] = wpc[x]]
      BY <1>2, Zenon
    <3> QED
      BY <2>2, <3>1, Zenon
  <2>7. WalkLinked'
    BY <1>4, <1>8, <2>2, <2>3, <2>6, WalkMoves, Zenon
  <2>8. Irreflexive'
    BY <2>2, Zenon DEF Irreflexive, FifoWithout
  <2>9. \A m \in Timeline : owner.bound[m] \in Timer \cup {Nil}
    BY Zenon DEF TypeInv, TypeOK, OwnerType
  <2>10. BoundHere' /\ InHand'
    BY <2>2, <2>4, <2>9, Zenon DEF BoundHere, InHand, procVars
  <2> QED
    BY <2>5, <2>7, <2>8, <2>10, Zenon
<1>9. CASE WakeTimerLast(x)
  <2>1. PICK k \in Timer, l \in Timeline :
            k = node[x] /\ l = TimelineOf(x) /\ timeline[k] = l
            /\ timer[k].state = "live" /\ k \in tree[l]
    BY <1>1, <1>4, <1>7, <1>9, Zenon
  <2>2. /\ \E u, v : /\ timer' = [timer EXCEPT ![k].sent = u, ![k].state = v]
                     /\ v \in {"done", "freed"}
        /\ tree' = [tree EXCEPT ![l] = @ \ {k}]
        /\ fifo' = FifoWithout(k)
        /\ owner' = [owner EXCEPT !.bound[l] = Nil]
        /\ UNCHANGED <<timeline, procVars, wpc, isr, upd, evlock>>
    BY <1>9, <2>1, Zenon DEF WakeTimerLast, rb_erase
  <2>3. /\ timer'[k].state \in {"done", "freed"}
        /\ \A j \in Timer \ {k} : timer'[j] = timer[j]
    <3>1. timer[k] \in TimerRecord
      BY <1>2, Zenon
    <3> QED
      BY <1>2, <2>2, <3>1 DEF TimerRecord
  <2>4. /\ \A m \in Timeline \ {l} : tree'[m] = tree[m]
        /\ tree'[l] = tree[l] \ {k}
        /\ UNCHANGED <<timeline, pc>>
    BY <1>2, <2>2, Zenon DEF procVars
  <2>5. Linked'
    <3>1. ASSUME NEW s \in Task, NEW m \in Timeline
          PROVE  s \in tree'[m] <=> pc'[s] # "out" /\ timeline'[s] = m
      <4>1. s \in tree[m] <=> pc[s] # "out" /\ timeline[s] = m
        BY Zenon DEF Linked
      <4>2. s # k
        BY SchedulerAssumption, Zenon
      <4> QED
        BY <2>4, <4>1, <4>2, Zenon
    <3>2. ASSUME NEW j \in Timer, NEW m \in Timeline
          PROVE  j \in tree'[m] <=> timer'[j].state = "live" /\ timeline'[j] = m
      <4>1. j \in tree[m] <=> timer[j].state = "live" /\ timeline[j] = m
        BY Zenon DEF Linked
      <4>2. CASE j = k
        BY <2>1, <2>3, <2>4, <4>1, <4>2, Zenon
      <4>3. CASE j # k
        BY <2>3, <2>4, <4>1, <4>3, Zenon
      <4> QED
        BY <4>2, <4>3, Zenon
    <3> QED
      BY <3>1, <3>2, Zenon DEF Linked
  <2>6. WalkLinked'
    <3> SUFFICES ASSUME NEW y \in Walker, Walking(y)'
                 PROVE  /\ evlock'[TimelineOf(y)'] = y
                        /\ node'[y] \in tree'[TimelineOf(y)'] \cup {Nil}
      BY Zenon DEF WalkLinked
    <3>1. TimelineOf(y)' = TimelineOf(y) /\ Walking(y)
      BY <2>2, Zenon DEF TimelineOf, Walking
    <3>2. evlock[TimelineOf(y)] = y /\ node[y] \in tree[TimelineOf(y)] \cup {Nil}
      BY <3>1, Zenon DEF WalkLinked
    <3>3. TimelineOf(y) \in Timeline
      BY Zenon DEF TypeInv, TypeOK, WalkType, TimelineOf, Walker
    <3>4. CASE y = x
      <4>1. PICK n \in (tree[TimelineOf(x)] \ {node[x]}) \cup {Nil} :
                node' = [node EXCEPT ![x] = n]
        BY <1>4, <1>9, Zenon
      <4>2. n \in (tree[l] \ {k}) \cup {Nil} /\ node'[x] = n
        BY <1>2, <2>1, <4>1, Zenon
      <4> QED
        BY <2>1, <2>2, <2>4, <3>1, <3>2, <3>4, <4>2, Zenon
    <3>5. CASE y # x
      <4>1. TimelineOf(y) # l
        BY <1>4, <1>9, <2>1, <3>2, <3>5, Zenon
      <4>2. node'[y] = node[y]
        BY <1>2, <1>4, <1>9, <3>5, Zenon
      <4> QED
        BY <2>2, <2>4, <3>1, <3>2, <3>3, <4>1, <4>2, Zenon
    <3> QED
      BY <3>4, <3>5, Zenon
  <2>7. Irreflexive'
    BY <2>2, Zenon DEF Irreflexive, FifoWithout
  <2>8. /\ \A m \in Timeline : owner'.bound[m] = IF m = l THEN Nil ELSE owner.bound[m]
        /\ owner'.timer = owner.timer
        /\ \A m \in Timeline : owner.bound[m] \in Timer \cup {Nil}
    BY <2>2, Zenon DEF TypeInv, TypeOK, OwnerType
  <2>9. \A j \in Timer : timer[j].state # "unused" => timer'[j].state # "unused"
    BY <2>3, Zenon
  <2>10. BoundHere'
    BY <2>4, <2>8, <2>9, Zenon DEF BoundHere
  <2>11. InHand'
    BY <2>4, <2>8, <2>9, Zenon DEF InHand
  <2> QED
    BY <2>5, <2>6, <2>7, <2>10, <2>11, Zenon
<1> QED
  BY <1>3, <1>5, <1>6, <1>8, <1>9, Zenon DEF WalkStep

\* Steps of a walker outside a walk, or that end one.
LEMMA WalkerElsewhere ==
    ASSUME LinkInv, NEW x \in Walker, UNCHANGED tree, ~ Walking(x)',
           \A y \in Walker \ {x} : /\ wpc'[y] = wpc[y] /\ node'[y] = node[y]
                                   /\ TimelineOf(y)' = TimelineOf(y),
           \/ UNCHANGED evlock
           \/ Walking(x) /\ evlock' = [evlock EXCEPT ![TimelineOf(x)] = Nil]
    PROVE  WalkLinked'
<1> SUFFICES ASSUME NEW y \in Walker, Walking(y)'
             PROVE  /\ evlock'[TimelineOf(y)'] = y
                    /\ node'[y] \in tree'[TimelineOf(y)'] \cup {Nil}
  BY Zenon DEF WalkLinked
<1>1. y # x
  BY Zenon
<1>2. Walking(y)
  BY <1>1, Zenon DEF Walking
<1>3. evlock[TimelineOf(y)] = y /\ node[y] \in tree[TimelineOf(y)] \cup {Nil}
  BY <1>2, Zenon DEF LinkInv, WalkLinked
<1>4. TimelineOf(y) \in Timeline /\ evlock \in [Timeline -> Walker \cup {Nil}]
  BY Zenon DEF LinkInv, TypeInv, TypeOK, WalkType, TimelineOf, Walker
<1>5. evlock'[TimelineOf(y)] = y
  <2>1. CASE UNCHANGED evlock
    BY ONLY <1>3, <2>1, Zenon
  <2>2. CASE Walking(x) /\ evlock' = [evlock EXCEPT ![TimelineOf(x)] = Nil]
    <3>1. evlock[TimelineOf(x)] = x
      BY <2>2, Zenon DEF LinkInv, WalkLinked
    <3>2. TimelineOf(y) # TimelineOf(x)
      BY <1>1, <1>3, <3>1, Zenon
    <3> QED
      BY <1>3, <1>4, <2>2, <3>2, Zenon
  <2> QED
    BY <2>1, <2>2, Zenon
<1> QED
  BY <1>1, <1>3, <1>5, Zenon

LEMMA IsrLinked ==
    ASSUME LinkInv, IsrOwnStep
    PROVE  Linked' /\ WalkLinked' /\ Irreflexive' /\ BoundHere' /\ InHand'
<1> USE DEF LinkInv
<1>1. /\ ISR \in Walker /\ ISR # UPD /\ Walker \ {ISR} = {UPD}
      /\ wpc \in [Walker -> IsrPc \cup UpdPc] /\ node \in [Walker -> Sleeper \cup {Nil}]
  BY SchedulerAssumption, Zenon DEF TypeInv, TypeOK, WalkType, Walker
<1>2. /\ UNCHANGED <<treeVars, procVars, ownerVars, upd>>
      /\ \/ UNCHANGED wpc /\ wpc[ISR] = "next"
         \/ \E v : v \notin {"walk", "clear"} /\ wpc' = [wpc EXCEPT ![ISR] = v]
      /\ \/ UNCHANGED <<node, evlock>>
         \/ /\ Walking(ISR)
            /\ node' = [node EXCEPT ![ISR] = Nil]
            /\ evlock' = [evlock EXCEPT ![TimelineOf(ISR)] = Nil]
  <2>1. CASE Interrupt
    BY <2>1, Zenon DEF Interrupt
  <2>2. CASE IsrProject
    BY <2>2, Zenon DEF IsrProject
  <2>3. CASE IsrWalkEnd
    <3>1. TimelineOf(ISR) = isr.tl
      BY Zenon DEF TimelineOf
    <3> QED
      BY <2>3, <3>1, Zenon DEF IsrWalkEnd, Walking
  <2>4. CASE IsrNextEvent
    <3>1. /\ wpc[ISR] = "next"
          /\ UNCHANGED wpc \/ wpc' = [wpc EXCEPT ![ISR] = "program"]
          /\ UNCHANGED <<treeVars, procVars, ownerVars, upd, node, evlock>>
      BY <2>4, Zenon DEF IsrNextEvent
    <3> QED
      BY <3>1, Zenon
  <2>5. CASE IsrProgram
    BY <2>5, Zenon DEF IsrProgram, IsrReturns
  <2>6. CASE IsrReread
    BY <2>6, Zenon DEF IsrReread
  <2>7. CASE IsrForce
    BY <2>7, Zenon DEF IsrForce, IsrReturns
  <2> QED
    BY <2>1, <2>2, <2>3, <2>4, <2>5, <2>6, <2>7, Zenon DEF IsrOwnStep
<1>3. UNCHANGED <<tree, fifo, timeline, pc, timer, owner>>
  BY <1>2, Zenon DEF treeVars, procVars, ownerVars
<1>4. ~ Walking(ISR)'
  BY <1>1, <1>2, Zenon DEF Walking
<1>5. wpc'[UPD] = wpc[UPD] /\ node'[UPD] = node[UPD] /\ TimelineOf(UPD)' = TimelineOf(UPD)
  <2>1. wpc'[UPD] = wpc[UPD]
    BY <1>1, <1>2, Zenon
  <2>2. node'[UPD] = node[UPD]
    BY <1>1, <1>2, Zenon
  <2>3. TimelineOf(UPD)' = TimelineOf(UPD)
    BY <1>1, <1>2, Zenon DEF TimelineOf
  <2> QED
    BY <2>1, <2>2, <2>3, Zenon
<1>6. WalkLinked'
  BY <1>1, <1>2, <1>3, <1>4, <1>5, WalkerElsewhere, Zenon
<1> QED
  BY <1>3, <1>6, QuietLinked, QuietOwner, Zenon

LEMMA UpdLinked ==
    ASSUME LinkInv, UpdOwnStep
    PROVE  Linked' /\ WalkLinked' /\ Irreflexive' /\ BoundHere' /\ InHand'
<1> USE DEF LinkInv
<1>1. /\ UPD \in Walker /\ ISR # UPD /\ Walker \ {UPD} = {ISR}
      /\ wpc \in [Walker -> IsrPc \cup UpdPc] /\ node \in [Walker -> Sleeper \cup {Nil}]
  BY SchedulerAssumption, Zenon DEF TypeInv, TypeOK, WalkType, Walker
<1>2. /\ UNCHANGED <<treeVars, procVars, ownerVars, isr>>
      /\ \E v : v \notin {"walk", "clear"} /\ wpc' = [wpc EXCEPT ![UPD] = v]
      /\ \/ UNCHANGED <<node, evlock>>
         \/ /\ Walking(UPD)
            /\ node' = [node EXCEPT ![UPD] = Nil]
            /\ evlock' = [evlock EXCEPT ![TimelineOf(UPD)] = Nil]
  <2>1. CASE UpdRead
    BY <2>1, Zenon DEF UpdRead
  <2>2. CASE UpdWalkEnd
    <3>1. TimelineOf(UPD) = upd.tl
      BY <1>1, Zenon DEF TimelineOf
    <3> QED
      BY <2>2, <3>1, Zenon DEF UpdWalkEnd, Walking
  <2>3. CASE UpdRecheck
    BY <2>3, Zenon DEF UpdRecheck, UpdReturns
  <2>4. CASE UpdProgram
    BY <2>4, Zenon DEF UpdProgram, UpdReturns
  <2> QED
    BY <2>1, <2>2, <2>3, <2>4, Zenon DEF UpdOwnStep
<1>3. UNCHANGED <<tree, fifo, timeline, pc, timer, owner>>
  BY <1>2, Zenon DEF treeVars, procVars, ownerVars
<1>4. ~ Walking(UPD)'
  BY <1>1, <1>2, Zenon DEF Walking
<1>5. wpc'[ISR] = wpc[ISR] /\ node'[ISR] = node[ISR] /\ TimelineOf(ISR)' = TimelineOf(ISR)
  <2>1. wpc'[ISR] = wpc[ISR]
    BY <1>1, <1>2, Zenon
  <2>2. node'[ISR] = node[ISR]
    BY <1>1, <1>2, Zenon
  <2>3. TimelineOf(ISR)' = TimelineOf(ISR)
    BY <1>2, Zenon DEF TimelineOf
  <2> QED
    BY <2>1, <2>2, <2>3
<1>6. WalkLinked'
  BY <1>1, <1>2, <1>3, <1>4, <1>5, WalkerElsewhere, Zenon
<1> QED
  BY <1>3, <1>6, QuietLinked, QuietOwner

-----------------------------------------------------------------------------
LEMMA InitLinkInv == Init => LinkInv
<1> SUFFICES ASSUME Init PROVE LinkInv
  OBVIOUS
<1>1. TypeInv
  BY InitTypeInv, Zenon
<1>2. Linked
  <2>1. \A t \in Task : t \in Proc
    BY Zenon DEF Proc
  <2>2. \A k \in Timer : timer[k].state = "unused"
    BY Zenon DEF Init
  <2> QED
    BY <2>1, <2>2, Zenon DEF Init, Linked
<1>3. WalkLinked
  BY Zenon DEF Init, WalkLinked, Walking
<1>4. Irreflexive
  BY Zenon DEF Init, Irreflexive
<1>5. BoundHere
  BY Zenon DEF Init, BoundHere
<1>6. InHand
  BY Zenon DEF Init, InHand, Proc
<1> QED
  BY <1>1, <1>2, <1>3, <1>4, <1>5, <1>6, Zenon DEF LinkInv

LEMMA NextLinkInv ==
    ASSUME LinkInv, [Next]_vars
    PROVE  LinkInv'
<1>1. TypeInv /\ TypeInv'
  BY NextTypeInv, Zenon DEF LinkInv
<1>2. Linked' /\ WalkLinked' /\ Irreflexive' /\ BoundHere' /\ InHand'
  BY <1>1, NextCases, RestLinked, InitSleeperLinked, InitTimerLinked, DestroyLinked,
     DisciplineLinked, ProcLinked, WalkStepLinked, IsrLinked, UpdLinked, Zenon
     DEF RequestStep
<1> QED
  BY <1>1, <1>2, Zenon DEF LinkInv

LEMMA LinkInvariant == Spec => []LinkInv
  BY InitLinkInv, NextLinkInv, PTL DEF Spec

\* The event trees hold the sleepers of the tasks inside qot_attosleep and of the
\* live timers, and nothing else: no tree leads to a stack frame that was left
\* or to a timer that was freed, for any number of tasks, timers, timelines and
\* processors.
THEOREM TreesHoldWhatIsInUse == Spec => []LinkedIffInUse
<1>1. LinkInv => LinkedIffInUse
  <2> SUFFICES ASSUME LinkInv, NEW l \in Timeline
               PROVE  tree[l] = {t \in Task : pc[t] # "out" /\ timeline[t] = l} \cup
                                {k \in Timer : timer[k].state = "live" /\ timeline[k] = l}
    BY Zenon DEF LinkedIffInUse
  <2>1. tree[l] \subseteq Task \cup Timer
    BY Zenon DEF LinkInv, TypeInv, TypeOK, TreeType, Sleeper
  <2>2. \A t \in Task : t \in tree[l] <=> pc[t] # "out" /\ timeline[t] = l
    BY Zenon DEF LinkInv, Linked
  <2>3. \A k \in Timer : k \in tree[l] <=> timer[k].state = "live" /\ timeline[k] = l
    BY Zenon DEF LinkInv, Linked
  <2> QED
    BY ONLY <2>1, <2>2, <2>3, Zenon
<1> QED
  BY <1>1, LinkInvariant, PTL

=============================================================================
