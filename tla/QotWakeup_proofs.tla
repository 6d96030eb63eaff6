-------------------------- MODULE QotWakeup_proofs --------------------------
(***************************************************************************)
(* A sleeping task is not forgotten: somebody will look at its expiry      *)
(* again (with a driver that heeds force), and its wake-up is not spent    *)
(* before it sleeps (on one processor).  And a periodic timer counts its   *)
(* signals right, and keeps its phase.                                     *)
(***************************************************************************)
EXTENDS QotScheduler_proofs

\* A task pointer that is set belongs to an active sleeper.
Active == \A t \in Task : task[t] => sleeper_active[t]

LEMMA ActiveStep ==
    ASSUME TypeInv, Active, [Next]_vars
    PROVE  Active'
<1> USE DEF TypeInv, TypeOK, SleeperType
<1>1. ASSUME NEW t \in Task, task'[t], UNCHANGED sleeper_active,
             task' = task \/ \E p : task' = DropTask(p)
      PROVE  sleeper_active'[t]
  BY <1>1 DEF Active, DropTask
<1>2. \A t \in Task : t \in Sleeper /\ t \notin Timer
  BY SchedulerAssumption DEF Sleeper
<1>3. CASE UNCHANGED vars \/ Tick
  BY <1>3 DEF vars, Tick, sleeperVars, Active
<1>4. CASE \E l \in Timeline : RequestStep(l)
  <2>1. PICK l \in Timeline : RequestStep(l)
    BY <1>4
  <2>2. CASE \E t \in Task, e \in Int : InitSleeper(t, l, e)
    BY <1>2, <2>2 DEF InitSleeper, Active
  <2>3. CASE \E k \in Timer, e \in Int, p \in Nat \ {0}, c \in Nat :
                 InitTimerSleeper(k, l, e, p, c)
    <3>1. PICK k \in Timer : /\ sleeper_active' = [sleeper_active EXCEPT ![k] = TRUE]
                             /\ UNCHANGED task
      BY <2>3, Zenon DEF InitTimerSleeper
    <3> QED
      BY <1>2, <3>1 DEF Active
  <2>4. CASE \E k \in Timer : qot_timer_destroy(k, l)
    <3> DEFINE b == owner.bound[l]
    <3>1. /\ sleeper_active' = [sleeper_active EXCEPT ![b] = FALSE]
          /\ b # Nil
          /\ UNCHANGED task
      BY <2>4, Zenon DEF qot_timer_destroy
    <3>2. b \in Timer
      BY <3>1 DEF OwnerType
    <3> HIDE DEF b
    <3> QED
      BY <1>2, <3>1, <3>2 DEF Active
  <2>5. CASE DisciplineCall(l)
    BY <2>5 DEF DisciplineCall, Discipline, sleeperVars, Active
  <2> QED
    BY <2>1, <2>2, <2>3, <2>4, <2>5 DEF RequestStep
<1>5. CASE ProcStep
  <2>1. CASE \E p \in Proc : StartStep(p)
    <3>1. /\ UNCHANGED sleeper_active
          /\ task' = task \/ \E p : task' = DropTask(p)
      BY <2>1, Zenon DEF StartStep, StartReadTime, StartCheck, StartProgram, sleeperVars
    <3> QED
      BY <1>1, <3>1 DEF Active
  <2>2. CASE \E t \in Task : \/ Convert(t) \/ SetInterruptible(t) \/ Schedule(t)
                             \/ Resume(t) \/ EraseSleeper(t) \/ Signal(t)
    BY <2>2 DEF Convert, SetInterruptible, Schedule, Resume, EraseSleeper, Signal,
                sleeperVars, Active
  <2>3. CASE ConvertStart \/ UnwindTimer \/ PublishTimer \/ OwnerExit
    BY <2>3 DEF ConvertStart, UnwindTimer, PublishTimer, OwnerExit, sleeperVars, Active
  <2> QED
    BY <1>5, <2>1, <2>2, <2>3 DEF ProcStep
<1>6. CASE \E x \in Walker : WalkStep(x)
  <2>1. PICK x \in Walker : WalkStep(x)
    BY <1>6
  <2>2. CASE ClearTask(x)
    BY <2>2 DEF ClearTask, Active
  <2>3. CASE WakeTimerLast(x)
    <3>1. /\ node[x] \in Timer
          /\ sleeper_active' = [sleeper_active EXCEPT ![node[x]] = FALSE]
          /\ UNCHANGED task
      BY <2>3, Zenon DEF WakeTimerLast
    <3> QED
      BY <1>2, <3>1 DEF Active
  <2>4. CASE WalkBegin(x) \/ WakeTask(x) \/ SkipTask(x) \/ WakeTimerAgain(x)
    BY <2>4 DEF WalkBegin, WakeTask, SkipTask, WakeTimerAgain, sleeperVars, Active
  <2> QED
    BY <2>1, <2>2, <2>3, <2>4 DEF WalkStep
<1>7. CASE IsrOwnStep
  BY <1>7, Zenon DEF IsrOwnStep, Interrupt, IsrProject, IsrWalkEnd, IsrNextEvent, IsrProgram,
                     IsrReread, IsrForce, sleeperVars, Active
<1>8. CASE UpdOwnStep
  BY <1>8, Zenon DEF UpdOwnStep, UpdRead, UpdWalkEnd, UpdRecheck, UpdProgram, sleeperVars,
                     Active
<1> QED
  BY <1>3, <1>4, <1>5, <1>6, <1>7, <1>8, NextCases

-----------------------------------------------------------------------------
\* An interrupt is programmed or being handled.
Attended == armed # Off \/ wpc[ISR] # "idle"

\* Once that is so it stays so: the interrupt handler programs the next event
\* before it returns, by force after MaxRetries attempts.
LEMMA AttendedStep ==
    ASSUME TypeInv, HonoursForce, [Next]_vars
    PROVE  /\ Attended => Attended'
           /\ next_interrupt_callback' = next_interrupt_callback \/ armed' # Off
<1> USE DEF Attended
<1>1. \A e \in Int : ArmTime(e) # Off
  BY ArmTimeType DEF TypeInv, TypeOK, TickType, Off
<1>2. isr.next \in Int /\ upd.next \in Int /\ \A p \in Proc : core_time_expiry[p] \in Int
  BY DEF TypeInv, TypeOK, WalkType, ProcType
<1>3. ISR # UPD /\ ISR \in Walker /\ UPD \in Walker /\ wpc \in [Walker -> IsrPc \cup UpdPc]
  BY SchedulerAssumption DEF Walker, TypeInv, TypeOK, WalkType
<1>4. CASE UNCHANGED vars \/ Tick
  BY <1>4 DEF vars, Tick, tickVars, walkVars
<1>5. CASE \E l \in Timeline : RequestStep(l)
  <2>1. PICK l \in Timeline : RequestStep(l)
    BY <1>5
  <2>2. UNCHANGED tickVars /\ (UNCHANGED wpc \/ wpc' = [wpc EXCEPT ![UPD] = "read"])
    BY <2>1, Zenon DEF RequestStep, InitSleeper, InitTimerSleeper, qot_timer_destroy,
                       DisciplineCall, Discipline, StartUpdate, walkVars
  <2> QED
    BY <1>3, <2>2 DEF tickVars
<1>6. CASE ProcStep
  <2>1. CASE \E p \in Proc : StartStep(p)
    <3>1. PICK p \in Proc : StartStep(p)
      BY <2>1
    <3>2. CASE StartReadTime(p) \/ StartCheck(p)
      BY <3>2 DEF StartReadTime, StartCheck, tickVars, walkVars
    <3>3. CASE StartProgram(p)
      <4>1. CASE Programmable(core_time_expiry[p], FALSE)
        BY <1>1, <1>2, <3>3, <4>1 DEF StartProgram
      <4>2. CASE ~ Programmable(core_time_expiry[p], FALSE)
        BY <3>3, <4>2 DEF StartProgram, walkVars
      <4> QED
        BY <4>1, <4>2, Zenon
    <3> QED
      BY <3>1, <3>2, <3>3 DEF StartStep
  <2>2. CASE \E t \in Task : \/ Convert(t) \/ SetInterruptible(t) \/ Schedule(t)
                             \/ Resume(t) \/ EraseSleeper(t) \/ Signal(t)
    BY <2>2 DEF Convert, SetInterruptible, Schedule, Resume, EraseSleeper, Signal, tickVars,
                walkVars
  <2>3. CASE ConvertStart \/ UnwindTimer \/ PublishTimer \/ OwnerExit
    BY <2>3 DEF ConvertStart, UnwindTimer, PublishTimer, OwnerExit, tickVars, walkVars
  <2> QED
    BY <1>6, <2>1, <2>2, <2>3 DEF ProcStep
<1>7. CASE \E x \in Walker : WalkStep(x)
  <2>1. PICK x \in Walker : WalkStep(x)
    BY <1>7
  <2>2. /\ UNCHANGED tickVars
        /\ UNCHANGED wpc \/ \E v \in {"walk", "clear"} : wpc' = [wpc EXCEPT ![x] = v]
    BY <2>1, Zenon DEF WalkStep, WalkBegin, WakeTask, ClearTask, SkipTask, WakeTimerAgain,
                       WakeTimerLast
  <2> QED
    BY <1>3, <2>2 DEF tickVars
<1>8. CASE IsrOwnStep
  <2>1. CASE Interrupt
    BY <1>3, <2>1 DEF Interrupt
  <2>2. CASE IsrProject \/ IsrReread
    BY <1>3, <2>2 DEF IsrProject, IsrReread, tickVars
  <2>3. CASE IsrWalkEnd
    BY <1>3, <2>3 DEF IsrWalkEnd, tickVars
  <2>4. CASE IsrNextEvent
    <3>1. /\ UNCHANGED tickVars
          /\ UNCHANGED wpc \/ wpc' = [wpc EXCEPT ![ISR] = "program"]
      BY <2>4, Zenon DEF IsrNextEvent
    <3> QED
      BY <1>3, <3>1 DEF tickVars
  <2>5. CASE IsrProgram
    <3>1. CASE Programmable(isr.next, FALSE)
      BY <1>1, <1>2, <2>5, <3>1 DEF IsrProgram
    <3>2. CASE ~ Programmable(isr.next, FALSE)
      BY <1>3, <2>5, <3>2 DEF IsrProgram
    <3> QED
      BY <3>1, <3>2, Zenon
  <2>6. CASE IsrForce
    <3>1. Programmable(isr.next, TRUE)
      BY DEF Programmable
    <3> QED
      BY <1>1, <1>2, <2>6, <3>1 DEF IsrForce
  <2> QED
    BY <1>8, <2>1, <2>2, <2>3, <2>4, <2>5, <2>6 DEF IsrOwnStep
<1>9. CASE UpdOwnStep
  <2>1. wpc'[ISR] = wpc[ISR]
    BY <1>3, <1>9, Zenon DEF UpdOwnStep, UpdRead, UpdWalkEnd, UpdRecheck, UpdProgram,
                             UpdReturns
  <2>2. CASE UpdRead \/ UpdWalkEnd \/ UpdRecheck
    BY <2>1, <2>2 DEF UpdRead, UpdWalkEnd, UpdRecheck, tickVars
  <2>3. CASE UpdProgram
    <3>1. CASE Programmable(upd.next, TRUE)
      BY <1>1, <1>2, <2>3, <3>1 DEF UpdProgram
    <3>2. CASE ~ Programmable(upd.next, TRUE)
      BY <2>1, <2>3, <3>2 DEF UpdProgram
    <3> QED
      BY <3>1, <3>2, Zenon
  <2> QED
    BY <1>9, <2>2, <2>3 DEF UpdOwnStep
<1> QED
  BY <1>4, <1>5, <1>6, <1>7, <1>8, <1>9, NextCases

\* A task that sleeps or is about to.
Resting(t) == pc[t] = "blocked" \/ (pc[t] = "sched" /\ task[t])

\* A task comes to rest only through qot_sleeper_start_expires, and its expiry
\* does not change while it rests.
LEMMA RestingStep ==
    ASSUME TypeInv, [Next]_vars, NEW t \in Task, Resting(t)'
    PROVE  \/ Resting(t) /\ core_time_expiry'[t] = core_time_expiry[t]
           \/ StartCheck(t) \/ StartProgram(t)
<1> USE DEF Resting
<1>1. t \in Proc /\ t # Owner /\ Owner \in Proc
  BY SchedulerAssumption DEF Proc
<1>2. /\ pc \in [Proc -> TaskPc \cup OwnerPc] /\ task \in [Task -> BOOLEAN]
      /\ core_time_expiry \in [Proc -> Int]
  BY DEF TypeInv, TypeOK, ProcType, SleeperType
<1>3. CASE UNCHANGED vars \/ Tick
  BY <1>3 DEF vars, Tick, sleeperVars, procVars
<1>4. CASE \E l \in Timeline : RequestStep(l)
  <2>1. PICK l \in Timeline : RequestStep(l)
    BY <1>4
  <2>2. CASE \E s \in Task, e \in Int : InitSleeper(s, l, e)
    <3>1. PICK s \in Task : /\ task' = [task EXCEPT ![s] = TRUE]
                            /\ pc' = [pc EXCEPT ![s] = "convert"]
                            /\ UNCHANGED core_time_expiry
      BY <2>2, Zenon DEF InitSleeper
    <3> QED
      BY <1>1, <1>2, <3>1
  <2>3. CASE \E k \in Timer, e \in Int, p \in Nat \ {0}, c \in Nat :
                 InitTimerSleeper(k, l, e, p, c)
    <3>1. /\ pc' = [pc EXCEPT ![Owner] = "convert"]
          /\ UNCHANGED <<task, core_time_expiry>>
      BY <2>3, Zenon DEF InitTimerSleeper
    <3> QED
      BY <1>1, <1>2, <3>1
  <2>4. CASE (\E k \in Timer : qot_timer_destroy(k, l)) \/ DisciplineCall(l)
    <3>1. UNCHANGED <<procVars, task>>
      BY <2>4, Zenon DEF qot_timer_destroy, DisciplineCall, Discipline, sleeperVars
    <3> QED
      BY <3>1 DEF procVars
  <2> QED
    BY <2>1, <2>2, <2>3, <2>4 DEF RequestStep
<1>5. CASE ProcStep
  <2>1. CASE \E p \in Proc : StartStep(p)
    <3>1. PICK p \in Proc : StartStep(p)
      BY <2>1
    <3>2. CASE p # t
      <4>1. /\ UNCHANGED core_time_expiry
            /\ \E v : pc' = [pc EXCEPT ![p] = v]
            /\ task' = task \/ task' = DropTask(p)
        BY <3>1, Zenon DEF StartStep, StartReadTime, StartCheck, StartProgram, sleeperVars
      <4> QED
        BY <1>1, <1>2, <3>2, <4>1 DEF DropTask
    <3>3. CASE p = t /\ StartReadTime(p)
      <4>1. \E v \in {"check", "erase"} : pc' = [pc EXCEPT ![t] = v]
        BY <1>1, <3>3, Zenon DEF StartReadTime, StartFail
      <4> QED
        BY <1>1, <1>2, <4>1
    <3> QED
      BY <3>1, <3>2, <3>3 DEF StartStep
  <2>2. CASE \E s \in Task : \/ Convert(s) \/ SetInterruptible(s) \/ Schedule(s)
                             \/ Resume(s) \/ EraseSleeper(s) \/ Signal(s)
    <3>1. PICK s \in Task : \/ Convert(s) \/ SetInterruptible(s) \/ Schedule(s)
                            \/ Resume(s) \/ EraseSleeper(s) \/ Signal(s)
      BY <2>2
    <3>2. s \in Proc
      BY DEF Proc
    <3>3. CASE Convert(s) \/ SetInterruptible(s)
      BY <1>1, <1>2, <3>2, <3>3 DEF Convert, SetInterruptible, sleeperVars
    <3>4. CASE Schedule(s)
      BY <1>1, <1>2, <3>2, <3>4 DEF Schedule, sleeperVars
    <3>5. CASE Resume(s) \/ EraseSleeper(s)
      BY <1>1, <1>2, <3>2, <3>5 DEF Resume, EraseSleeper, sleeperVars
    <3>6. CASE Signal(s)
      BY <3>6 DEF Signal, sleeperVars
    <3> QED
      BY <3>1, <3>3, <3>4, <3>5, <3>6
  <2>3. CASE ConvertStart \/ UnwindTimer \/ PublishTimer \/ OwnerExit
    BY <1>1, <1>2, <2>3 DEF ConvertStart, UnwindTimer, PublishTimer, OwnerReturns, OwnerExit,
                            sleeperVars, procVars
  <2> QED
    BY <1>5, <2>1, <2>2, <2>3 DEF ProcStep
<1>6. CASE \E x \in Walker : WalkStep(x)
  <2>1. PICK x \in Walker : WalkStep(x)
    BY <1>6
  <2>2. /\ UNCHANGED <<pc, core_time_expiry>>
        /\ UNCHANGED task \/ \E s : task' = [task EXCEPT ![s] = FALSE]
    BY <2>1, Zenon DEF WalkStep, WalkBegin, WakeTask, ClearTask, SkipTask, WakeTimerAgain,
                       WakeTimerLast, procVars, sleeperVars
  <2> QED
    BY <1>2, <2>2
<1>7. CASE IsrOwnStep
  BY <1>7, Zenon DEF IsrOwnStep, Interrupt, IsrProject, IsrWalkEnd, IsrNextEvent, IsrProgram,
                     IsrReread, IsrForce, sleeperVars, procVars
<1>8. CASE UpdOwnStep
  BY <1>8, Zenon DEF UpdOwnStep, UpdRead, UpdWalkEnd, UpdRecheck, UpdProgram, sleeperVars,
                     procVars
<1> QED
  BY <1>3, <1>4, <1>5, <1>6, <1>7, <1>8, NextCases

NextAttended == next_interrupt_callback < MaxTimepoint => Attended

RestingAttended ==
    \A t \in Task : Resting(t) /\ core_time_expiry[t] < MaxTimepoint => Attended

AttendedInv == TypeInv /\ Active /\ NextAttended /\ RestingAttended

LEMMA NextAttendedInv ==
    ASSUME HonoursForce, AttendedInv, [Next]_vars
    PROVE  AttendedInv'
<1> USE DEF AttendedInv
<1>1. TypeInv' /\ Active'
  BY NextTypeInv, ActiveStep
<1>2. Attended => Attended'
  BY AttendedStep
<1>3. armed' # Off => Attended'
  BY DEF Attended
<1>4. NextAttended'
  BY <1>2, <1>3, AttendedStep DEF NextAttended
<1>5. ASSUME NEW t \in Task, Resting(t)', core_time_expiry'[t] < MaxTimepoint
      PROVE  Attended'
  <2>1. CASE Resting(t) /\ core_time_expiry'[t] = core_time_expiry[t]
    BY <1>2, <1>5, <2>1 DEF RestingAttended
  <2>2. /\ pc \in [Proc -> TaskPc \cup OwnerPc] /\ t \in Proc /\ t # Owner
        /\ core_time_expiry[t] \in Int /\ next_interrupt_callback \in Int
        /\ MaxTimepoint \in Int
    BY SchedulerAssumption DEF TypeInv, TypeOK, ProcType, TickType, Proc
  <2>3. CASE StartCheck(t)
    <3>1. /\ UNCHANGED <<core_time_expiry, task>>
          /\ pc'[t] = IF ExpiresBeforeNext(t) /\ sleeper_active[t]
                      THEN "program" ELSE "sched"
      BY <2>2, <2>3 DEF StartCheck, SleeperOf, StartOk, sleeperVars
    <3>2. task[t] /\ sleeper_active[t]
      BY <1>5, <3>1 DEF Resting, Active
    <3>3. ~ ExpiresBeforeNext(t)
      BY <1>5, <3>1, <3>2 DEF Resting
    <3>4. next_interrupt_callback < MaxTimepoint
      BY <1>5, <2>2, <3>1, <3>3 DEF ExpiresBeforeNext
    <3> QED
      BY <1>2, <3>4 DEF NextAttended
  <2>4. CASE StartProgram(t)
    <3>1. CASE Programmable(core_time_expiry[t], FALSE)
      <4>1. armed' = ArmTime(core_time_expiry[t])
        BY <2>4, <3>1 DEF StartProgram
      <4> QED
        BY <1>3, <2>2, <4>1, ArmTimeType DEF Off, TypeInv, TypeOK, TickType
    <3>2. CASE ~ Programmable(core_time_expiry[t], FALSE)
      <4>1. pc'[t] = "erase"
        BY <2>2, <2>4, <3>2 DEF StartProgram, StartFail
      <4> QED
        BY <1>5, <4>1 DEF Resting
    <3> QED
      BY <3>1, <3>2, Zenon
  <2> QED
    BY <1>5, <2>1, <2>3, <2>4, RestingStep
<1> QED
  BY <1>1, <1>4, <1>5 DEF RestingAttended

\* With a driver that heeds force, as the am335x driver does, an interrupt is
\* programmed or being handled while a task sleeps, for any number of tasks,
\* timelines and processors (qot_sleeper_start_expires, which programs nothing
\* when next_interrupt_callback comes first, against
\* scheduler_interface_interrupt, which gives up after three attempts).
THEOREM Stranded == HonoursForce => (Spec => []NeverStranded)
<1> SUFFICES ASSUME HonoursForce PROVE Spec => []NeverStranded
  OBVIOUS
<1>1. Init => AttendedInv
  <2> SUFFICES ASSUME Init PROVE AttendedInv
    OBVIOUS
  <2>1. TypeInv
    BY InitTypeInv
  <2>2. Active
    BY DEF Init, Active
  <2>3. NextAttended
    <3>1. next_interrupt_callback = MaxTimepoint
      BY DEF Init
    <3>2. MaxTimepoint \in Nat
      BY SchedulerAssumption
    <3> QED
      BY <3>1, <3>2 DEF NextAttended
  <2>4. RestingAttended
    BY DEF Init, RestingAttended, Resting, Proc
  <2> QED
    BY <2>1, <2>2, <2>3, <2>4 DEF AttendedInv
<1>2. AttendedInv /\ [Next]_vars => AttendedInv'
  BY NextAttendedInv
<1>3. AttendedInv => NeverStranded
  BY DEF AttendedInv, RestingAttended, Resting, NeverStranded, Parked, Attended
<1> QED
  BY <1>1, <1>2, <1>3, PTL DEF Spec

-----------------------------------------------------------------------------
\* One processor.  Between wake_up_process and the clearing of the task pointer
\* the woken task does not run, so it cannot go back to sleep on a pointer that
\* is about to be cleared.

Asleep(t) == pc[t] = "blocked" /\ interruptible[t]

WokenIsAwake ==
    \A x \in Walker, t \in Task : wpc[x] = "clear" /\ cur[x] = t => ~ Asleep(t)

AsleepIsSet == \A t \in Task : Asleep(t) => task[t]

WakeInv == TypeInv /\ Active /\ WokenIsAwake /\ AsleepIsSet

\* Steps that put no task to sleep, take no task pointer away from a sleeping
\* task and send no walker to "clear".
LEMMA QuietStep ==
    ASSUME WokenIsAwake, AsleepIsSet, UNCHANGED cur,
           \A t \in Task : Asleep(t)' => Asleep(t) /\ (task[t] => task'[t]),
           \A x \in Walker : wpc'[x] = "clear" => wpc[x] = "clear"
    PROVE  WokenIsAwake' /\ AsleepIsSet'
<1>1. WokenIsAwake'
  BY DEF WokenIsAwake
<1>2. AsleepIsSet'
  BY DEF AsleepIsSet
<1> QED
  BY <1>1, <1>2

LEMMA QuietWalk ==
    ASSUME TypeInv, NEW x \in Walker, NEW v, v # "clear",
           wpc' = [wpc EXCEPT ![x] = v]
    PROVE  \A y \in Walker : wpc'[y] = "clear" => wpc[y] = "clear"
    BY DEF TypeInv, TypeOK, WalkType

LEMMA WakeStep ==
    ASSUME ~ SMP, WakeInv, [Next]_vars
    PROVE  WokenIsAwake' /\ AsleepIsSet'
<1> USE DEF WakeInv
<1>1. /\ \A t \in Task : t \in Proc /\ t # Owner /\ t \notin Walker
      /\ Owner \in Proc /\ ISR \in Walker /\ UPD \in Walker
  BY SchedulerAssumption DEF Proc, Walker
<1>2. /\ pc \in [Proc -> TaskPc \cup OwnerPc]
      /\ interruptible \in [Task -> BOOLEAN]
      /\ task \in [Task -> BOOLEAN]
  BY DEF TypeInv, TypeOK, ProcType, SleeperType
<1>3. CASE UNCHANGED vars \/ Tick
  <2>1. UNCHANGED <<pc, interruptible, task, wpc, cur>>
    BY <1>3 DEF vars, Tick, sleeperVars, procVars, walkVars
  <2> QED
    BY <2>1, QuietStep DEF Asleep
<1>4. CASE \E l \in Timeline : RequestStep(l)
  <2>1. PICK l \in Timeline : RequestStep(l)
    BY <1>4
  <2>2. CASE \E s \in Task, e \in Int : InitSleeper(s, l, e)
    <3>1. PICK s \in Task : /\ task' = [task EXCEPT ![s] = TRUE]
                            /\ pc' = [pc EXCEPT ![s] = "convert"]
                            /\ UNCHANGED <<interruptible, wpc, cur>>
      BY <2>2, Zenon DEF InitSleeper, walkVars
    <3>2. \A t \in Task : Asleep(t)' => Asleep(t) /\ (task[t] => task'[t])
      BY <1>1, <1>2, <3>1 DEF Asleep
    <3> QED
      BY <3>1, <3>2, QuietStep
  <2>3. CASE \E k \in Timer, e \in Int, p \in Nat \ {0}, c \in Nat :
                 InitTimerSleeper(k, l, e, p, c)
    <3>1. /\ pc' = [pc EXCEPT ![Owner] = "convert"]
          /\ UNCHANGED <<interruptible, task, wpc, cur>>
      BY <2>3, Zenon DEF InitTimerSleeper, walkVars
    <3>2. \A t \in Task : Asleep(t)' => Asleep(t) /\ (task[t] => task'[t])
      BY <1>1, <1>2, <3>1 DEF Asleep
    <3> QED
      BY <3>1, <3>2, QuietStep
  <2>4. CASE (\E k \in Timer : qot_timer_destroy(k, l)) \/ DisciplineCall(l)
    <3>1. /\ UNCHANGED <<pc, interruptible, task, cur>>
          /\ UNCHANGED wpc \/ wpc' = [wpc EXCEPT ![UPD] = "read"]
      BY <2>4, Zenon DEF qot_timer_destroy, DisciplineCall, Discipline, StartUpdate,
                         sleeperVars, procVars, walkVars
    <3>2. \A y \in Walker : wpc'[y] = "clear" => wpc[y] = "clear"
      BY <1>1, <3>1, QuietWalk
    <3> QED
      BY <3>1, <3>2, QuietStep DEF Asleep
  <2> QED
    BY <2>1, <2>2, <2>3, <2>4 DEF RequestStep
<1>5. CASE ProcStep
  <2>1. CASE \E p \in Proc : StartStep(p)
    <3>1. PICK p \in Proc : StartStep(p)
      BY <2>1
    <3>2. /\ pc[p] # "blocked"
          /\ \E v \in {"check", "program", StartOk(p), StartFail(p)} :
                 pc' = [pc EXCEPT ![p] = v]
          /\ task' = task \/ task' = DropTask(p)
          /\ UNCHANGED <<interruptible, wpc, cur>>
      <4>1. CASE StartReadTime(p)
        BY <4>1 DEF StartReadTime, walkVars
      <4>2. CASE StartCheck(p)
        BY <4>2, Zenon DEF StartCheck, sleeperVars, walkVars
      <4>3. CASE StartProgram(p)
        BY <4>3, Zenon DEF StartProgram, walkVars
      <4> QED
        BY <3>1, <4>1, <4>2, <4>3 DEF StartStep
    <3>3. StartOk(p) # "blocked" /\ StartFail(p) # "blocked"
      BY DEF StartOk, StartFail
    <3>4. \A t \in Task : Asleep(t)' => Asleep(t) /\ (task[t] => task'[t])
      BY <1>1, <1>2, <3>2, <3>3 DEF Asleep, DropTask
    <3> QED
      BY <3>2, <3>4, QuietStep
  <2>2. CASE \E s \in Task : Schedule(s)
    <3>1. PICK s \in Task : Schedule(s)
      BY <2>2
    <3>2. \A x \in Walker : wpc[x] # "clear"
      BY <1>1, <3>1, Zenon DEF Schedule, Runs, Masked
    <3>3. /\ pc' = [pc EXCEPT ![s] = IF task[s] THEN "blocked" ELSE "erase"]
          /\ UNCHANGED <<interruptible, task, wpc, cur>>
      BY <3>1 DEF Schedule, sleeperVars, walkVars
    <3>4. WokenIsAwake'
      BY <3>2, <3>3 DEF WokenIsAwake
    <3>5. AsleepIsSet'
      BY <1>1, <1>2, <3>3 DEF AsleepIsSet, Asleep
    <3> QED
      BY <3>4, <3>5
  <2>3. CASE \E s \in Task : Convert(s) \/ SetInterruptible(s) \/ Resume(s)
                             \/ EraseSleeper(s) \/ Signal(s)
    <3>1. PICK s \in Task : Convert(s) \/ SetInterruptible(s) \/ Resume(s)
                            \/ EraseSleeper(s) \/ Signal(s)
      BY <2>3
    <3>2. UNCHANGED <<task, wpc, cur>>
      BY <3>1, Zenon DEF Convert, SetInterruptible, Resume, EraseSleeper, Signal,
                         sleeperVars, walkVars
    <3>3. CASE Convert(s) \/ SetInterruptible(s) \/ EraseSleeper(s)
      <4>1. \A t \in Task : Asleep(t)' => Asleep(t)
        BY <1>1, <1>2, <3>3 DEF Convert, SetInterruptible, EraseSleeper, Asleep
      <4> QED
        BY <3>2, <4>1, QuietStep
    <3>4. CASE Resume(s)
      <4>1. \A t \in Task : Asleep(t)' => Asleep(t)
        BY <1>1, <1>2, <3>4 DEF Resume, Asleep
      <4> QED
        BY <3>2, <4>1, QuietStep
    <3>5. CASE Signal(s)
      <4>1. \A t \in Task : Asleep(t)' => Asleep(t)
        BY <1>1, <1>2, <3>5 DEF Signal, Asleep
      <4> QED
        BY <3>2, <4>1, QuietStep
    <3> QED
      BY <3>1, <3>3, <3>4, <3>5
  <2>4. CASE ConvertStart \/ UnwindTimer \/ PublishTimer \/ OwnerExit
    <3>1. /\ UNCHANGED pc \/ \E v : pc' = [pc EXCEPT ![Owner] = v]
          /\ UNCHANGED <<interruptible, task, wpc, cur>>
      BY <2>4, Zenon DEF ConvertStart, UnwindTimer, PublishTimer, OwnerReturns, OwnerExit,
                         sleeperVars, procVars, walkVars
    <3>2. \A t \in Task : Asleep(t)' => Asleep(t) /\ (task[t] => task'[t])
      BY <1>1, <1>2, <3>1 DEF Asleep
    <3> QED
      BY <3>1, <3>2, QuietStep
  <2> QED
    BY <1>5, <2>1, <2>2, <2>3, <2>4 DEF ProcStep
<1>6. CASE \E x \in Walker : WalkStep(x)
  <2>1. PICK x \in Walker : WalkStep(x)
    BY <1>6
  <2>2. CASE WalkBegin(x) \/ SkipTask(x) \/ WakeTimerAgain(x) \/ WakeTimerLast(x)
    <3>1. /\ UNCHANGED <<pc, interruptible, task, cur>>
          /\ UNCHANGED wpc \/ wpc' = [wpc EXCEPT ![x] = "walk"]
      BY <2>2, Zenon DEF WalkBegin, SkipTask, WakeTimerAgain, WakeTimerLast, sleeperVars,
                         procVars
    <3>2. \A y \in Walker : wpc'[y] = "clear" => wpc[y] = "clear"
      BY <3>1, QuietWalk
    <3> QED
      BY <3>1, <3>2, QuietStep DEF Asleep
  <2>3. CASE WakeTask(x)
    <3>1. PICK s \in Task : /\ WakeIfSet(s)
                            /\ cur' = [cur EXCEPT ![x] = s]
                            /\ wpc' = [wpc EXCEPT ![x] = "clear"]
                            /\ UNCHANGED <<pc, task>>
      BY <2>3, Zenon DEF WakeTask, sleeperVars
    <3>2. \A t \in Task : Asleep(t)' => Asleep(t)
      BY <1>2, <3>1 DEF WakeIfSet, Asleep
    <3>3. ~ Asleep(s)'
      <4>1. Asleep(s) => task[s]
        BY <3>1 DEF AsleepIsSet
      <4>2. interruptible'[s] = (interruptible[s] /\ ~ task[s])
        BY <1>2, <3>1 DEF WakeIfSet
      <4> QED
        BY <3>1, <4>1, <4>2, Zenon DEF Asleep
    <3>4. ASSUME NEW y \in Walker, NEW t \in Task, wpc'[y] = "clear", cur'[y] = t
          PROVE  ~ Asleep(t)'
      <4>1. CASE y = x
        <5>1. t = s
          BY <3>1, <3>4, <4>1 DEF TypeInv, TypeOK, WalkType
        <5> QED
          BY <3>3, <5>1
      <4>2. CASE y # x
        <5>1. wpc[y] = "clear" /\ cur[y] = t
          BY <3>1, <3>4, <4>2 DEF TypeInv, TypeOK, WalkType
        <5> QED
          BY <3>2, <5>1 DEF WokenIsAwake
      <4> QED
        BY <4>1, <4>2
    <3>5. WokenIsAwake'
      BY <3>4 DEF WokenIsAwake
    <3>6. AsleepIsSet'
      BY <3>1, <3>2 DEF AsleepIsSet
    <3> QED
      BY <3>5, <3>6
  <2>4. CASE ClearTask(x)
    <3>1. /\ wpc[x] = "clear"
          /\ task' = [task EXCEPT ![cur[x]] = FALSE]
          /\ cur' = [cur EXCEPT ![x] = Nil]
          /\ wpc' = [wpc EXCEPT ![x] = "walk"]
          /\ UNCHANGED <<pc, interruptible>>
      BY <2>4, Zenon DEF ClearTask, procVars
    <3>2. \A t \in Task : Asleep(t)' => Asleep(t)
      BY <3>1 DEF Asleep
    <3>3. \A y \in Walker : wpc'[y] = "clear" => wpc[y] = "clear" /\ cur'[y] = cur[y]
      BY <3>1 DEF TypeInv, TypeOK, WalkType
    <3>4. WokenIsAwake'
      BY <3>2, <3>3 DEF WokenIsAwake
    <3>5. AsleepIsSet'
      BY <1>2, <3>1, <3>2 DEF AsleepIsSet, WokenIsAwake
    <3> QED
      BY <3>4, <3>5
  <2> QED
    BY <2>1, <2>2, <2>3, <2>4 DEF WalkStep
<1>7. CASE IsrOwnStep
  <2>1. /\ UNCHANGED <<pc, interruptible, task, cur>>
        /\ UNCHANGED wpc \/ \E v : v # "clear" /\ wpc' = [wpc EXCEPT ![ISR] = v]
    <3>1. CASE IsrNextEvent
      BY <3>1, Zenon DEF IsrNextEvent, sleeperVars, procVars
    <3>2. CASE Interrupt \/ IsrProject \/ IsrWalkEnd \/ IsrProgram \/ IsrReread \/ IsrForce
      BY <3>2, Zenon DEF Interrupt, IsrProject, IsrWalkEnd, IsrProgram, IsrReread, IsrForce,
                         IsrReturns, sleeperVars, procVars
    <3> QED
      BY <1>7, <3>1, <3>2 DEF IsrOwnStep
  <2>2. \A y \in Walker : wpc'[y] = "clear" => wpc[y] = "clear"
    BY <1>1, <2>1, QuietWalk
  <2> QED
    BY <2>1, <2>2, QuietStep DEF Asleep
<1>8. CASE UpdOwnStep
  <2>1. /\ UNCHANGED <<pc, interruptible, task, cur>>
        /\ \E v : v # "clear" /\ wpc' = [wpc EXCEPT ![UPD] = v]
    BY <1>8, Zenon DEF UpdOwnStep, UpdRead, UpdWalkEnd, UpdRecheck, UpdProgram, UpdReturns,
                       sleeperVars, procVars
  <2>2. \A y \in Walker : wpc'[y] = "clear" => wpc[y] = "clear"
    BY <1>1, <2>1, QuietWalk
  <2> QED
    BY <2>1, <2>2, QuietStep DEF Asleep
<1> QED
  BY <1>3, <1>4, <1>5, <1>6, <1>7, <1>8, NextCases

\* On one processor a task never sleeps on a wake-up that is already spent: the
\* set_current_state / test / schedule pattern of qot_attosleep is sound against
\* qot_sleeper_wakeup, which wakes the task before it clears the task pointer.
THEOREM MissedWakeup == ~ SMP => (Spec => []NoMissedWakeup)
<1> SUFFICES ASSUME ~ SMP PROVE Spec => []NoMissedWakeup
  OBVIOUS
<1>1. Init => WakeInv
  <2> SUFFICES ASSUME Init PROVE WakeInv
    OBVIOUS
  <2>1. TypeInv
    BY InitTypeInv
  <2>2. Active
    BY DEF Init, Active
  <2>3. WokenIsAwake /\ AsleepIsSet
    BY DEF Init, WokenIsAwake, AsleepIsSet, Asleep
  <2> QED
    BY <2>1, <2>2, <2>3 DEF WakeInv
<1>2. WakeInv /\ [Next]_vars => WakeInv'
  BY NextTypeInv, ActiveStep, WakeStep DEF WakeInv
<1>3. WakeInv => NoMissedWakeup
  BY DEF WakeInv, AsleepIsSet, Active, Asleep, NoMissedWakeup, Parked
<1> QED
  BY <1>1, <1>2, <1>3, PTL DEF Spec

-----------------------------------------------------------------------------
\* A periodic timer counts its signals right and keeps its phase.

\* What TimerAccounting says of one timer.
Accounted(k) ==
    /\ timer[k].state = "live" =>
           /\ timer[k].sent = timer[k].counts - 1
           /\ qot_expires[k] = timer[k].first + timer[k].sent * timer[k].period
           /\ timer[k].count # 0 => timer[k].counts <= timer[k].count
    /\ timer[k].state = "done" => timer[k].sent = timer[k].count

AccountInv == LinkInv /\ \A k \in Timer : Accounted(k)

\* A step that leaves the timer and its expiry alone, or ends it otherwise than
\* by its last signal.
LEMMA QuietAccount ==
    ASSUME AccountInv, NEW k \in Timer,
           \/ timer'[k] = timer[k] /\ qot_expires'[k] = qot_expires[k]
           \/ timer'[k].state \in {"freed", "failed"}
    PROVE  Accounted(k)'
    BY DEF AccountInv, Accounted

LEMMA NextPeriod ==
    ASSUME NEW a \in Int, NEW n \in Int, NEW d \in Int
    PROVE  (a + n * d) + d = a + (n + 1) * d
    BY SMT

LEMMA AccountStep ==
    ASSUME AccountInv, [Next]_vars, NEW k \in Timer
    PROVE  Accounted(k)'
<1> USE DEF AccountInv, LinkInv
<1>1. /\ timer \in [Timer -> TimerRecord] /\ qot_expires \in [Sleeper -> Int]
      /\ k \in Sleeper /\ k \notin Task /\ timer[k] \in TimerRecord
      /\ \A t \in Task : t # k
  BY SchedulerAssumption DEF TypeInv, TypeOK, TreeType, OwnerType, Sleeper
<1>2. CASE UNCHANGED <<timer, qot_expires>>
  BY <1>2, QuietAccount
<1>3. CASE UNCHANGED vars \/ Tick
  BY <1>2, <1>3 DEF vars, Tick, treeVars, ownerVars
<1>4. CASE \E l \in Timeline : RequestStep(l)
  <2>1. PICK l \in Timeline : RequestStep(l)
    BY <1>4
  <2>2. CASE \E t \in Task, e \in Int : InitSleeper(t, l, e)
    <3>1. PICK t \in Task, e \in Int : /\ qot_expires' = [qot_expires EXCEPT ![t] = e]
                                       /\ UNCHANGED ownerVars
      BY <2>2, Zenon DEF InitSleeper, qot_timeline_event_add
    <3>2. timer'[k] = timer[k] /\ qot_expires'[k] = qot_expires[k]
      BY <1>1, <3>1 DEF ownerVars
    <3> QED
      BY <3>2, QuietAccount
  <2>3. CASE \E j \in Timer, e \in Int, p \in Nat \ {0}, c \in Nat :
                 InitTimerSleeper(j, l, e, p, c)
    <3>1. PICK j \in Timer, e \in Int, p \in Nat \ {0}, c \in Nat :
                 InitTimerSleeper(j, l, e, p, c)
      BY <2>3
    <3> DEFINE v == FirstExpiry(e, p, qot_core_to_remote(now, l))
    <3>2. /\ timer' = [timer EXCEPT ![j] = [state |-> "live", first |-> v, period |-> p,
                          count |-> c, counts |-> 1, sent |-> 0]]
          /\ qot_expires' = [qot_expires EXCEPT ![j] = v]
      BY <3>1, Zenon DEF InitTimerSleeper, qot_timeline_event_add
    <3>3. v \in Int
      <4>1. qot_core_to_remote(now, l) \in Int
        BY ProjectedType DEF TypeInv, TypeOK, TickType, ClockType
      <4> QED
        BY <4>1, FirstExpiryType
    <3> HIDE DEF v
    <3>4. CASE k = j
      <4>1. /\ timer'[k] = [state |-> "live", first |-> v, period |-> p,
                            count |-> c, counts |-> 1, sent |-> 0]
            /\ qot_expires'[k] = v
        BY <1>1, <3>2, <3>4
      <4>2. v = v + 0 * p
        BY <3>3
      <4>3. /\ timer'[k].sent = 0 /\ timer'[k].counts = 1 /\ timer'[k].count = c
            /\ timer'[k].first = v /\ timer'[k].period = p /\ timer'[k].state = "live"
        BY <4>1
      <4>4. qot_expires'[k] = timer'[k].first + timer'[k].sent * timer'[k].period
        BY <4>1, <4>2, <4>3, Zenon
      <4>5. timer'[k].sent = timer'[k].counts - 1 /\ (c # 0 => 1 <= c)
        BY <4>3
      <4> QED
        BY <4>3, <4>4, <4>5, Zenon DEF Accounted
    <3>5. CASE k # j
      BY <1>1, <3>2, <3>5, QuietAccount
    <3> QED
      BY <3>4, <3>5
  <2>4. CASE \E j \in Timer : qot_timer_destroy(j, l)
    <3>1. PICK b : /\ timer' = [timer EXCEPT ![b].state = "freed"]
                   /\ UNCHANGED qot_expires
      BY <2>4, Zenon DEF qot_timer_destroy
    <3>2. CASE b = k
      <4>1. timer'[k].state = "freed"
        BY <1>1, <3>1, <3>2 DEF TimerRecord
      <4> QED
        BY <4>1, QuietAccount
    <3>3. CASE b # k
      BY <1>1, <3>1, <3>3, QuietAccount
    <3> QED
      BY <3>2, <3>3
  <2>5. CASE DisciplineCall(l)
    BY <1>2, <2>5 DEF DisciplineCall, Discipline, treeVars, ownerVars
  <2> QED
    BY <2>1, <2>2, <2>3, <2>4, <2>5 DEF RequestStep
<1>5. CASE ProcStep
  <2>1. CASE \E p \in Proc : StartStep(p)
    BY <1>2, <2>1, Zenon DEF StartStep, StartReadTime, StartCheck, StartProgram, treeVars,
                             ownerVars
  <2>2. CASE \E t \in Task : \/ Convert(t) \/ SetInterruptible(t) \/ Schedule(t)
                             \/ Resume(t) \/ Signal(t)
    BY <1>2, <2>2, Zenon DEF Convert, SetInterruptible, Schedule, Resume, Signal, treeVars,
                             ownerVars
  <2>3. CASE \E t \in Task : EraseSleeper(t)
    <3>1. PICK t \in Task : /\ qot_expires' = [qot_expires EXCEPT ![t] = 0]
                            /\ UNCHANGED ownerVars
      BY <2>3, Zenon DEF EraseSleeper
    <3>2. timer'[k] = timer[k] /\ qot_expires'[k] = qot_expires[k]
      BY <1>1, <3>1 DEF ownerVars
    <3> QED
      BY <3>2, QuietAccount
  <2>4. CASE ConvertStart \/ PublishTimer \/ OwnerExit
    BY <1>2, <2>4 DEF ConvertStart, PublishTimer, OwnerExit, treeVars, ownerVars
  <2>5. CASE UnwindTimer
    <3>1. PICK b : /\ timer' = [timer EXCEPT ![b].state = "failed"]
                   /\ UNCHANGED qot_expires
      BY <2>5, Zenon DEF UnwindTimer
    <3>2. CASE b = k
      <4>1. timer'[k].state = "failed"
        BY <1>1, <3>1, <3>2 DEF TimerRecord
      <4> QED
        BY <4>1, QuietAccount
    <3>3. CASE b # k
      BY <1>1, <3>1, <3>3, QuietAccount
    <3> QED
      BY <3>2, <3>3
  <2> QED
    BY <1>5, <2>1, <2>2, <2>3, <2>4, <2>5 DEF ProcStep
<1>6. CASE \E x \in Walker : WalkStep(x)
  <2>1. PICK x \in Walker : WalkStep(x)
    BY <1>6
  <2>2. CASE WalkBegin(x) \/ WakeTask(x) \/ ClearTask(x) \/ SkipTask(x)
    BY <1>2, <2>2 DEF WalkBegin, WakeTask, ClearTask, SkipTask, treeVars, ownerVars
  \* The timer under the iterator is live.
  <2>3. ASSUME WakeTimerAgain(x) \/ WakeTimerLast(x)
        PROVE  node[x] \in Timer /\ timer[node[x]].state = "live"
    <3>1. node[x] \in Timer /\ wpc[x] = "walk" /\ node[x] # Nil
      BY <2>3, Zenon DEF WakeTimerAgain, WakeTimerLast, AtDueSleeper, Due
    <3>2. node[x] \in tree[TimelineOf(x)]
      BY <3>1 DEF WalkLinked, Walking
    <3>3. TimelineOf(x) \in Timeline
      BY DEF TypeInv, TypeOK, WalkType, TimelineOf
    <3> QED
      BY <3>1, <3>2, <3>3, Zenon DEF Linked
  <2>4. CASE WakeTimerAgain(x)
    <3>1. /\ timer' = [timer EXCEPT ![node[x]].sent = @ + 1, ![node[x]].counts = @ + 1]
          /\ qot_expires' = [qot_expires EXCEPT
                 ![node[x]] = qot_expires[node[x]] + timer[node[x]].period]
          /\ MoreToCome(node[x])
      BY <2>4, Zenon DEF WakeTimerAgain, qot_timeline_event_add
    <3>2. CASE node[x] = k
      <4> DEFINE r == timer[k]
      <4>1. /\ r.sent \in Nat /\ r.counts \in Nat /\ r.count \in Nat
            /\ r.first \in Int /\ r.period \in Nat /\ qot_expires[k] \in Int
        BY <1>1 DEF TimerRecord
      <4>2. /\ timer'[k].sent = r.sent + 1 /\ timer'[k].counts = r.counts + 1
            /\ timer'[k].count = r.count /\ timer'[k].first = r.first
            /\ timer'[k].period = r.period /\ timer'[k].state = r.state
        BY <1>1, <3>1, <3>2 DEF TimerRecord
      <4>3. qot_expires'[k] = qot_expires[k] + r.period
        BY <1>1, <3>1, <3>2
      <4>4. /\ r.state = "live" /\ r.sent = r.counts - 1
            /\ r.count # 0 => r.counts < r.count
        BY <2>3, <2>4, <3>1, <3>2, <4>1 DEF Accounted, MoreToCome
      <4>5. qot_expires[k] = r.first + r.sent * r.period
        BY <4>4 DEF Accounted
      <4> HIDE DEF r
      <4>6. qot_expires'[k] = timer'[k].first + timer'[k].sent * timer'[k].period
        <5>1. (r.first + r.sent * r.period) + r.period = r.first + (r.sent + 1) * r.period
          BY <4>1, NextPeriod
        <5>2. qot_expires'[k] = r.first + (r.sent + 1) * r.period
          BY <4>3, <4>5, <5>1, Zenon
        <5> QED
          BY <4>2, <5>2, Zenon
      <4>7. timer'[k].sent = timer'[k].counts - 1
        BY <4>1, <4>2, <4>4
      <4>8. timer'[k].count # 0 => timer'[k].counts <= timer'[k].count
        BY <4>1, <4>2, <4>4
      <4>9. timer'[k].state # "done"
        BY <4>2, <4>4
      <4> QED
        BY <4>6, <4>7, <4>8, <4>9 DEF Accounted
    <3>3. CASE node[x] # k
      BY <1>1, <3>1, <3>3, QuietAccount
    <3> QED
      BY <3>2, <3>3
  <2>5. CASE WakeTimerLast(x)
    <3>1. /\ timer' = [timer EXCEPT
                 ![node[x]].sent  = IF owner.alive THEN @ + 1 ELSE @,
                 ![node[x]].state = IF owner.alive THEN "done" ELSE "freed"]
          /\ UNCHANGED qot_expires
          /\ ~ owner.alive \/ ~ MoreToCome(node[x])
      BY <2>5, Zenon DEF WakeTimerLast
    <3>2. CASE node[x] = k /\ owner.alive
      <4>1. timer[k].sent \in Nat /\ timer[k].counts \in Nat /\ timer[k].count \in Nat
        BY <1>1 DEF TimerRecord
      <4>2. /\ timer'[k].sent = timer[k].sent + 1 /\ timer'[k].count = timer[k].count
            /\ timer'[k].state = "done"
        BY <1>1, <3>1, <3>2 DEF TimerRecord
      <4>3. timer[k].sent + 1 = timer[k].count
        BY <2>3, <2>5, <3>1, <3>2, <4>1 DEF Accounted, MoreToCome
      <4> QED
        BY <4>2, <4>3 DEF Accounted
    <3>3. CASE node[x] = k /\ ~ owner.alive
      <4>1. timer'[k].state = "freed"
        BY <1>1, <3>1, <3>3 DEF TimerRecord
      <4> QED
        BY <4>1, QuietAccount
    <3>4. CASE node[x] # k
      BY <1>1, <3>1, <3>4, QuietAccount
    <3> QED
      BY <3>2, <3>3, <3>4
  <2> QED
    BY <2>1, <2>2, <2>4, <2>5 DEF WalkStep
<1>7. CASE IsrOwnStep
  BY <1>2, <1>7, Zenon DEF IsrOwnStep, Interrupt, IsrProject, IsrWalkEnd, IsrNextEvent,
                           IsrProgram, IsrReread, IsrForce, treeVars, ownerVars
<1>8. CASE UpdOwnStep
  BY <1>2, <1>8, Zenon DEF UpdOwnStep, UpdRead, UpdWalkEnd, UpdRecheck, UpdProgram, treeVars,
                           ownerVars
<1> QED
  BY <1>3, <1>4, <1>5, <1>6, <1>7, <1>8, NextCases

\* A periodic timer has signalled once for each period behind it, stays in phase
\* with its first expiry, never signals more often than its count, and has
\* signalled exactly that often when it ends with its owner alive: for any
\* number of timers and processors and any discipline of the timelines
\* (qot_sleeper_wakeup, which re-links the timer in the middle of a walk).
THEOREM TimersAccounted == Spec => []TimerAccounting
<1>1. Init => AccountInv
  <2> SUFFICES ASSUME Init PROVE AccountInv
    OBVIOUS
  <2>1. LinkInv
    BY InitLinkInv
  <2>2. \A k \in Timer : timer[k].state = "unused"
    BY DEF Init
  <2> QED
    BY <2>1, <2>2 DEF AccountInv, Accounted
<1>2. AccountInv /\ [Next]_vars => AccountInv'
  <2> SUFFICES ASSUME AccountInv, [Next]_vars PROVE AccountInv'
    OBVIOUS
  <2>1. LinkInv'
    BY NextLinkInv DEF AccountInv
  <2>2. \A k \in Timer : Accounted(k)'
    BY AccountStep
  <2> QED
    BY <2>1, <2>2 DEF AccountInv, Accounted
<1>3. AccountInv => TimerAccounting
  BY DEF AccountInv, Accounted, TimerAccounting
<1> QED
  BY <1>1, <1>2, <1>3, PTL DEF Spec
=============================================================================
