------------------------------ MODULE Scheduler ------------------------------
(***************************************************************************)
(* The time-triggered scheduler (scheduler.c): a table of tasks, a tick    *)
(* that runs at most one due task, and operations on the table that tasks  *)
(* and the main program call.  Everything is one thread: a task runs on    *)
(* the stack of the caller of scheduler_tick or scheduler_run_now, and     *)
(* scheduler_run_now may be called by a task, so runs nest.                *)
(*                                                                         *)
(* Run times matter only for the deadline check, whose outcome is an       *)
(* input: Overruns is {FALSE} for the code as it stands, in which both     *)
(* clock readings are 0, and BOOLEAN for a board with a timer.  Other      *)
(* statistics are left out.                                                *)
(***************************************************************************)
EXTENDS Integers, Sequences, FiniteSets

CONSTANTS
  Slots,      \* SCHED_MAX_TASKS
  Name,       \* task names
  Priority,   \* of each name: a lower number goes first
  Periods,    \* periods in ticks
  Offsets,    \* offsets in ticks
  MissLimit,  \* SCHED_DEADLINE_MISS_LIMIT
  TickRange,  \* values of the tick counter, 2^32 in the code
  Overruns,   \* outcomes of the deadline check
  MaxDepth    \* bound on nested runs

Slot == 0..(Slots - 1)
MaxPeriod == CHOOSE p \in Periods : \A q \in Periods : q <= p

ASSUME TableAssumption ==
  /\ {Slots, MissLimit, MaxDepth, TickRange} \subseteq Nat \ {0}
  /\ Name # {} /\ Priority \in [Name -> 0..3]
  /\ Periods \subseteq 1..(TickRange - 1)
  /\ Offsets \subseteq 0..(TickRange - 1)
  /\ \E p \in Periods : \A q \in Periods : q <= p
  /\ Overruns \subseteq BOOLEAN

INVALID == -1

VARIABLES
  task,      \* the task table
  tick,      \* tick_count
  current,   \* running_task
  running,   \* the loop of scheduler_start is to go on
  stack,     \* slots whose functions are executing, innermost last
  \* History.
  calm,      \* only ticks, and no counter has wrapped, since the table was made
  stopped    \* of each slot, whether it was suspended or disabled, inside its
             \* own run or outside, and nothing has undone that since

vars == <<task, tick, current, running, stack, calm, stopped>>

TaskState == {"INACTIVE", "READY", "RUNNING", "SUSPENDED", "FAULT"}
Tcb == [registered : BOOLEAN, name : Name, period : Periods, state : TaskState,
        next : 0..(TickRange - 1), misses : 0..MissLimit]

(* What a slot without a task holds is overwritten before it is read. *)
Unused ==
  [registered |-> FALSE, name |-> CHOOSE n \in Name : TRUE, period |-> MaxPeriod,
   state |-> "INACTIVE", next |-> 0, misses |-> 0]

Registered == {s \in Slot : task[s].registered}
Free == Slot \ Registered
Executing == {stack[i] : i \in DOMAIN stack}

(***************************************************************************)
(* One thread: while the loop runs, only an executing task can call the    *)
(* scheduler.  scheduler_delay_ms changes no state and is left out: its    *)
(* loop waits for ticks that only its own thread makes.                    *)
(***************************************************************************)
CanCall == stack # <<>> \/ ~running

(* Whatever stopped the task is over. *)
Undone(s) == stopped' = [stopped EXCEPT ![s] = "no"]

SetState(s, state) == task' = [task EXCEPT ![s].state = state]

NameTaken(n) == \E s \in Registered : task[s].name = n

(* scheduler_register_task: the first free slot, unless the name is taken. *)
Register(n, period, offset, enabled) ==
  /\ CanCall
  /\ ~NameTaken(n)
  /\ \E s \in Free :
       /\ \A f \in Free : s <= f
       /\ task' = [task EXCEPT ![s] =
            [registered |-> TRUE, name |-> n, period |-> period, misses |-> 0,
             state |-> IF enabled THEN "READY" ELSE "INACTIVE",
             next |-> (tick + offset) % TickRange]]
       /\ Undone(s)
  /\ calm' = (calm /\ tick + offset < TickRange)
  /\ UNCHANGED <<tick, current, running, stack>>

Unregister(s) ==
  /\ CanCall
  /\ s \in Registered
  /\ s # current
  /\ task' = [task EXCEPT ![s] = Unused]
  /\ calm' = FALSE
  /\ Undone(s)
  /\ UNCHANGED <<tick, current, running, stack>>

Enable(s) ==
  /\ CanCall
  /\ s \in Registered
  /\ task' = [task EXCEPT ![s].state = "READY", ![s].next = tick]
  /\ calm' = FALSE
  /\ Undone(s)
  /\ UNCHANGED <<tick, current, running, stack>>

(* scheduler_disable_task and scheduler_suspend_task. *)
StopTask(s, state) ==
  /\ CanCall
  /\ s \in Registered
  /\ SetState(s, state)
  /\ stopped' = [stopped EXCEPT ![s] = IF s \in Executing THEN "inside" ELSE "outside"]
  /\ UNCHANGED <<tick, current, running, stack, calm>>

(* Mutant: any stopped task is resumed. *)
Resumable_Stopped(s) == task[s].state \in {"SUSPENDED", "INACTIVE"}

Resumable(s) == task[s].state = "SUSPENDED"

Resume(s) ==
  /\ CanCall
  /\ s \in Registered
  /\ Resumable(s)
  /\ SetState(s, "READY")
  /\ calm' = FALSE
  /\ IF task[s].state = "SUSPENDED" THEN Undone(s) ELSE UNCHANGED stopped
  /\ UNCHANGED <<tick, current, running, stack>>

SetPeriod(s, period) ==
  /\ CanCall
  /\ s \in Registered
  /\ task' = [task EXCEPT ![s].period = period]
  /\ calm' = FALSE
  /\ UNCHANGED <<tick, current, running, stack, stopped>>

(* sched_run_task up to the call of the task's function. *)
StartRun(s) ==
  /\ SetState(s, "RUNNING")
  /\ current' = s
  /\ stack' = Append(stack, s)

RunNow(s) ==
  /\ CanCall
  /\ s \in Registered
  /\ Len(stack) < MaxDepth
  /\ StartRun(s)
  /\ calm' = FALSE
  /\ Undone(s)
  /\ UNCHANGED <<tick, running>>

(* sched_find_ready_task: ties go to the lower slot. *)
Due(now) ==
  {s \in Registered : task[s].state = "READY" /\ task[s].next <= now}

Before(s, t) ==
  LET ps == Priority[task[s].name]
      pt == Priority[task[t].name]
  IN  ps < pt \/ (ps = pt /\ s <= t)

FirstDue(now) == {s \in Due(now) : \A t \in Due(now) : Before(s, t)}

Tick ==
  LET now == (tick + 1) % TickRange
  IN  /\ stack = <<>>
      /\ tick' = now
      /\ calm' = (calm /\ now + MaxPeriod < TickRange)
      /\ \/ \E s \in FirstDue(now) : StartRun(s)
         \/ Due(now) = {} /\ UNCHANGED <<task, current, stack>>
      /\ UNCHANGED <<running, stopped>>

(* Mutant: a task is due again at the next tick. *)
NextRun_NoPeriod(s) == tick

(* Mutant: the due time is kept in a wider type than the tick counter. *)
NextRun_Wide(s) == tick + task[s].period

NextRun(s) == (tick + task[s].period) % TickRange

(* sched_run_task after the function has returned. *)
Return(overrun) ==
  LET s == stack[Len(stack)]
      misses == IF ~overrun THEN 0
                ELSE IF task[s].misses < MissLimit THEN task[s].misses + 1
                ELSE MissLimit
      fault == task[s].state = "FAULT" \/ (overrun /\ misses = MissLimit)
  IN  /\ stack # <<>>
      /\ task' = [task EXCEPT ![s].misses = misses,
                              ![s].next = NextRun(s),
                              ![s].state = IF fault THEN "FAULT" ELSE "READY"]
      /\ current' = INVALID
      /\ stack' = SubSeq(stack, 1, Len(stack) - 1)
      /\ stopped' = [stopped EXCEPT ![s] = IF @ = "inside" THEN "no" ELSE @]
      /\ UNCHANGED <<tick, running, calm>>

(* scheduler_start: the table keeps the due times of the old tick count. *)
Start ==
  /\ CanCall
  /\ stack = <<>>
  /\ running' = TRUE
  /\ tick' = 0
  /\ calm' = (calm /\ tick = 0)
  /\ UNCHANGED <<task, current, stack, stopped>>

Stop ==
  /\ CanCall
  /\ running' = FALSE
  /\ UNCHANGED <<task, tick, current, stack, calm, stopped>>

Init ==
  /\ task = [s \in Slot |-> Unused]
  /\ tick = 0
  /\ current = INVALID
  /\ running = FALSE
  /\ stack = <<>>
  /\ calm = TRUE
  /\ stopped = [s \in Slot |-> "no"]

Next ==
  \/ \E n \in Name, p \in Periods, o \in Offsets, on \in BOOLEAN : Register(n, p, o, on)
  \/ \E s \in Slot :
       \/ Unregister(s)
       \/ Enable(s)
       \/ StopTask(s, "INACTIVE")
       \/ StopTask(s, "SUSPENDED")
       \/ Resume(s)
       \/ \E p \in Periods : SetPeriod(s, p)
       \/ RunNow(s)
  \/ Tick
  \/ \E overrun \in Overruns : Return(overrun)
  \/ Start
  \/ Stop

Spec == Init /\ [][Next]_vars

-----------------------------------------------------------------------------

(* Types; the running task is the innermost one or none. *)
TypeOK ==
  /\ task \in [Slot -> Tcb]
  /\ tick \in 0..(TickRange - 1)
  /\ current \in Slot \union {INVALID}
  /\ {running, calm} \subseteq BOOLEAN
  /\ stack \in Seq(Slot)
  /\ Len(stack) <= MaxDepth
  /\ stopped \in [Slot -> {"no", "outside", "inside"}]

(* No two registered tasks have one name, whichever slots were freed.      *)
UniqueNames ==
  \A s, t \in Registered : task[s].name = task[t].name => s = t

(* A task that was suspended or disabled is not ready and does not run     *)
(* until it is enabled, run by command or registered anew, if it was       *)
(* suspended until it is resumed, and if that was inside its own run until *)
(* this run returns, which makes it ready.                                 *)
StopHolds == \A s \in Slot : stopped[s] # "no" => task[s].state \notin {"READY", "RUNNING"}

(* The tasks that go before s when both are due. *)
Ahead(s) == {u \in Registered \ {s} : Before(u, s)}

(* None of them is so frequent that it comes twice before each came once.  *)
Unhurried(s) == \A u \in Ahead(s) : task[u].period > Cardinality(Ahead(s))

(* A due task waits for no more ticks than there are tasks that go before  *)
(* it, if the period of each of those exceeds their number, as long as     *)
(* nobody unregisters, enables, resumes or runs tasks or changes a period  *)
(* and no counter wraps.  A task behind shorter periods may wait for ever. *)
ResponseBounded ==
  calm /\ stack = <<>> =>
    \A s \in Due(tick) : Unhurried(s) => tick - task[s].next <= Cardinality(Ahead(s))

(* A task whose function is executing stays registered.  The code keeps    *)
(* this only for the task in running_task.                                 *)
ExecutingStaysRegistered == Executing \subseteq Registered
=============================================================================
