--------------------------- MODULE SchedulerProofs ---------------------------
(***************************************************************************)
(* Theorems about Scheduler for every size of the table, all periods and   *)
(* any depth of nested runs.                                               *)
(***************************************************************************)
EXTENDS Scheduler, FiniteSetTheorems, TLAPS

LEMMA Numbers ==
  /\ Slots \in Nat \ {0} /\ MissLimit \in Nat \ {0} /\ MaxDepth \in Nat \ {0}
  /\ TickRange \in Nat \ {0}
  /\ MaxPeriod \in Periods /\ Periods \subseteq 1..(TickRange - 1)
  /\ Offsets \subseteq 0..(TickRange - 1)
  /\ Overruns \subseteq BOOLEAN
<1>1. MaxPeriod \in Periods
  BY TableAssumption DEF MaxPeriod
<1>2. QED
  BY <1>1, TableAssumption

LEMMA PeriodsPositive == \A p \in Periods : p \in Nat
<1>1. \A p \in 1..(TickRange - 1) : p \in Nat
  OBVIOUS
<1>2. QED
  BY <1>1, TableAssumption

LEMMA UnusedType == Unused \in Tcb /\ ~Unused.registered /\ Unused.state = "INACTIVE"
<1>1. (CHOOSE n \in Name : TRUE) \in Name
  BY TableAssumption
<1>2. 0 \in 0..(TickRange - 1) /\ 0 \in 0..MissLimit
  BY Numbers
<1>3. MaxPeriod \in Periods
  BY Numbers
<1>4. QED
  BY <1>1, <1>2, <1>3 DEF Unused, Tcb, TaskState

-----------------------------------------------------------------------------
(* The executing slots. *)
LEMMA PushedExecuting ==
  ASSUME stack \in Seq(Slot), NEW s \in Slot, stack' = Append(stack, s)
  PROVE  stack' \in Seq(Slot) /\ Len(stack') = Len(stack) + 1
         /\ Executing' = Executing \union {s}
<1>1. Len(stack) \in Nat /\ DOMAIN stack = 1..Len(stack)
  OBVIOUS
<1>2. stack' \in Seq(Slot) /\ Len(stack') = Len(stack) + 1
      /\ DOMAIN stack' = 1..(Len(stack) + 1)
  OBVIOUS
<1>3. (\A i \in 1..Len(stack) : stack'[i] = stack[i]) /\ stack'[Len(stack) + 1] = s
  OBVIOUS
<1>4. 1..(Len(stack) + 1) = 1..Len(stack) \union {Len(stack) + 1}
  BY <1>1
<1>5. Executing' = Executing \union {s}
  BY <1>1, <1>2, <1>3, <1>4 DEF Executing
<1>6. QED
  BY <1>2, <1>5

LEMMA PoppedExecuting ==
  ASSUME stack \in Seq(Slot), stack # <<>>, stack' = SubSeq(stack, 1, Len(stack) - 1)
  PROVE  /\ stack[Len(stack)] \in Slot /\ stack[Len(stack)] \in Executing
         /\ stack' \in Seq(Slot) /\ Len(stack') = Len(stack) - 1
         /\ Executing' \subseteq Executing
<1>1. Len(stack) \in Nat \ {0} /\ DOMAIN stack = 1..Len(stack)
  OBVIOUS
<1>2. stack[Len(stack)] \in Slot /\ stack[Len(stack)] \in Executing
  BY <1>1 DEF Executing
<1>3. stack' = [i \in 1..(Len(stack) - 1) |-> stack[i]]
  BY <1>1
<1>4. stack' \in Seq(Slot) /\ Len(stack') = Len(stack) - 1
  BY <1>1, <1>3
<1>5. Executing' \subseteq Executing
  BY <1>1, <1>3 DEF Executing
<1>6. QED
  BY <1>2, <1>4, <1>5

-----------------------------------------------------------------------------
StoppedType == stopped \in [Slot -> {"no", "outside", "inside"}]

LEMMA UndoneType ==
  ASSUME StoppedType, NEW s \in Slot, Undone(s)
  PROVE  /\ StoppedType' /\ stopped'[s] = "no"
         /\ \A t \in Slot \ {s} : stopped'[t] = stopped[t]
BY DEF StoppedType, Undone

LEMMA StartRunType ==
  ASSUME TypeOK, NEW s \in Slot, Len(stack) < MaxDepth, StartRun(s)
  PROVE  /\ task' \in [Slot -> Tcb] /\ current' \in Slot \union {INVALID}
         /\ stack' \in Seq(Slot) /\ Len(stack') <= MaxDepth
<1>1. stack' \in Seq(Slot) /\ Len(stack') = Len(stack) + 1
  BY PushedExecuting DEF TypeOK, StartRun
<1>2. Len(stack) \in Nat /\ MaxDepth \in Nat
  BY Numbers DEF TypeOK
<1>3. Len(stack') <= MaxDepth
  BY <1>1, <1>2
<1>4. task' \in [Slot -> Tcb] /\ current' \in Slot \union {INVALID}
  BY DEF TypeOK, StartRun, SetState, Tcb, TaskState
<1>5. QED
  BY <1>1, <1>3, <1>4

LEMMA TypeStep ==
  ASSUME TypeOK, [Next]_vars
  PROVE  TypeOK'
<1>0. 0 \in 0..(TickRange - 1) /\ 0 \in 0..MissLimit /\ TickRange \in Nat \ {0}
  BY Numbers
<1>1. ASSUME NEW n \in Name, NEW p \in Periods, NEW o \in Offsets, NEW on \in BOOLEAN,
             Register(n, p, o, on)
      PROVE  TypeOK'
  <2>1. (tick + o) % TickRange \in 0..(TickRange - 1)
    <3>1. tick + o \in Nat
      BY Numbers DEF TypeOK
    <3>2. QED
      BY <1>0, <3>1
  <2>2. [registered |-> TRUE, name |-> n, period |-> p, misses |-> 0,
         state |-> IF on THEN "READY" ELSE "INACTIVE",
         next |-> (tick + o) % TickRange] \in Tcb
    BY <1>0, <2>1 DEF Tcb, TaskState
  <2>3. task' \in [Slot -> Tcb]
    BY <1>1, <2>2 DEF Register, TypeOK
  <2>4. calm' \in BOOLEAN /\ UNCHANGED <<tick, current, running, stack>>
    BY <1>1 DEF Register, TypeOK
  <2>5. StoppedType'
    BY <1>1, UndoneType DEF Register, TypeOK, StoppedType, Free
  <2>6. QED
    BY <2>3, <2>4, <2>5 DEF TypeOK, StoppedType
<1>2. ASSUME NEW s \in Slot, Unregister(s)
      PROVE  TypeOK'
  <2>1. task' \in [Slot -> Tcb]
    BY <1>2, UnusedType DEF Unregister, TypeOK
  <2>2. StoppedType'
    BY <1>2, UndoneType DEF Unregister, TypeOK, StoppedType
  <2>3. QED
    BY <1>2, <2>1, <2>2 DEF Unregister, TypeOK, StoppedType
<1>3. ASSUME NEW s \in Slot, Enable(s)
      PROVE  TypeOK'
  <2>1. task' \in [Slot -> Tcb]
    BY <1>3, ZenonT(60) DEF Enable, TypeOK, Tcb, TaskState
  <2>2. StoppedType'
    BY <1>3, UndoneType DEF Enable, TypeOK, StoppedType
  <2>3. QED
    BY <1>3, <2>1, <2>2 DEF Enable, TypeOK, StoppedType
<1>4. ASSUME NEW s \in Slot, NEW state \in {"INACTIVE", "SUSPENDED"}, StopTask(s, state)
      PROVE  TypeOK'
  <2>1. task' \in [Slot -> Tcb]
    BY <1>4 DEF StopTask, SetState, TypeOK, Tcb, TaskState
  <2>2. StoppedType'
    BY <1>4 DEF StopTask, TypeOK, StoppedType
  <2>3. QED
    BY <1>4, <2>1, <2>2 DEF StopTask, TypeOK, StoppedType
<1>5. ASSUME NEW s \in Slot, Resume(s)
      PROVE  TypeOK'
  <2>1. task' \in [Slot -> Tcb]
    BY <1>5 DEF Resume, SetState, TypeOK, Tcb, TaskState
  <2>2. StoppedType'
    BY <1>5, UndoneType DEF Resume, TypeOK, StoppedType
  <2>3. QED
    BY <1>5, <2>1, <2>2 DEF Resume, TypeOK, StoppedType
<1>6. ASSUME NEW s \in Slot, NEW p \in Periods, SetPeriod(s, p)
      PROVE  TypeOK'
  BY <1>6 DEF SetPeriod, TypeOK, Tcb
<1>7. ASSUME NEW s \in Slot, RunNow(s)
      PROVE  TypeOK'
  <2>1. StartRun(s) /\ Len(stack) < MaxDepth
    BY <1>7 DEF RunNow
  <2>2. calm' \in BOOLEAN /\ UNCHANGED <<tick, running>>
    BY <1>7 DEF RunNow, TypeOK
  <2>3. StoppedType'
    BY <1>7, UndoneType DEF RunNow, TypeOK, StoppedType
  <2>4. QED
    BY <2>1, <2>2, <2>3, StartRunType DEF TypeOK, StoppedType
<1>8. CASE Tick
  <2>1. tick' \in 0..(TickRange - 1)
    <3>1. tick + 1 \in Nat /\ tick' = (tick + 1) % TickRange
      BY <1>8 DEF Tick, TypeOK
    <3>2. QED
      BY <1>0, <3>1
  <2>2. calm' \in BOOLEAN /\ UNCHANGED <<running, stopped>>
    BY <1>8 DEF Tick, TypeOK
  <2>3. CASE \E s \in FirstDue(tick') : StartRun(s)
    <3>1. PICK s \in FirstDue(tick') : StartRun(s)
      BY <2>3
    <3>2. s \in Slot
      BY DEF FirstDue, Due, Registered
    <3>3. Len(stack) < MaxDepth
      BY <1>8, Numbers DEF Tick
    <3>4. QED
      BY <2>1, <2>2, <3>1, <3>2, <3>3, StartRunType DEF TypeOK
  <2>4. CASE UNCHANGED <<task, current, stack>>
    BY <2>1, <2>2, <2>4 DEF TypeOK
  <2>5. QED
    BY <1>8, <2>3, <2>4 DEF Tick
<1>9. ASSUME NEW overrun \in Overruns, Return(overrun)
      PROVE  TypeOK'
  <2> DEFINE s == stack[Len(stack)]
             misses == IF ~overrun THEN 0
                       ELSE IF task[s].misses < MissLimit THEN task[s].misses + 1
                       ELSE MissLimit
  <2>1. /\ s \in Slot /\ stack' \in Seq(Slot) /\ Len(stack') = Len(stack) - 1
    BY <1>9, PoppedExecuting DEF Return, TypeOK
  <2>2. Len(stack') <= MaxDepth
    <3>1. Len(stack) \in Nat /\ Len(stack) <= MaxDepth /\ MaxDepth \in Nat
      BY Numbers DEF TypeOK
    <3>2. QED
      BY <2>1, <3>1
  <2>3. misses \in 0..MissLimit
    <3>1. task[s].misses \in 0..MissLimit
      BY <2>1 DEF TypeOK, Tcb
    <3>2. MissLimit \in Nat \ {0}
      BY Numbers
    <3>3. QED
      BY <3>1, <3>2
  <2>4. NextRun(s) \in 0..(TickRange - 1)
    <3>1. task[s].period \in Periods
      BY <2>1 DEF TypeOK, Tcb
    <3>2. tick + task[s].period \in Nat
      <4>1. task[s].period \in Nat
        BY <3>1, PeriodsPositive
      <4>2. tick \in Nat
        BY DEF TypeOK
      <4>3. QED
        BY <4>1, <4>2
    <3>3. QED
      BY <1>0, <3>2 DEF NextRun
  <2>5. PICK state \in {"FAULT", "READY"} :
          task' = [task EXCEPT ![s].misses = misses, ![s].next = NextRun(s), ![s].state = state]
    BY <1>9 DEF Return
  <2>6. task' \in [Slot -> Tcb]
    <3> DEFINE next == NextRun(s)
    <3>1. next \in 0..(TickRange - 1)
      BY <2>4
    <3>2. task' = [task EXCEPT ![s].misses = misses, ![s].next = next, ![s].state = state]
      BY <2>5
    <3> HIDE DEF s, misses, next
    <3> DEFINE tcb == [task[s] EXCEPT !.misses = misses, !.next = next, !.state = state]
    <3>3. task \in [Slot -> Tcb] /\ task[s] \in Tcb
      BY <2>1 DEF TypeOK
    <3>4. tcb \in Tcb
      BY <2>3, <2>5, <3>1, <3>3 DEF Tcb, TaskState
    <3>5. task' = [task EXCEPT ![s] = tcb]
      BY <2>1, <3>2, <3>3 DEF Tcb
    <3> HIDE DEF tcb
    <3>6. QED
      BY <2>1, <3>3, <3>4, <3>5
  <2>7. QED
    BY <1>9, <2>1, <2>2, <2>6 DEF Return, TypeOK
<1>10. CASE Start \/ Stop \/ UNCHANGED vars
  BY <1>0, <1>10 DEF Start, Stop, TypeOK, vars
<1>11. QED
  BY <1>1, <1>2, <1>3, <1>4, <1>5, <1>6, <1>7, <1>8, <1>9, <1>10 DEF Next

(***************************************************************************)
(* Types; nested runs stay within the bound, and running_task is a slot or *)
(* none.                                                                   *)
(***************************************************************************)
THEOREM TypeCorrect == Spec => []TypeOK
<1>1. Init => TypeOK
  <2>1. ASSUME Init
        PROVE  /\ task \in [Slot -> Tcb] /\ current \in Slot \union {INVALID}
               /\ {running, calm} \subseteq BOOLEAN
               /\ stopped \in [Slot -> {"no", "outside", "inside"}]
    BY <2>1, UnusedType DEF Init
  <2>2. ASSUME Init
        PROVE  tick \in 0..(TickRange - 1) /\ stack \in Seq(Slot) /\ Len(stack) <= MaxDepth
    <3>1. tick = 0 /\ stack = <<>>
      BY <2>2 DEF Init
    <3>2. QED
      BY <3>1, Numbers
  <2>3. QED
    BY <2>1, <2>2 DEF TypeOK
<1>2. TypeOK /\ [Next]_vars => TypeOK'
  BY TypeStep
<1>3. QED
  BY <1>1, <1>2, PTL DEF Spec

-----------------------------------------------------------------------------
(***************************************************************************)
(* The check in scheduler_register_task is enough: no other operation      *)
(* names a task, and freeing a slot leaves the names of the others.        *)
(***************************************************************************)
THEOREM UniqueNamesHolds == Spec => []UniqueNames
<1>1. Init => UniqueNames
  BY UnusedType DEF Init, UniqueNames, Registered
<1>2. ASSUME TypeOK, UniqueNames, [Next]_vars
      PROVE  UniqueNames'
  <2>1. ASSUME \A s \in Slot : task'[s].registered = task[s].registered
                              /\ task'[s].name = task[s].name
        PROVE  UniqueNames'
    BY <1>2, <2>1 DEF UniqueNames, Registered
  <2>2. ASSUME NEW s \in Slot, NEW f, task' = [task EXCEPT ![s].state = f]
        PROVE  UniqueNames'
    BY <1>2, <2>1, <2>2 DEF TypeOK, Tcb
  <2>3. ASSUME NEW n \in Name, NEW p \in Periods, NEW o \in Offsets, NEW on \in BOOLEAN,
               Register(n, p, o, on)
        PROVE  UniqueNames'
    <3>1. ~(\E s \in Registered : task[s].name = n)
      BY <2>3 DEF Register, NameTaken
    <3>2. PICK f \in Free : task'[f].name = n /\ \A t \in Slot \ {f} : task'[t] = task[t]
      BY <1>2, <2>3 DEF Register, TypeOK, Free
    <3>3. Registered' \subseteq Registered \union {f}
      BY <3>2 DEF Registered
    <3>4. QED
      BY <1>2, <3>1, <3>2, <3>3 DEF UniqueNames, Registered, Free
  <2>4. ASSUME NEW s \in Slot, Unregister(s)
        PROVE  UniqueNames'
    <3>1. ~task'[s].registered /\ \A t \in Slot \ {s} : task'[t] = task[t]
      BY <1>2, <2>4, UnusedType DEF Unregister, TypeOK
    <3>2. QED
      BY <1>2, <3>1 DEF UniqueNames, Registered
  <2>5. ASSUME NEW s \in Slot,
               Enable(s) \/ \E p \in Periods : SetPeriod(s, p)
        PROVE  UniqueNames'
    <3>1. task' \in [Slot -> Tcb] /\ \A t \in Slot \ {s} : task'[t] = task[t]
      BY <1>2, <2>5, TypeStep DEF Enable, SetPeriod, TypeOK
    <3>2. CASE Enable(s)
      <4>1. task'[s].registered = task[s].registered /\ task'[s].name = task[s].name
        BY <1>2, <3>2 DEF Enable, TypeOK, Tcb
      <4>2. QED
        BY <2>1, <3>1, <4>1
    <3>3. CASE \E p \in Periods : SetPeriod(s, p)
      <4>1. task'[s].registered = task[s].registered /\ task'[s].name = task[s].name
        BY <1>2, <3>3 DEF SetPeriod, TypeOK, Tcb
      <4>2. QED
        BY <2>1, <3>1, <4>1
    <3>4. QED
      BY <2>5, <3>2, <3>3
  <2>6. ASSUME NEW s \in Slot,
               StopTask(s, "INACTIVE") \/ StopTask(s, "SUSPENDED") \/ Resume(s) \/ RunNow(s)
        PROVE  UniqueNames'
    BY <2>2, <2>6 DEF StopTask, Resume, RunNow, StartRun, SetState
  <2>7. CASE Tick
    BY <2>1, <2>2, <2>7 DEF Tick, StartRun, SetState, FirstDue, Due, Registered
  <2>8. ASSUME NEW overrun \in Overruns, Return(overrun)
        PROVE  UniqueNames'
    <3>1. stack[Len(stack)] \in Slot
      BY <1>2, <2>8, PoppedExecuting DEF Return, TypeOK
    <3>2. \A s \in Slot : task'[s].registered = task[s].registered /\ task'[s].name = task[s].name
      BY <1>2, <2>8, <3>1 DEF Return, TypeOK, Tcb
    <3>3. QED
      BY <2>1, <3>2
  <2>9. CASE Start \/ Stop \/ UNCHANGED vars
    BY <2>1, <2>9 DEF Start, Stop, vars
  <2>10. QED
    BY <1>2, <2>3, <2>4, <2>5, <2>6, <2>7, <2>8, <2>9 DEF Next
<1>3. TypeOK /\ UniqueNames /\ [Next]_vars => UniqueNames'
  BY <1>2
<1>4. QED
  BY <1>1, <1>3, TypeCorrect, PTL DEF Spec

-----------------------------------------------------------------------------
(* A task stopped from outside is not on the stack, where its own return   *)
(* would make it ready.                                                    *)
StoppedInv == StopHolds /\ \A s \in Executing : stopped[s] # "outside"

LEMMA StoppedStartRun ==
  ASSUME TypeOK, StoppedInv, NEW s \in Slot, StartRun(s),
         stopped'[s] = "no", \A t \in Slot \ {s} : stopped'[t] = stopped[t]
  PROVE  StoppedInv'
<1>1. Executing' = Executing \union {s}
  BY PushedExecuting DEF TypeOK, StartRun
<1>2. \A t \in Slot \ {s} : task'[t] = task[t]
  BY DEF TypeOK, StartRun, SetState
<1>3. Executing \subseteq Slot
  <2>1. \A i \in DOMAIN stack : stack[i] \in Slot
    BY DEF TypeOK
  <2>2. QED
    BY <2>1 DEF Executing
<1>4. QED
  BY <1>1, <1>2, <1>3 DEF StoppedInv, StopHolds

(***************************************************************************)
(* A task that is disabled or suspended is not made ready by the ticks,    *)
(* nested runs, resumes and returns that follow, its own and those of      *)
(* others, except by the return of the run in which it was stopped         *)
(* (scheduler.c:624), however deep that is.                                *)
(***************************************************************************)
THEOREM StopHoldsHolds == Spec => []StopHolds
<1>1. Init => StoppedInv
  BY DEF Init, StoppedInv, StopHolds, Executing
<1>2. ASSUME TypeOK, StoppedInv, [Next]_vars
      PROVE  StoppedInv'
  <2> USE <1>2 DEF StoppedInv, StopHolds, TypeOK
  <2>0. StoppedType /\ Executing \subseteq Slot
    <3>1. \A i \in DOMAIN stack : stack[i] \in Slot
      OBVIOUS
    <3>2. QED
      BY <3>1 DEF StoppedType, Executing
  <2>1. ASSUME NEW n \in Name, NEW p \in Periods, NEW o \in Offsets, NEW on \in BOOLEAN,
               Register(n, p, o, on)
        PROVE  StoppedInv'
    <3>1. PICK f \in Free : (\A t \in Slot \ {f} : task'[t] = task[t]) /\ Undone(f)
      BY <2>1 DEF Register, Free
    <3>2. Executing' = Executing
      BY <2>1 DEF Register, Executing
    <3>3. QED
      BY <2>0, <3>1, <3>2, UndoneType DEF Free
  <2>2. ASSUME NEW s \in Slot, Unregister(s) \/ Enable(s)
        PROVE  StoppedInv'
    <3>1. (\A t \in Slot \ {s} : task'[t] = task[t]) /\ Undone(s)
      BY <2>2 DEF Unregister, Enable
    <3>2. Executing' = Executing
      BY <2>2 DEF Unregister, Enable, Executing
    <3>3. QED
      BY <2>0, <3>1, <3>2, UndoneType
  <2>3. ASSUME NEW s \in Slot, NEW state \in {"INACTIVE", "SUSPENDED"}, StopTask(s, state)
        PROVE  StoppedInv'
    <3>1. task'[s].state = state /\ \A t \in Slot \ {s} : task'[t] = task[t]
      BY <2>3 DEF StopTask, SetState, Tcb
    <3>2. Executing' = Executing
      BY <2>3 DEF StopTask, Executing
    <3>3. /\ \A t \in Slot \ {s} : stopped'[t] = stopped[t]
          /\ stopped'[s] = "outside" => s \notin Executing
      BY <2>0, <2>3 DEF StopTask, StoppedType
    <3>4. QED
      BY <2>0, <3>1, <3>2, <3>3
  <2>4. ASSUME NEW s \in Slot, Resume(s)
        PROVE  StoppedInv'
    <3>1. (\A t \in Slot \ {s} : task'[t] = task[t]) /\ Undone(s)
      BY <2>4 DEF Resume, Resumable, SetState
    <3>2. Executing' = Executing
      BY <2>4 DEF Resume, Executing
    <3>3. QED
      BY <2>0, <3>1, <3>2, UndoneType
  <2>5. ASSUME NEW s \in Slot, NEW p \in Periods, SetPeriod(s, p)
        PROVE  StoppedInv'
    <3>1. (\A t \in Slot : task'[t].state = task[t].state) /\ stopped' = stopped
      BY <2>5 DEF SetPeriod, Tcb
    <3>2. Executing' = Executing
      BY <2>5 DEF SetPeriod, Executing
    <3>3. QED
      BY <3>1, <3>2
  <2>6. ASSUME NEW s \in Slot, RunNow(s)
        PROVE  StoppedInv'
    BY <2>0, <2>6, StoppedStartRun, UndoneType DEF RunNow
  <2>7. CASE Tick
    <3>1. ASSUME NEW s \in FirstDue(tick'), StartRun(s)
          PROVE  StoppedInv'
      <4>1. s \in Slot /\ task[s].state = "READY"
        BY DEF FirstDue, Due, Registered
      <4>2. stopped' = stopped /\ stopped[s] = "no"
        BY <2>7, <4>1 DEF Tick
      <4>3. QED
        BY <3>1, <4>1, <4>2, StoppedStartRun
    <3>2. CASE UNCHANGED <<task, current, stack>>
      BY <2>7, <3>2 DEF Tick, Executing
    <3>3. QED
      BY <2>7, <3>1, <3>2 DEF Tick
  <2>8. ASSUME NEW overrun \in Overruns, Return(overrun)
        PROVE  StoppedInv'
    <3>1. /\ stack[Len(stack)] \in Slot /\ stack[Len(stack)] \in Executing
          /\ Executing' \subseteq Executing
      BY <2>8, PoppedExecuting DEF Return
    <3>2. \A t \in Slot \ {stack[Len(stack)]} : task'[t] = task[t]
      BY <2>8, <3>1 DEF Return
    <3>3. /\ stopped'[stack[Len(stack)]] = "no"
          /\ \A t \in Slot \ {stack[Len(stack)]} : stopped'[t] = stopped[t]
      BY <2>0, <2>8, <3>1 DEF Return, StoppedType
    <3>4. QED
      BY <2>0, <3>1, <3>2, <3>3
  <2>9. CASE Start \/ Stop \/ UNCHANGED vars
    BY <2>9 DEF Start, Stop, vars, Executing
  <2>10. QED
    BY <2>1, <2>2, <2>3, <2>4, <2>5, <2>6, <2>7, <2>8, <2>9 DEF Next
<1>3. TypeOK /\ StoppedInv /\ [Next]_vars => StoppedInv'
  BY <1>2
<1>4. StoppedInv => StopHolds
  BY DEF StoppedInv
<1>5. QED
  BY <1>1, <1>3, <1>4, TypeCorrect, PTL DEF Spec

(***************************************************************************)
(* The response bound.  While a task s waits, each tick after the one for  *)
(* which it became due gives the processor to a task ahead of it that has  *)
(* not had it since: one that has is not due again for a period, which is  *)
(* longer than s can have waited if s is unhurried.  Those tasks are       *)
(* Served, and there are as many of them as ticks have passed.             *)
(***************************************************************************)
Since(s) == {u \in Slot : task[u].next > task[s].next + task[u].period}
Served(s) == Ahead(s) \cap (Since(s) \union Executing)

Waits(s) == Unhurried(s) => Cardinality(Served(s)) >= tick - task[s].next

(* No run is nested, no counter has wrapped. *)
Quiet ==
  /\ tick + MaxPeriod < TickRange
  /\ Len(stack) <= 1
  /\ \A t \in Executing : task[t].registered /\ task[t].state # "READY"

CalmInv == calm => Quiet /\ \A s \in Due(tick) : Waits(s)

LEMMA SlotsFinite == IsFiniteSet(Slot)
<1>1. IsFiniteSet(0..(Slots-1))
  <2>1. 0 \in Int /\ Slots - 1 \in Int
    BY Numbers
  <2>2. QED
    BY <2>1, FS_Interval
<1>2. QED
  BY <1>1 DEF Slot

LEMMA AheadFinite ==
  ASSUME NEW s \in Slot
  PROVE  /\ IsFiniteSet(Ahead(s)) /\ Cardinality(Ahead(s)) \in Nat
         /\ IsFiniteSet(Ahead(s)') /\ Cardinality(Ahead(s)') \in Nat
<1>1. Ahead(s) \subseteq Slot /\ Ahead(s)' \subseteq Slot
  BY DEF Ahead, Registered
<1>2. QED
  BY <1>1, SlotsFinite, FS_Subset, FS_CardinalityType

LEMMA ServedFinite ==
  ASSUME NEW s \in Slot
  PROVE  /\ IsFiniteSet(Served(s)) /\ Cardinality(Served(s)) \in Nat
         /\ Cardinality(Served(s)) <= Cardinality(Ahead(s))
         /\ IsFiniteSet(Served(s)') /\ Cardinality(Served(s)') \in Nat
<1>1. Served(s) \subseteq Ahead(s) /\ Served(s)' \subseteq Ahead(s)'
  BY DEF Served
<1>2. QED
  BY <1>1, AheadFinite, FS_Subset, FS_CardinalityType

(* The times of a task are numbers, and no time of day is after the range. *)
LEMMA TaskTimes ==
  ASSUME TypeOK, NEW s \in Slot
  PROVE  /\ task[s].next \in Nat /\ task[s].period \in Nat \ {0} /\ tick \in Nat
         /\ task[s].period <= MaxPeriod /\ MaxPeriod \in Nat
         /\ task[s].period \in Periods
<1>1. task[s].next \in 0..(TickRange - 1) /\ task[s].period \in Periods
  BY DEF TypeOK, Tcb
<1>2. \A p \in Periods : p <= MaxPeriod
  BY TableAssumption DEF MaxPeriod
<1>3. \A p \in Periods : p \in Nat \ {0}
  <2>1. \A p \in 1..(TickRange - 1) : p \in Nat \ {0}
    OBVIOUS
  <2>2. QED
    BY <2>1, TableAssumption
<1>4. task[s].next \in Nat /\ tick \in Nat
  BY <1>1 DEF TypeOK
<1>5. MaxPeriod \in Nat
  BY <1>3, Numbers
<1>6. QED
  BY <1>1, <1>2, <1>3, <1>4, <1>5

(* A step in which nobody's name, place or period changes. *)
SamePlaces ==
  \A t \in Slot : /\ task'[t].registered = task[t].registered
                  /\ task'[t].name = task[t].name /\ task'[t].period = task[t].period

LEMMA PlacesKept ==
  ASSUME SamePlaces, NEW s \in Slot
  PROVE  Ahead(s)' = Ahead(s) /\ Unhurried(s)' = Unhurried(s)
<1>1. Registered' = Registered /\ Registered \subseteq Slot
  BY DEF SamePlaces, Registered
<1>2. \A u \in Slot : Before(u, s)' = Before(u, s)
  BY DEF SamePlaces, Before
<1>3. Ahead(s)' = Ahead(s)
  BY <1>1, <1>2 DEF Ahead
<1>4. \A u \in Ahead(s) : task'[u].period = task[u].period
  BY <1>1 DEF SamePlaces, Ahead
<1>5. Unhurried(s)' = Unhurried(s)
  BY <1>3, <1>4 DEF Unhurried
<1>6. QED
  BY <1>3, <1>5

(* A task that waited and loses none of those served goes on waiting. *)
LEMMA StillWaits ==
  ASSUME TypeOK, NEW s \in Slot, Waits(s), Unhurried(s)' => Unhurried(s), tick' = tick,
         task'[s].next = task[s].next, Served(s) \subseteq Served(s)'
  PROVE  Waits(s)'
<1>1. Cardinality(Served(s)) <= Cardinality(Served(s)')
  BY ServedFinite, FS_Subset
<1>2. task[s].next \in Nat /\ tick \in Nat
  BY TaskTimes
<1>3. Unhurried(s)' => Cardinality(Served(s)') >= tick - task[s].next
  BY <1>1, <1>2, ServedFinite DEF Waits
<1>4. QED
  BY <1>3 DEF Waits

(* A task that is only now due has not waited. *)
LEMMA JustDue ==
  ASSUME TypeOK', NEW s \in Slot, task'[s].next = tick'
  PROVE  Waits(s)'
<1>1. tick' \in Nat
  BY DEF TypeOK
<1>2. tick' - task'[s].next = 0
  <2>1. \A a \in Nat : a - a = 0
    OBVIOUS
  <2>2. QED
    BY <1>1, <2>1
<1>3. Cardinality(Served(s)') >= tick' - task'[s].next
  BY <1>2, ServedFinite
<1>4. QED
  BY <1>3 DEF Waits

LEMMA CalmRegister ==
  ASSUME TypeOK, TypeOK', CalmInv, calm',
         NEW n \in Name, NEW p \in Periods, NEW o \in Offsets, NEW on \in BOOLEAN,
         Register(n, p, o, on)
  PROVE  Quiet' /\ \A s \in Due(tick)' : Waits(s)'
<1>1. calm /\ tick + o < TickRange /\ tick' = tick /\ stack' = stack
  BY DEF Register, TypeOK
<1>2. Quiet /\ \A s \in Due(tick) : Waits(s)
  BY <1>1 DEF CalmInv
<1>3. PICK f \in Free :
        /\ \A t \in Slot \ {f} : task'[t] = task[t]
        /\ task'[f].registered /\ task'[f].next = (tick + o) % TickRange
  BY DEF Register, Free, TypeOK
<1>4. task'[f].next = tick + o /\ o \in Nat /\ tick \in Nat
  <2>1. tick \in Nat /\ TickRange \in Nat \ {0}
    BY Numbers DEF TypeOK
  <2>2. o \in Nat
    <3>1. \A x \in 0..(TickRange - 1) : x \in Nat
      OBVIOUS
    <3>2. QED
      BY <3>1, Numbers
  <2>3. tick + o \in 0..(TickRange - 1)
    BY <1>1, <2>1, <2>2
  <2>4. \A x \in 0..(TickRange - 1) : x % TickRange = x
    BY <2>1
  <2>5. QED
    BY <1>3, <2>1, <2>2, <2>3, <2>4
<1>5. Executing' = Executing /\ f \notin Executing /\ f \in Slot /\ f \notin Registered
  BY <1>1, <1>2, <1>3 DEF Executing, Quiet, Free, Registered
<1>6. Executing \subseteq Slot \ {f}
  <2>1. \A i \in DOMAIN stack : stack[i] \in Slot
    BY DEF TypeOK
  <2>2. QED
    BY <1>5, <2>1 DEF Executing
<1>7. Quiet'
  <2>1. \A t \in Executing' : task'[t].registered /\ task'[t].state # "READY"
    BY <1>2, <1>3, <1>5, <1>6 DEF Quiet
  <2>2. QED
    BY <1>1, <1>2, <2>1 DEF Quiet
<1>8. ASSUME NEW s \in Due(tick)'
      PROVE  Waits(s)'
  <2>1. s \in Slot /\ task'[s].next <= tick
    BY <1>1, <1>8 DEF Due, Registered
  <2>2. CASE s = f
    <3>1. task'[s].next = tick'
      BY <1>1, <1>4, <2>1, <2>2
    <3>2. QED
      BY <2>1, <3>1, JustDue
  <2>3. CASE s # f
    <3>1. task'[s] = task[s] /\ s \in Due(tick)
      BY <1>1, <1>3, <1>8, <2>1, <2>3 DEF Due, Registered
    <3>2. \A u \in Slot \ {f} : Before(u, s)' = Before(u, s)
      BY <1>3, <3>1 DEF Before
    <3>3. Registered \subseteq Registered' /\ Registered \subseteq Slot \ {f}
      BY <1>3, <1>5 DEF Registered
    <3>4. Ahead(s) \subseteq Ahead(s)' /\ \A u \in Ahead(s) : task'[u] = task[u]
      BY <1>3, <3>2, <3>3 DEF Ahead
    <3>5. Unhurried(s)' => Unhurried(s)
      <4>1. Cardinality(Ahead(s)) <= Cardinality(Ahead(s)')
        BY <2>1, <3>4, AheadFinite, FS_Subset
      <4>2. \A u \in Ahead(s) : u \in Slot
        BY DEF Ahead, Registered
      <4>3. ASSUME Unhurried(s)', NEW u \in Ahead(s)
            PROVE  task[u].period > Cardinality(Ahead(s))
        <5>1. task'[u].period > Cardinality(Ahead(s)')
          BY <3>4, <4>3 DEF Unhurried
        <5>2. task[u].period \in Nat
          BY <4>2, TaskTimes
        <5>3. QED
          BY <2>1, <3>4, <4>1, <5>1, <5>2, AheadFinite
      <4>4. QED
        BY <4>3 DEF Unhurried
    <3>6. Served(s) \subseteq Served(s)'
      BY <1>5, <3>1, <3>4 DEF Served, Since
    <3>7. QED
      BY <1>1, <1>2, <2>1, <3>1, <3>5, <3>6, StillWaits
  <2>4. QED
    BY <2>2, <2>3
<1>9. QED
  BY <1>7, <1>8

LEMMA CalmStop ==
  ASSUME TypeOK, TypeOK', CalmInv, calm', NEW x \in Slot, NEW state \in {"INACTIVE", "SUSPENDED"},
         StopTask(x, state)
  PROVE  Quiet' /\ \A s \in Due(tick)' : Waits(s)'
<1>1. calm /\ tick' = tick /\ stack' = stack /\ Executing' = Executing
  BY DEF StopTask, Executing
<1>2. Quiet /\ \A s \in Due(tick) : Waits(s)
  BY <1>1 DEF CalmInv
<1>3. /\ \A t \in Slot \ {x} : task'[t] = task[t]
      /\ task'[x].state # "READY" /\ task'[x].next = task[x].next
      /\ task'[x].registered = task[x].registered
      /\ task'[x].name = task[x].name /\ task'[x].period = task[x].period
  BY DEF StopTask, SetState, TypeOK, Tcb
<1>4. SamePlaces /\ \A t \in Slot : task'[t].next = task[t].next
  BY <1>3 DEF SamePlaces
<1>5. Executing \subseteq Slot
  <2>1. \A i \in DOMAIN stack : stack[i] \in Slot
    BY DEF TypeOK
  <2>2. QED
    BY <2>1 DEF Executing
<1>6. Quiet'
  BY <1>1, <1>2, <1>3, <1>4, <1>5 DEF Quiet, SamePlaces
<1>7. ASSUME NEW s \in Due(tick)'
      PROVE  Waits(s)'
  <2>1. s \in Slot /\ s # x /\ s \in Due(tick)
    BY <1>1, <1>3, <1>7 DEF Due, Registered
  <2>2. Ahead(s)' = Ahead(s) /\ Unhurried(s)' = Unhurried(s)
    BY <1>4, <2>1, PlacesKept
  <2>3. Since(s)' = Since(s)
    BY <1>4, <2>1 DEF Since, SamePlaces
  <2>4. Served(s) \subseteq Served(s)'
    BY <1>1, <2>2, <2>3 DEF Served
  <2>5. QED
    BY <1>1, <1>2, <1>4, <2>1, <2>2, <2>4, StillWaits
<1>8. QED
  BY <1>6, <1>7

LEMMA CalmTick ==
  ASSUME TypeOK, TypeOK', CalmInv, calm', Tick
  PROVE  Quiet' /\ \A s \in Due(tick)' : Waits(s)'
<1>1. calm /\ stack = <<>> /\ tick' + MaxPeriod < TickRange
  BY DEF Tick, TypeOK
<1>2. Quiet /\ \A s \in Due(tick) : Waits(s)
  BY <1>1 DEF CalmInv
<1>3. tick' = tick + 1 /\ tick \in Nat
  <2>1. tick \in Nat /\ TickRange \in Nat \ {0} /\ MaxPeriod \in Nat \ {0}
    <3>1. \A p \in 1..(TickRange - 1) : p \in Nat \ {0}
      OBVIOUS
    <3>2. MaxPeriod \in 1..(TickRange - 1)
      BY Numbers
    <3>3. QED
      BY <3>1, <3>2, Numbers DEF TypeOK
  <2>2. tick + 1 \in 0..(TickRange - 1)
    BY <1>2, <2>1 DEF Quiet
  <2>3. \A x \in 0..(TickRange - 1) : x % TickRange = x
    BY <2>1
  <2>4. tick' = (tick + 1) % TickRange
    BY DEF Tick
  <2>5. QED
    BY <2>1, <2>2, <2>3, <2>4
<1>4. Executing = {}
  BY <1>1 DEF Executing
<1>5. CASE UNCHANGED <<task, current, stack>> /\ Due(tick') = {}
  <2>1. Quiet' /\ Due(tick)' = {}
    BY <1>1, <1>2, <1>5 DEF Quiet, Registered, Executing, Due
  <2>2. QED
    BY <2>1
<1>6. ASSUME NEW u \in FirstDue(tick'), StartRun(u)
      PROVE  Quiet' /\ \A s \in Due(tick)' : Waits(s)'
  <2>1. u \in Slot /\ u \in Registered /\ task[u].registered /\ task[u].next <= tick'
    BY <1>6 DEF FirstDue, Due, Registered
  <2>2. Executing' = {u} /\ Len(stack') = 1
    BY <1>1, <1>4, <1>6, <2>1, PushedExecuting DEF StartRun, TypeOK
  <2>3. /\ \A t \in Slot \ {u} : task'[t] = task[t]
        /\ task'[u].state # "READY" /\ task'[u].next = task[u].next
        /\ task'[u].registered = task[u].registered
        /\ task'[u].name = task[u].name /\ task'[u].period = task[u].period
    BY <1>6, <2>1 DEF StartRun, SetState, TypeOK, Tcb
  <2>4. SamePlaces /\ \A t \in Slot : task'[t].next = task[t].next
    BY <2>3 DEF SamePlaces
  <2>5. Quiet'
    <3>1. \A t \in Executing' : task'[t].registered /\ task'[t].state # "READY"
      BY <2>1, <2>2, <2>3
    <3>2. QED
      BY <1>1, <2>2, <3>1 DEF Quiet
  <2>6. ASSUME NEW s \in Due(tick)'
        PROVE  Waits(s)'
    <3>1. s \in Slot /\ s # u /\ task'[s] = task[s] /\ s \in Registered
          /\ task[s].state = "READY" /\ task[s].next <= tick'
      BY <2>3, <2>6 DEF Due, Registered
    <3>2. task[s].next \in Nat /\ task[u].next \in Nat /\ task[u].period \in Nat
      BY <2>1, <3>1, TaskTimes
    <3>3. CASE task[s].next = tick'
      BY <3>1, <3>3, JustDue
    <3>4. ASSUME task[s].next <= tick, Unhurried(s)'
          PROVE  Cardinality(Served(s)') >= tick' - task'[s].next
      <4>1. Ahead(s)' = Ahead(s) /\ Unhurried(s)
        BY <2>4, <3>1, <3>4, PlacesKept
      <4>2. Cardinality(Served(s)) >= tick - task[s].next
        BY <1>2, <3>1, <3>4, <4>1 DEF Due, Waits
      <4>3. u \in Ahead(s)
        <5>1. s \in Due(tick')
          BY <3>1 DEF Due
        <5>2. QED
          BY <1>6, <2>1, <3>1, <5>1 DEF FirstDue, Ahead
      <4>4. u \notin Served(s)
        <5>1. task[u].period > Cardinality(Ahead(s))
          BY <4>1, <4>3 DEF Unhurried
        <5>2. tick - task[s].next <= Cardinality(Ahead(s))
          BY <1>3, <3>1, <3>2, <4>2, ServedFinite, AheadFinite
        <5>3. ~(task[u].next > task[s].next + task[u].period)
          BY <1>3, <2>1, <3>1, <3>2, <5>1, <5>2, AheadFinite
        <5>4. QED
          BY <1>4, <5>3 DEF Served, Since
      <4>5. Since(s)' = Since(s)
        BY <2>4, <3>1 DEF Since, SamePlaces
      <4>6. Served(s)' = Served(s) \union {u}
        BY <1>4, <2>2, <4>1, <4>3, <4>5 DEF Served
      <4>7. Cardinality(Served(s)') = Cardinality(Served(s)) + 1
        BY <3>1, <4>4, <4>6, ServedFinite, FS_AddElement
      <4>8. QED
        BY <1>3, <3>1, <3>2, <4>2, <4>7, ServedFinite
    <3>5. task[s].next = tick' \/ task[s].next <= tick
      BY <1>3, <3>1, <3>2
    <3>6. QED
      BY <3>3, <3>4, <3>5 DEF Waits
  <2>7. QED
    BY <2>5, <2>6
<1>7. QED
  BY <1>5, <1>6 DEF Tick

(* The stack of executing tasks is one of slots.                             *)
LEMMA StackOfSlots ==
  ASSUME TypeOK
  PROVE  stack \in Seq(Slot)
  BY DEF TypeOK

(* The positions of a stack of one run, and of one of none.                  *)
LEMMA Positions ==
  ASSUME NEW S, NEW q \in Seq(S)
  PROVE  (Len(q) = 1 => DOMAIN q = {1}) /\ (Len(q) = 0 => DOMAIN q = {})
OBVIOUS

LEMMA CalmReturn ==
  ASSUME TypeOK, TypeOK', CalmInv, calm', NEW overrun \in Overruns, Return(overrun)
  PROVE  Quiet' /\ \A s \in Due(tick)' : Waits(s)'
<1> DEFINE x == stack[Len(stack)]
<1>1. calm /\ stack # <<>> /\ tick' = tick /\ tick \in Nat
  BY DEF Return, TypeOK
<1>2. Quiet /\ \A s \in Due(tick) : Waits(s)
  BY <1>1 DEF CalmInv
<1>3. Len(stack) = 1
  <2>1. Len(stack) \in Nat /\ Len(stack) # 0
    BY <1>1 DEF TypeOK
  <2>2. Len(stack) <= 1
    BY <1>2 DEF Quiet
  <2>3. \A n \in Nat : n # 0 /\ n <= 1 => n = 1
    OBVIOUS
  <2>4. QED
    BY <2>1, <2>2, <2>3, Zenon
<1>4. /\ x \in Slot /\ x \in Executing /\ Executing = {x}
      /\ Executing' = {} /\ Len(stack') = 0
  <2>1. x \in Slot /\ x \in Executing /\ Len(stack') = 0 /\ stack' \in Seq(Slot)
    BY <1>1, <1>3, PoppedExecuting DEF Return, TypeOK
  <2>2. DOMAIN stack = {1} /\ DOMAIN stack' = {}
    <3>1. stack \in Seq(Slot)
      BY StackOfSlots, ZenonT(60)
    <3>2. QED
      BY <1>3, <2>1, <3>1, Positions, Zenon
  <2>3. QED
    BY <1>3, <2>1, <2>2 DEF Executing
<1>5. /\ \A t \in Slot \ {x} : task'[t] = task[t]
      /\ task'[x].registered = task[x].registered
      /\ task'[x].name = task[x].name /\ task'[x].period = task[x].period
      /\ task'[x].next = NextRun(x)
  BY <1>4 DEF Return, TypeOK, Tcb
<1>6. SamePlaces
  BY <1>5 DEF SamePlaces
<1>7. task[x].period \in Nat \ {0} /\ task'[x].next = tick + task[x].period
  <2>1. /\ task[x].period \in Nat \ {0} /\ task[x].period <= MaxPeriod /\ MaxPeriod \in Nat
    BY <1>4, TaskTimes
  <2>2. TickRange \in Nat \ {0}
    BY Numbers
  <2>3. tick + task[x].period \in 0..(TickRange - 1)
    BY <1>1, <1>2, <2>1, <2>2 DEF Quiet
  <2>4. \A y \in 0..(TickRange - 1) : y % TickRange = y
    BY <2>2
  <2>5. NextRun(x) = tick + task[x].period
    BY <2>3, <2>4 DEF NextRun
  <2>6. QED
    BY <1>5, <2>1, <2>5
<1>8. Quiet'
  BY <1>1, <1>2, <1>4 DEF Quiet
<1> HIDE DEF x
<1>9. ASSUME NEW s \in Due(tick)'
      PROVE  Waits(s)'
  <2>1. s \in Slot /\ task'[s].registered /\ task'[s].state = "READY" /\ task'[s].next <= tick
    BY <1>1, <1>9 DEF Due, Registered
  <2>2. s # x
    <3>1. ~(task'[x].next <= tick)
      BY <1>1, <1>7
    <3>2. QED
      BY <2>1, <3>1
  <2>3. task'[s] = task[s] /\ s \in Due(tick)
    BY <1>5, <2>1, <2>2 DEF Due, Registered
  <2>4. task[s].next \in Nat /\ task[s].next <= tick
    BY <2>1, <2>3, TaskTimes
  <2>5. CASE task[s].next = tick
    BY <1>1, <2>1, <2>3, <2>5, JustDue
  <2>6. CASE task[s].next < tick
    <3>1. Ahead(s)' = Ahead(s) /\ Unhurried(s)' = Unhurried(s)
      BY <1>6, <2>1, PlacesKept
    <3>2. x \in Since(s)'
      <4>1. task'[x].next > task'[s].next + task'[x].period
        BY <1>1, <1>5, <1>7, <2>3, <2>4, <2>6
      <4>2. QED
        BY <1>4, <4>1 DEF Since
    <3>3. Since(s) \subseteq Since(s)'
      BY <1>5, <2>3, <3>2 DEF Since
    <3>4. Served(s) \subseteq Served(s)'
      BY <1>4, <3>1, <3>2, <3>3 DEF Served
    <3>5. QED
      BY <1>1, <1>2, <2>1, <2>3, <3>1, <3>4, StillWaits
  <2>7. QED
    BY <1>1, <2>4, <2>5, <2>6
<1>10. QED
  BY <1>8, <1>9

LEMMA CalmStep ==
  ASSUME TypeOK, TypeOK', CalmInv, [Next]_vars
  PROVE  CalmInv'
<1>1. SUFFICES ASSUME calm'
               PROVE  Quiet' /\ \A s \in Due(tick)' : Waits(s)'
  BY DEF CalmInv
<1>2. ASSUME NEW n \in Name, NEW p \in Periods, NEW o \in Offsets, NEW on \in BOOLEAN,
             Register(n, p, o, on)
      PROVE  Quiet' /\ \A s \in Due(tick)' : Waits(s)'
  BY <1>1, <1>2, CalmRegister
<1>3. ASSUME NEW s \in Slot, NEW state \in {"INACTIVE", "SUSPENDED"}, StopTask(s, state)
      PROVE  Quiet' /\ \A t \in Due(tick)' : Waits(t)'
  BY <1>1, <1>3, CalmStop
<1>4. CASE Tick
  BY <1>1, <1>4, CalmTick
<1>5. ASSUME NEW overrun \in Overruns, Return(overrun)
      PROVE  Quiet' /\ \A s \in Due(tick)' : Waits(s)'
  BY <1>1, <1>5, CalmReturn
<1>6. CASE UNCHANGED <<task, tick, stack, calm>>
  <2>1. SamePlaces
    BY <1>6 DEF SamePlaces
  <2>2. Quiet /\ Executing' = Executing /\ Due(tick)' = Due(tick)
    BY <1>1, <1>6 DEF CalmInv, Quiet, Executing, Due, Registered
  <2>3. Quiet'
    BY <1>6, <2>2 DEF Quiet
  <2>4. ASSUME NEW s \in Due(tick)
        PROVE  Waits(s)'
    <3>1. s \in Slot
      BY DEF Due, Registered
    <3>2. Ahead(s)' = Ahead(s) /\ Unhurried(s)' = Unhurried(s)
      BY <2>1, <3>1, PlacesKept
    <3>3. Served(s) \subseteq Served(s)'
      BY <1>6, <2>2, <3>2 DEF Served, Since
    <3>4. QED
      BY <1>1, <1>6, <3>1, <3>2, <3>3, StillWaits DEF CalmInv
  <2>5. QED
    BY <2>2, <2>3, <2>4
<1>7. CASE Start
  BY <1>1, <1>6, <1>7 DEF Start, TypeOK
<1>8. QED
  BY <1>1, <1>2, <1>3, <1>4, <1>5, <1>6, <1>7
     DEF Next, vars, Unregister, Enable, Resume, SetPeriod, RunNow, Stop

(***************************************************************************)
(* A due task waits for at most as many ticks as there are tasks before it *)
(* in the order of priority, provided that each of their periods is longer *)
(* than their number.  The shortest period is ten ticks and the table has  *)
(* sixteen slots (scheduler.h), so this is promised to the first ten tasks *)
(* of any table; the others can starve.                                    *)
(***************************************************************************)
THEOREM ResponseBoundedHolds == Spec => []ResponseBounded
<1>1. ASSUME Init
      PROVE  CalmInv
  <2>1. Quiet
    <3>1. MaxPeriod \in 1..(TickRange - 1) /\ TickRange \in Nat
      BY Numbers
    <3>2. 0 + MaxPeriod < TickRange
      BY <3>1
    <3>3. stack = <<>> /\ tick = 0 /\ Executing = {}
      BY <1>1 DEF Init, Executing
    <3>4. QED
      BY <3>2, <3>3 DEF Quiet
  <2>2. Due(tick) = {}
    BY <1>1, UnusedType DEF Init, Due, Registered
  <2>3. QED
    BY <2>1, <2>2 DEF CalmInv
<1>2. ASSUME TypeOK, CalmInv
      PROVE  ResponseBounded
  <2>1. ASSUME calm, NEW s \in Due(tick), Unhurried(s)
        PROVE  tick - task[s].next <= Cardinality(Ahead(s))
    <3>1. s \in Slot /\ Waits(s)
      BY <1>2, <2>1 DEF CalmInv, Due, Registered
    <3>2. task[s].next \in Nat /\ tick \in Nat
      BY <1>2, <3>1, TaskTimes
    <3>3. Cardinality(Served(s)) >= tick - task[s].next
      BY <2>1, <3>1 DEF Waits
    <3>4. QED
      BY <3>1, <3>2, <3>3, ServedFinite, AheadFinite
  <2>2. QED
    BY <2>1 DEF ResponseBounded
<1>3. TypeOK /\ TypeOK' /\ CalmInv /\ [Next]_vars => CalmInv'
  BY CalmStep
<1>4. QED
  BY <1>1, <1>2, <1>3, TypeCorrect, PTL DEF Spec
=============================================================================
