----------------------------- MODULE WatchdogMgr -----------------------------
(***************************************************************************)
(* The watchdog manager (watchdog_mgr.c) over the simulated hardware       *)
(* watchdog (hal_sim.c).  Tasks report; a kick from the main loop looks at *)
(* most once per interval for tasks that have not, and logs a stall.  The  *)
(* hardware is kicked whatever the tasks do.                               *)
(*                                                                         *)
(* Time appears as ages, which stop counting where nothing distinguishes   *)
(* them any more.  The clock is never set back.                            *)
(***************************************************************************)
EXTENDS FaultLog, FiniteSets

CONSTANTS
  WdTask,           \* WdtTaskId_t
  WdPeriods,        \* expected periods
  CheckInterval,    \* WDT_TASK_CHECK_INTERVAL_MS
  MissThreshold,    \* WDT_TASK_MISS_THRESHOLD
  HwTimeout,        \* WDT_HW_TIMEOUT_MS
  StallRange        \* task_stalls_detected counts modulo this

WdMaxPeriod == CHOOSE p \in WdPeriods : \A q \in WdPeriods : q <= p
WdMaxAge == WdMaxPeriod + CheckInterval * MissThreshold

ASSUME WatchdogAssumption ==
  /\ WdPeriods \subseteq Nat \ {0}
  /\ \E p \in WdPeriods : \A q \in WdPeriods : q <= p
  /\ {CheckInterval, MissThreshold, HwTimeout, StallRange} \subseteq Nat \ {0}
  /\ CheckInterval <= WdMaxAge
  /\ IsFiniteSet(WdTask)

VARIABLES
  wdEntry,      \* s_tasks, last_checkin_ms as an age
  wdReady,      \* s_initialized
  wdCheckAge,   \* now - s_last_task_check_ms
  wdStalls,     \* task_stalls_detected
  hwWdt         \* hal_sim.c: initialised, running, age of the last kick

wdVars == <<wdEntry, wdReady, wdCheckAge, wdStalls, hwWdt>>

WdtTaskEntry == [active : BOOLEAN, period : WdPeriods, age : 0..WdMaxAge,
                 misses : 0..MissThreshold, stalled : BOOLEAN]

Cleared == [active |-> FALSE, period |-> WdMaxPeriod, age |-> WdMaxAge,
            misses |-> 0, stalled |-> FALSE]

Older(age, limit) == IF age < limit THEN age + 1 ELSE limit

-----------------------------------------------------------------------------
(* hal_wdt_init, hal_wdt_start and hal_wdt_kick. *)
HwInit == hwWdt' = [hwWdt EXCEPT !.ready = TRUE]
HwStart == hwWdt' = [hwWdt EXCEPT !.running = hwWdt.ready, !.age = 0]
HwKick == hwWdt' = IF hwWdt.running THEN [hwWdt EXCEPT !.age = 0] ELSE hwWdt

(* hal_wdt_remaining_ms. *)
HwRemaining == IF hwWdt.running THEN HwTimeout - hwWdt.age ELSE HwTimeout

-----------------------------------------------------------------------------
WdInit ==
  /\ wdEntry = [t \in WdTask |-> Cleared]
  /\ wdReady = FALSE
  /\ wdCheckAge = WdMaxAge
  /\ wdStalls = 0
  /\ hwWdt = [ready |-> FALSE, running |-> FALSE, age |-> 0]

(* wdt_mgr_init, also while the hardware runs. *)
WdInitialize ==
  /\ wdEntry' = [t \in WdTask |-> Cleared]
  /\ wdReady' = TRUE
  /\ wdCheckAge' = WdMaxAge
  /\ wdStalls' = 0
  /\ HwInit
  /\ UNCHANGED faultVars

WdStart ==
  /\ wdReady
  /\ HwStart
  /\ wdCheckAge' = 0
  /\ UNCHANGED <<wdEntry, wdReady, wdStalls, faultVars>>

(* A task that missed its period. *)
Missed(t) == wdEntry[t].active /\ wdEntry[t].age > wdEntry[t].period

(* check_task_watchdogs on one entry. *)
Checked(t) ==
  LET e == wdEntry[t]
      misses == IF e.misses < MissThreshold THEN e.misses + 1 ELSE MissThreshold
  IN  IF ~e.active THEN e
      ELSE IF Missed(t)
      THEN [e EXCEPT !.misses = misses, !.stalled = (@ \/ misses = MissThreshold)]
      ELSE [e EXCEPT !.misses = 0, !.stalled = FALSE]

Stalling == {t \in WdTask : Missed(t) /\ ~wdEntry[t].stalled /\ Checked(t).stalled}

CheckTasks ==
  /\ wdEntry' = [t \in WdTask |-> Checked(t)]
  /\ wdStalls' = (wdStalls + Cardinality(Stalling)) % StallRange
  /\ LogFaults(Cardinality(Stalling))
  /\ wdCheckAge' = 0

Kick ==
  /\ wdReady
  /\ HwKick
  /\ IF wdCheckAge >= CheckInterval
     THEN CheckTasks
     ELSE UNCHANGED <<wdEntry, wdCheckAge, wdStalls, faultVars>>
  /\ UNCHANGED wdReady

RegisterTask(t, period) ==
  /\ wdEntry' = [wdEntry EXCEPT ![t] =
       [active |-> TRUE, period |-> period, age |-> 0, misses |-> 0, stalled |-> FALSE]]
  /\ UNCHANGED <<wdReady, wdCheckAge, wdStalls, hwWdt, faultVars>>

(* The entry keeps its stall. *)
UnregisterTask(t) ==
  /\ wdEntry' = [wdEntry EXCEPT ![t].active = FALSE]
  /\ UNCHANGED <<wdReady, wdCheckAge, wdStalls, hwWdt, faultVars>>

(* Mutant: a report does not start the misses again. *)
CheckIn_KeepMisses(t) ==
  /\ wdEntry[t].active
  /\ wdEntry' = [wdEntry EXCEPT ![t].age = 0, ![t].stalled = FALSE]
  /\ UNCHANGED <<wdReady, wdCheckAge, wdStalls, hwWdt, faultVars>>

CheckIn(t) ==
  /\ wdEntry[t].active
  /\ wdEntry' = [wdEntry EXCEPT ![t].age = 0, ![t].misses = 0, ![t].stalled = FALSE]
  /\ UNCHANGED <<wdReady, wdCheckAge, wdStalls, hwWdt, faultVars>>

(* hw_wdt_warning_handler on a board that has the warning: a fault is      *)
(* logged, then the computer is reset.  wdt_mgr_force_reset logs in the    *)
(* same way, kicks no more and comes to this end.                          *)
ImminentReset ==
  /\ hwWdt.running
  /\ HwRemaining = 0
  /\ wdEntry' = [t \in WdTask |-> Cleared]
  /\ wdReady' = FALSE
  /\ wdCheckAge' = WdMaxAge
  /\ wdStalls' = 0
  /\ hwWdt' = [ready |-> FALSE, running |-> FALSE, age |-> 0]
  /\ LogFaults(1)

WdTick ==
  /\ wdEntry' = [t \in WdTask |-> [wdEntry[t] EXCEPT !.age = Older(@, WdMaxAge)]]
  /\ wdCheckAge' = Older(wdCheckAge, WdMaxAge)
  /\ hwWdt' = [hwWdt EXCEPT !.age = IF hwWdt.running THEN Older(@, HwTimeout) ELSE @]
  /\ UNCHANGED <<wdReady, wdStalls, faultVars>>

WdNext ==
  \/ WdInitialize
  \/ WdStart
  \/ Kick
  \/ \E t \in WdTask :
       \/ \E p \in WdPeriods : RegisterTask(t, p)
       \/ UnregisterTask(t)
       \/ CheckIn(t)
  \/ ImminentReset
  \/ WdTick

-----------------------------------------------------------------------------
WdTypeOK ==
  /\ wdEntry \in [WdTask -> WdtTaskEntry]
  /\ wdReady \in BOOLEAN
  /\ wdCheckAge \in 0..WdMaxAge
  /\ wdStalls \in 0..(StallRange - 1)
  /\ hwWdt \in [ready : BOOLEAN, running : BOOLEAN, age : 0..HwTimeout]

(***************************************************************************)
(* A task declared stalled has been silent for more than its period and    *)
(* the whole intervals between the checks that found it late, however      *)
(* kicks, re-registrations and restarts of the manager fall.               *)
(***************************************************************************)
NoFalseStall ==
  \A t \in WdTask : wdEntry[t].stalled =>
    wdEntry[t].age > wdEntry[t].period + CheckInterval * (MissThreshold - 1)
=============================================================================
