----------------------------- MODULE FlightMain -----------------------------
(***************************************************************************)
(* The flight program's control loop (main.c) with the fault recovery it   *)
(* calls (fault_mgmt.c), over the EPS of EpsControl.                       *)
(*                                                                         *)
(* Each iteration integrates the battery, chooses a power mode, checks the *)
(* software watchdog, tries to leave SAFE mode every RecoveryPeriod        *)
(* iterations, runs the health check when it is due, and now and then      *)
(* saves the configuration.  The process may be killed between any two     *)
(* file writes and started again.                                          *)
(***************************************************************************)
EXTENDS EpsControl

CONSTANTS
  SafeSoc,          \* EPS_SOC_SAFE_THRESHOLD
  HealthSoc,        \* the 0.30 of monitor_system_health
  IdleSoc,          \* EPS_SOC_IDLE_THRESHOLD
  FullSoc,          \* a full battery (1.0)
  InitSoc,          \* initial value of s_soc
  Charge,           \* charge gained by one sunlit iteration
  DischargeOn,      \* charge lost by one eclipse iteration, payload on
  DischargeOff,     \* ... payload off
  OrbitTicks,       \* iterations per orbit (180)
  SunlitTicks,      \* sunlit iterations per orbit (100)
  Iterations,       \* MAIN_LOOP_ITERATIONS
  RecoveryPeriod,   \* iterations between attempts to leave SAFE mode (50)
  PersistPeriod,    \* PERSISTENCE_INTERVAL_TICKS
  HealthInterval,   \* HEALTH_CHECK_INTERVAL_MS
  WatchdogTimeout,  \* SMART_QSO_WATCHDOG_TIMEOUT_MS
  ClockSteps,       \* how far the wall clock may move during one iteration
  CanOverheat,      \* may an eps_temperature sensor read more than 40 degrees?
  CanCrash          \* may the process be killed at any point?

ASSUME ThresholdsAssumption ==
  /\ {SafeSoc, HealthSoc, IdleSoc, PayloadSoc, FullSoc, InitSoc} \subseteq Nat
  /\ {Charge, DischargeOn, DischargeOff} \subseteq Nat
  /\ SafeSoc <= HealthSoc
  /\ HealthSoc <= IdleSoc
  /\ IdleSoc <= PayloadSoc
  /\ InitSoc <= FullSoc

ASSUME PeriodsAssumption ==
  /\ {OrbitTicks, RecoveryPeriod, PersistPeriod} \subseteq Nat \ {0}
  /\ {SunlitTicks, Iterations, HealthInterval, WatchdogTimeout} \subseteq Nat
  /\ HealthInterval > 0
  /\ ClockSteps \subseteq Int

ASSUME FileAssumption ==
  /\ NoFile \notin EpsConfig
  /\ Torn \notin EpsConfig
  /\ {DiskCanFail, CanOverheat, CanCrash} \subseteq BOOLEAN

VARIABLES
  at,               \* where the program is
  tick,             \* the loop counter
  soc,              \* s_soc
  sunlit,           \* s_sunlit
  current_mode,     \* the local of update_mission_state
  sinceHealth,      \* now - s_last_health_check_ms
  sinceWatchdog,    \* now - s_last_watchdog_reset_ms
  triggered,        \* s_watchdog_triggered
  uart,             \* uart_is_initialized()
  shutdown          \* s_shutdown_requested

loopVars == <<tick, soc, sunlit, current_mode>>
clockVars == <<sinceHealth, sinceWatchdog, triggered>>
vars == <<epsVars, at, loopVars, clockVars, uart, shutdown>>

Location == {"off", "update", "watch", "health", "thermal", "power", "comm",
             "persist", "sleep", "exit"}

-----------------------------------------------------------------------------
(* The program is at location l, and no EPS call is running. *)
At(l) == at = l /\ EpsReturned

(***************************************************************************)
(* Elapsed times are differences of unsigned 64-bit readings of the wall   *)
(* clock: when the clock is set back, the difference wraps to a huge value *)
(* and every interval looks expired.                                       *)
(***************************************************************************)
AtLeast(elapsed, interval) == elapsed < 0 \/ elapsed >= interval
MoreThan(elapsed, interval) == elapsed < 0 \/ elapsed > interval

(* Mutant: only an empty battery is clamped. *)
Clamped_Low(charge) == IF charge < 0 THEN 0 ELSE charge

Clamped(charge) ==
  IF charge > FullSoc THEN FullSoc ELSE IF charge < 0 THEN 0 ELSE charge

(* Mutant: nothing is shed on a low battery. *)
TargetMode_NoIdle(lit, charge, mode) ==
  IF charge < SafeSoc THEN SAFE
  ELSE IF lit /\ charge > PayloadSoc THEN ACTIVE
  ELSE mode

(* The mode update_mission_state asks for; mode itself is "no change". *)
TargetMode(lit, charge, mode) ==
  IF charge < SafeSoc THEN SAFE
  ELSE IF charge < IdleSoc THEN (IF mode > IDLE THEN IDLE ELSE mode)
  ELSE IF lit /\ charge > PayloadSoc THEN ACTIVE
  ELSE mode

(***************************************************************************)
(* init_system, then the loop is entered.  s_soc starts from its static    *)
(* initialiser whatever the battery was when the last process ended.       *)
(***************************************************************************)
Boot ==
  /\ at = "off"
  /\ at' = "update"
  /\ LoadConfig
  /\ tick' = 0
  /\ soc' = InitSoc
  /\ sunlit' = TRUE
  /\ current_mode' = IDLE
  /\ sinceHealth' = 0
  /\ sinceWatchdog' = 0
  /\ triggered' = FALSE
  /\ uart' \in BOOLEAN
  /\ shutdown' = FALSE

(* update_mission_state down to the choice of the mode. *)
UpdateMode ==
  /\ At("update")
  /\ tick < Iterations
  /\ ~shutdown
  /\ LET lit == tick % OrbitTicks < SunlitTicks
         drain == IF PayloadOn THEN DischargeOn ELSE DischargeOff
         charge == Clamped(IF lit THEN soc + Charge ELSE soc - drain)
     IN /\ sunlit' = lit
        /\ soc' = charge
        /\ current_mode' = eps.mode
        /\ SetPowerMode(TargetMode(lit, charge, eps.mode))
  /\ at' = "watch"
  /\ UNCHANGED <<tick, clockVars, uart, shutdown>>

(***************************************************************************)
(* The rest of update_mission_state: the software watchdog, and the        *)
(* attempt to leave SAFE mode, which tests the mode read before            *)
(* UpdateMode changed it.                                                  *)
(***************************************************************************)
RecoverySelected ==
  /\ tick % RecoveryPeriod = 0
  /\ current_mode = SAFE
  /\ soc > IdleSoc

CheckWatchdog ==
  IF MoreThan(sinceWatchdog, WatchdogTimeout)
  THEN triggered' = TRUE /\ sinceWatchdog' = 0
  ELSE UNCHANGED <<triggered, sinceWatchdog>>

WatchAndRecover ==
  /\ At("watch")
  /\ at' = "health"
  /\ CheckWatchdog
  /\ IF RecoverySelected THEN SetPowerMode(IDLE) ELSE UNCHANGED epsVars
  /\ UNCHANGED <<loopVars, sinceHealth, uart, shutdown>>

(***************************************************************************)
(* monitor_system_health.  fault_recover_thermal acts only on a powered    *)
(* payload, and switches it off before it asks for IDLE mode.              *)
(***************************************************************************)
SkipHealthCheck ==
  /\ At("health")
  /\ ~AtLeast(sinceHealth, HealthInterval)
  /\ at' = "persist"
  /\ UNCHANGED <<epsVars, loopVars, clockVars, uart, shutdown>>

CheckThermal ==
  /\ At("health")
  /\ AtLeast(sinceHealth, HealthInterval)
  /\ sinceHealth' = 0
  /\ \/ /\ CanOverheat /\ PayloadOn
        /\ Control("payload", FALSE, soc)
        /\ at' = "thermal"
     \/ /\ UNCHANGED <<eps, epsFile, saving>>
        /\ at' = "power"
  /\ UNCHANGED <<call, loopVars, sinceWatchdog, triggered, uart, shutdown>>

RecoverThermal ==
  /\ At("thermal")
  /\ SetPowerMode(IDLE)
  /\ at' = "power"
  /\ UNCHANGED <<loopVars, clockVars, uart, shutdown>>

(* fault_recover_power, preceded by a mutant that tests the thresholds in   *)
(* the wrong order.                                                        *)
FaultRecoverPower_IdleFirst ==
  IF soc < IdleSoc THEN SetPowerMode(IDLE) ELSE UNCHANGED epsVars

FaultRecoverPower ==
  IF soc < SafeSoc THEN SetPowerMode(SAFE)
  ELSE IF soc < IdleSoc THEN SetPowerMode(IDLE)
  ELSE UNCHANGED epsVars

CheckPower ==
  /\ At("power")
  /\ IF soc < HealthSoc THEN FaultRecoverPower ELSE UNCHANGED epsVars
  /\ at' = "comm"
  /\ UNCHANGED <<loopVars, clockVars, uart, shutdown>>

(* Mutant: the watchdog is not kicked. *)
CheckComm_NoKick ==
  /\ At("comm")
  /\ uart' \in IF PayloadOn /\ ~uart THEN BOOLEAN ELSE {uart}
  /\ at' = "persist"
  /\ UNCHANGED <<epsVars, loopVars, clockVars, shutdown>>

(* The link to a powered payload is opened again; the watchdog is kicked. *)
CheckComm ==
  /\ At("comm")
  /\ uart' \in IF PayloadOn /\ ~uart THEN BOOLEAN ELSE {uart}
  /\ sinceWatchdog' = 0
  /\ at' = "persist"
  /\ UNCHANGED <<epsVars, loopVars, sinceHealth, triggered, shutdown>>

(* Telemetry and the link check, either of which may lose the link for     *)
(* good, then the periodic save.                                           *)
Persist ==
  /\ At("persist")
  /\ uart' \in IF uart THEN BOOLEAN ELSE {FALSE}
  /\ IF tick % PersistPeriod = 0
     THEN BeginSave ELSE UNCHANGED <<epsFile, saving>>
  /\ at' = "sleep"
  /\ UNCHANGED <<eps, call, loopVars, clockVars, shutdown>>

Sleep ==
  /\ At("sleep")
  /\ \E d \in ClockSteps :
       /\ sinceHealth' = sinceHealth + d
       /\ sinceWatchdog' = sinceWatchdog + d
  /\ tick' = tick + 1
  /\ at' = "update"
  /\ UNCHANGED <<epsVars, soc, sunlit, current_mode, triggered, uart, shutdown>>

(* shutdown_system, after the last iteration or a signal. *)
LeaveLoop ==
  /\ At("update")
  /\ tick >= Iterations \/ shutdown
  /\ BeginSave
  /\ at' = "exit"
  /\ UNCHANGED <<eps, call, loopVars, clockVars, uart, shutdown>>

Exit ==
  /\ At("exit")
  /\ at' = "off"
  /\ LoseRam
  /\ uart' = FALSE
  /\ UNCHANGED <<epsFile, loopVars, clockVars, shutdown>>

(* One statement of a running EPS call. *)
EpsStep ==
  /\ at # "off"
  /\ \/ FinishSave
     \/ \E s \in Subsystem : SwitchLoad(s, soc)
     \/ FinishMode
  /\ UNCHANGED <<at, loopVars, clockVars, uart, shutdown>>

(* SIGINT or SIGTERM. *)
Signal ==
  /\ at # "off"
  /\ shutdown' = TRUE
  /\ UNCHANGED <<epsVars, at, loopVars, clockVars, uart>>

(* The process is killed, or the board loses power. *)
Crash ==
  /\ CanCrash
  /\ at # "off"
  /\ at' = "off"
  /\ LoseRam
  /\ uart' = FALSE
  /\ UNCHANGED <<epsFile, loopVars, clockVars, shutdown>>

Init ==
  /\ EpsInit
  /\ at = "off"
  /\ tick = 0
  /\ soc = InitSoc
  /\ sunlit = TRUE
  /\ current_mode = IDLE
  /\ sinceHealth = 0
  /\ sinceWatchdog = 0
  /\ triggered = FALSE
  /\ uart = FALSE
  /\ shutdown = FALSE

Program ==
  \/ UpdateMode \/ WatchAndRecover
  \/ SkipHealthCheck \/ CheckThermal \/ RecoverThermal \/ CheckPower \/ CheckComm
  \/ Persist \/ Sleep \/ LeaveLoop \/ Exit
  \/ EpsStep

Next == Program \/ Boot \/ Signal \/ Crash

Spec == Init /\ [][Next]_vars

(* A running single-threaded program keeps executing; nobody promises that *)
(* it is started again, signalled or killed.                               *)
FairSpec == Spec /\ WF_vars(Program)

-----------------------------------------------------------------------------
(* What the variables may hold. *)
TypeOK ==
  /\ EpsTypeOK
  /\ at \in Location
  /\ tick \in 0 .. Iterations
  /\ soc \in 0 .. FullSoc
  /\ sunlit \in BOOLEAN
  /\ current_mode \in PowerMode
  /\ sinceHealth \in Int
  /\ sinceWatchdog \in Int
  /\ triggered \in BOOLEAN
  /\ uart \in BOOLEAN
  /\ shutdown \in BOOLEAN

(* This iteration's battery level has been used to choose the mode. *)
Decided == at \notin {"off", "update", "exit"}

(***************************************************************************)
(* The payload is powered only in ACTIVE mode: in memory except while      *)
(* eps_set_power_mode has assigned the mode and not yet reached the        *)
(* payload's switch, and in every configuration that is ever in the file,  *)
(* wherever the process is killed.                                         *)
(***************************************************************************)
PayloadOnlyInActive ==
  /\ call # "payload" /\ PayloadOn => eps.mode = ACTIVE
  /\ epsFile \in EpsConfig /\ "payload" \in epsFile.on => epsFile.mode = ACTIVE

(***************************************************************************)
(* Once an iteration has chosen its mode on a battery below the IDLE       *)
(* threshold, the payload is off for the rest of the iteration, whatever   *)
(* the health check does and whatever a crash left in the file.            *)
(***************************************************************************)
LowSocShedsPayload ==
  Decided /\ call # "payload" /\ soc < IdleSoc => ~PayloadOn

(***************************************************************************)
(* After the mode has been chosen on a critical battery the mode is SAFE:  *)
(* neither the attempt to leave SAFE mode nor fault recovery undoes the    *)
(* choice.                                                                 *)
(***************************************************************************)
CriticalSocMeansSafe ==
  Decided /\ soc < SafeSoc => eps.mode = SAFE

(***************************************************************************)
(* Outside eps_set_power_mode the switches and the limit are the ones of   *)
(* the mode, if the process is never killed and the disk never fails       *)
(* (between a thermal shutdown of the payload and the mode change that     *)
(* follows it, they are not).                                              *)
(***************************************************************************)
SwitchesMatchMode ==
  EpsReturned /\ at \notin {"off", "thermal"} => eps = ModeConfig(eps.mode)

(***************************************************************************)
(* Whenever no EPS call is running, a reset would come back with the       *)
(* configuration in force: the file holds it, or has never been written    *)
(* whole and the defaults are in force.                                    *)
(***************************************************************************)
RestartKeepsConfig ==
  at # "off" /\ EpsReturned =>
    \/ epsFile = eps
    \/ epsFile \in {NoFile, Torn} /\ eps = DefaultConfig

(***************************************************************************)
(* The software watchdog never reports a timeout as long as one iteration  *)
(* takes no longer than the watchdog's timeout less the interval between   *)
(* the health checks that kick it, and the clock is never set back.        *)
(***************************************************************************)
PromptClock == ClockSteps \subseteq 0 .. (WatchdogTimeout - HealthInterval)
NoFalseWatchdog == PromptClock => ~triggered

(***************************************************************************)
(* A battery found critical gets all loads but the beacon switched off and *)
(* the SAFE limit in force, unless the battery recovers first.             *)
(***************************************************************************)
CriticalSocShedsLoads ==
  (Decided /\ soc < SafeSoc) ~> (eps = ModeConfig(SAFE) \/ soc >= SafeSoc)

(***************************************************************************)
(* The configuration and its file are a durable value: whatever writes     *)
(* fail and wherever the process ends, it starts again with a              *)
(* configuration that was in force when it was saved, or with the          *)
(* defaults; on a disk that does not fail every call leaves its result in  *)
(* the file.                                                               *)
(***************************************************************************)
StoredConfig == IF epsFile \in EpsConfig THEN epsFile ELSE DefaultConfig

Durable == INSTANCE DurableValue
  WITH Value <- EpsConfig, Default <- DefaultConfig, Reliable <- ~DiskCanFail,
       on <- at # "off", copy <- StoredConfig,
       current <- IF at = "off" THEN StoredConfig ELSE eps,
       pending <- at # "off" /\ ~EpsReturned

ConfigIsDurable == Durable!Spec

(* A shutdown request ends the process with the configuration in the file. *)
ShutdownSaves ==
  [][Exit /\ ~DiskCanFail => epsFile' = eps]_vars
=============================================================================
