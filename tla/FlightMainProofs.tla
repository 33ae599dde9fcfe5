-------------------------- MODULE FlightMainProofs --------------------------
(***************************************************************************)
(* Theorems about FlightMain for every battery, orbit, period and clock.   *)
(***************************************************************************)
EXTENDS FlightMain, TLAPS

-----------------------------------------------------------------------------
(* Mode changes and switch commands keep the types of the EPS state.       *)
LEMMA SetPowerModeType ==
  ASSUME EpsTypeOK, NEW m \in PowerMode, SetPowerMode(m)
  PROVE  EpsTypeOK'
BY DEF EpsTypeOK, SetPowerMode, EpsConfig, Stage, epsVars

LEMMA ControlType ==
  ASSUME EpsTypeOK, NEW s \in Subsystem, NEW b \in BOOLEAN, NEW charge,
         Control(s, b, charge)
  PROVE  /\ eps' \in EpsConfig
         /\ epsFile' \in EpsConfig \union {NoFile, Torn}
         /\ saving' \in BOOLEAN
<1>1. /\ eps \in EpsConfig
      /\ eps.on \union {s} \in SUBSET Subsystem
      /\ eps.on \ {s} \in SUBSET Subsystem
  BY DEF EpsTypeOK, EpsConfig
<1>2. \A S \in SUBSET Subsystem : [eps EXCEPT !.on = S] \in EpsConfig
  BY <1>1 DEF EpsConfig
<1>3. \/ UNCHANGED <<eps, epsFile, saving>>
      \/ /\ \/ eps' = [eps EXCEPT !.on = eps.on \union {s}]
            \/ eps' = [eps EXCEPT !.on = eps.on \ {s}]
         /\ BeginSave
  BY DEF Control
<1>4. QED
  BY <1>1, <1>2, <1>3 DEF EpsTypeOK, BeginSave

LEMMA EpsStepType ==
  ASSUME EpsTypeOK, EpsStep
  PROVE  EpsTypeOK'
<1>1. CASE FinishSave
  BY <1>1 DEF FinishSave, EpsTypeOK
<1>2. ASSUME NEW s \in Subsystem, SwitchLoad(s, soc)
      PROVE  EpsTypeOK'
  <2>1. (s \in Loads(eps.mode)) \in BOOLEAN
    OBVIOUS
  <2>2. StageAfter(s) \in Stage
    BY DEF StageAfter, Stage, Subsystem
  <2>3. QED
    BY <1>2, <2>1, <2>2, ControlType DEF SwitchLoad, EpsTypeOK
<1>3. CASE FinishMode
  BY <1>3 DEF FinishMode, BeginSave, EpsTypeOK, EpsConfig, Limit, Stage
<1>4. QED
  BY <1>1, <1>2, <1>3 DEF EpsStep

LEMMA TargetModeType ==
  ASSUME NEW lit, NEW charge, NEW m \in PowerMode
  PROVE  TargetMode(lit, charge, m) \in PowerMode
BY DEF TargetMode, PowerMode, SAFE, IDLE, ACTIVE

LEMMA ClampedType ==
  ASSUME NEW charge \in Int
  PROVE  Clamped(charge) \in 0 .. FullSoc
BY ThresholdsAssumption DEF Clamped

(* The body of the loop runs only for iterations below the bound. *)
TickInLoop ==
  at \in {"watch", "health", "thermal", "power", "comm", "persist", "sleep"}
    => tick < Iterations

LEMMA DefaultType ==
  /\ SAFE \in PowerMode
  /\ IDLE \in PowerMode
  /\ DefaultConfig \in EpsConfig
BY DEF PowerMode, SAFE, IDLE, ACTIVE, DefaultConfig, EpsConfig, ModeConfig,
       Limit, Loads, Subsystem

(* The types hold whatever the constants are. *)
THEOREM TypeCorrect == Spec => []TypeOK
<1>1. Init => TypeOK /\ TickInLoop
  <2>1. EpsInit => EpsTypeOK
    BY DefaultType DEF EpsInit, EpsTypeOK, Stage
  <2>2. Init => /\ EpsInit
                /\ {sunlit, triggered, uart, shutdown} \subseteq BOOLEAN
                /\ at \in Location
                /\ TickInLoop
    BY DEF Init, Location, TickInLoop
  <2>3. Init => /\ tick \in 0 .. Iterations
                /\ soc \in 0 .. FullSoc
                /\ sinceHealth \in Int
                /\ sinceWatchdog \in Int
                /\ current_mode \in PowerMode
    BY ThresholdsAssumption, PeriodsAssumption, DefaultType DEF Init
  <2>4. QED
    BY <2>1, <2>2, <2>3 DEF TypeOK
<1>2. TypeOK /\ TickInLoop /\ [Next]_vars => TypeOK' /\ TickInLoop'
  <2> SUFFICES ASSUME TypeOK, TickInLoop, [Next]_vars
               PROVE  TypeOK' /\ TickInLoop'
    OBVIOUS
  <2> USE DEF TypeOK, TickInLoop, Location, loopVars, clockVars, At
  <2>1. CASE UpdateMode
    <3>0. eps.mode \in PowerMode
      BY DEF EpsTypeOK, EpsConfig
    <3>1. EpsTypeOK'
      BY <2>1, <3>0, TargetModeType, SetPowerModeType DEF UpdateMode
    <3>2. soc' \in 0 .. FullSoc
      <4>1. soc + Charge \in Int /\ soc - DischargeOn \in Int
            /\ soc - DischargeOff \in Int
        BY ThresholdsAssumption
      <4>2. QED
        BY <2>1, <4>1, ClampedType DEF UpdateMode
    <3>3. sunlit' \in BOOLEAN
      BY <2>1 DEF UpdateMode
    <3>4. QED
      BY <2>1, <3>0, <3>1, <3>2, <3>3 DEF UpdateMode
  <2>2. CASE WatchAndRecover
    <3>1. EpsTypeOK'
      BY <2>2, DefaultType, SetPowerModeType
         DEF WatchAndRecover, EpsTypeOK, epsVars
    <3>2. triggered' \in BOOLEAN
      BY <2>2, Zenon DEF WatchAndRecover, CheckWatchdog
    <3>3. sinceWatchdog' \in Int
      BY <2>2 DEF WatchAndRecover, CheckWatchdog
    <3>4. QED
      BY <2>2, <3>1, <3>2, <3>3 DEF WatchAndRecover
  <2>3. CASE SkipHealthCheck
    BY <2>3 DEF SkipHealthCheck, EpsTypeOK, epsVars
  <2>4. CASE CheckThermal
    <3>1. EpsTypeOK'
      BY <2>4, ControlType DEF CheckThermal, EpsTypeOK, Subsystem
    <3>2. at' \in {"thermal", "power"} /\ tick' = tick /\ tick < Iterations
      BY <2>4 DEF CheckThermal
    <3>3. QED
      BY <2>4, <3>1, <3>2 DEF CheckThermal
  <2>5. CASE RecoverThermal
    BY <2>5, DefaultType, SetPowerModeType DEF RecoverThermal
  <2>6. CASE CheckPower
    <3>1. EpsTypeOK'
      BY <2>6, DefaultType, SetPowerModeType
         DEF CheckPower, FaultRecoverPower, EpsTypeOK, epsVars
    <3>2. QED
      BY <2>6, <3>1 DEF CheckPower
  <2>7. CASE CheckComm
    BY <2>7 DEF CheckComm, EpsTypeOK, epsVars
  <2>8. CASE Persist
    BY <2>8 DEF Persist, BeginSave, EpsTypeOK
  <2>9. CASE Sleep
    BY <2>9, PeriodsAssumption DEF Sleep, EpsTypeOK, epsVars
  <2>10. CASE LeaveLoop
    BY <2>10 DEF LeaveLoop, BeginSave, EpsTypeOK
  <2>11. CASE Exit
    BY <2>11, DefaultType DEF Exit, LoseRam, EpsTypeOK, Stage
  <2>12. CASE EpsStep
    <3>1. EpsTypeOK'
      BY <2>12, EpsStepType
    <3>2. UNCHANGED <<at, loopVars, clockVars, uart, shutdown>>
      BY <2>12 DEF EpsStep
    <3>3. QED
      BY <3>1, <3>2
  <2>13. CASE Boot
    <3>1. EpsTypeOK'
      BY <2>13, DefaultType DEF Boot, LoadConfig, EpsTypeOK, Stage
    <3>2. /\ {sunlit', triggered', uart', shutdown'} \subseteq BOOLEAN
          /\ at' \in Location
          /\ TickInLoop'
      BY <2>13 DEF Boot
    <3>3. /\ tick' \in 0 .. Iterations
          /\ soc' \in 0 .. FullSoc
          /\ sinceHealth' \in Int
          /\ sinceWatchdog' \in Int
          /\ current_mode' \in PowerMode
      BY <2>13, ThresholdsAssumption, PeriodsAssumption, DefaultType DEF Boot
    <3>4. QED
      BY <3>1, <3>2, <3>3
  <2>14. CASE Signal
    BY <2>14 DEF Signal, EpsTypeOK, epsVars
  <2>15. CASE Crash
    BY <2>15, DefaultType DEF Crash, LoseRam, EpsTypeOK, Stage
  <2>16. CASE UNCHANGED vars
    BY <2>16 DEF vars, EpsTypeOK, epsVars
  <2>17. QED
    BY <2>1, <2>2, <2>3, <2>4, <2>5, <2>6, <2>7, <2>8, <2>9, <2>10, <2>11,
       <2>12, <2>13, <2>14, <2>15, <2>16
       DEF Next, Program
<1>3. QED
  BY <1>1, <1>2, PTL DEF Spec

-----------------------------------------------------------------------------
(***************************************************************************)
(* PayloadOnlyInActive is inductive once it is known that no file write is *)
(* under way while the payload's switch lags behind the mode.              *)
(***************************************************************************)
LagIsNotSaved == call = "payload" => ~saving

PayloadInv == PayloadOnlyInActive /\ LagIsNotSaved

(* An EPS call that is still running sets the payload's switch by the mode. *)
LEMMA EpsStepPayload ==
  ASSUME TypeOK, PayloadInv, EpsStep
  PROVE  PayloadInv'
<1> USE DEF PayloadInv, PayloadOnlyInActive, LagIsNotSaved, PayloadOn
<1>0. eps \in EpsConfig /\ NoFile \notin EpsConfig /\ Torn \notin EpsConfig
  BY FileAssumption DEF TypeOK, EpsTypeOK
<1>1. CASE FinishSave
  BY <1>1, <1>0 DEF FinishSave
<1>2. ASSUME SwitchLoad("payload", soc)
      PROVE  PayloadInv'
  <2>1. "payload" \in Loads(eps.mode) => eps.mode = ACTIVE
    BY <1>0 DEF Loads, EpsConfig, PowerMode, SAFE, IDLE, ACTIVE
  <2>2. /\ "payload" \in eps'.on => "payload" \in Loads(eps.mode)
        /\ eps'.mode = eps.mode
    BY <1>2, <1>0 DEF SwitchLoad, Control, EpsConfig
  <2>3. call' = "radio"
    BY <1>2 DEF SwitchLoad, StageAfter
  <2>4. epsFile' \in {epsFile, Torn}
    BY <1>2 DEF SwitchLoad, Control, BeginSave
  <2>5. QED
    BY <2>1, <2>2, <2>3, <2>4, <1>0
<1>3. ASSUME NEW s \in Subsystem \ {"payload"}, SwitchLoad(s, soc)
      PROVE  PayloadInv'
  <2>1. eps'.mode = eps.mode /\ ("payload" \in eps'.on <=> "payload" \in eps.on)
    BY <1>3, <1>0 DEF SwitchLoad, Control, EpsConfig
  <2>2. call # "payload" /\ call' # "payload"
    BY <1>3 DEF SwitchLoad, StageAfter, Subsystem
  <2>3. epsFile' \in {epsFile, Torn}
    BY <1>3 DEF SwitchLoad, Control, BeginSave
  <2>4. QED
    BY <2>1, <2>2, <2>3, <1>0
<1>4. CASE FinishMode
  <2>1. eps'.mode = eps.mode /\ eps'.on = eps.on
    BY <1>4, <1>0 DEF FinishMode, EpsConfig
  <2>2. QED
    BY <1>4, <2>1, <1>0 DEF FinishMode, BeginSave
<1>5. QED
  BY <1>1, <1>2, <1>3, <1>4 DEF EpsStep

(* A mode change begins with the payload's switch lagging. *)
LEMMA SetPowerModePayload ==
  ASSUME TypeOK, PayloadInv, EpsReturned, NEW m \in PowerMode, SetPowerMode(m)
  PROVE  PayloadInv'
BY DEF PayloadInv, PayloadOnlyInActive, LagIsNotSaved, PayloadOn, EpsReturned,
       SetPowerMode, epsVars

LEMMA SamePayload ==
  ASSUME PayloadInv, UNCHANGED epsVars
  PROVE  PayloadInv'
BY DEF PayloadInv, PayloadOnlyInActive, LagIsNotSaved, PayloadOn, epsVars

(* Neither the defaults nor a configuration from the file breaks the rule. *)
LEMMA DefaultPayload ==
  "payload" \notin DefaultConfig.on
BY DEF DefaultConfig, ModeConfig, Loads, SAFE, IDLE

LEMMA PayloadNext == TypeOK /\ PayloadInv /\ [Next]_vars => PayloadInv'
<1> SUFFICES ASSUME TypeOK, PayloadInv, [Next]_vars
             PROVE  PayloadInv'
  OBVIOUS
<1>0. /\ eps \in EpsConfig /\ eps.mode \in PowerMode
      /\ NoFile \notin EpsConfig /\ Torn \notin EpsConfig
  BY FileAssumption DEF TypeOK, EpsTypeOK, EpsConfig
<1>1. CASE UpdateMode
  BY <1>0, <1>1, TargetModeType, SetPowerModePayload DEF UpdateMode, At
<1>2. CASE WatchAndRecover
  BY <1>2, DefaultType, SetPowerModePayload, SamePayload
     DEF WatchAndRecover, At
<1>3. CASE SkipHealthCheck \/ CheckComm \/ Sleep \/ Signal
  BY <1>3, SamePayload DEF SkipHealthCheck, CheckComm, Sleep, Signal
<1>4. CASE CheckThermal
  <2>1. eps'.on \subseteq eps.on /\ eps'.mode = eps.mode
    BY <1>0, <1>4 DEF CheckThermal, Control, EpsConfig
  <2>2. call' = call /\ call = "none" /\ epsFile' \in {epsFile, Torn}
    BY <1>4 DEF CheckThermal, Control, BeginSave, At, EpsReturned
  <2>3. QED
    BY <1>0, <2>1, <2>2
       DEF PayloadInv, PayloadOnlyInActive, LagIsNotSaved, PayloadOn
<1>5. CASE RecoverThermal
  BY <1>5, DefaultType, SetPowerModePayload DEF RecoverThermal, At
<1>6. CASE CheckPower
  BY <1>6, DefaultType, SetPowerModePayload, SamePayload
     DEF CheckPower, FaultRecoverPower, At
<1>7. CASE Persist \/ LeaveLoop
  <2>1. eps' = eps /\ call' = call /\ call = "none" /\ epsFile' \in {epsFile, Torn}
    BY <1>7 DEF Persist, LeaveLoop, BeginSave, At, EpsReturned
  <2>2. QED
    BY <1>0, <2>1
       DEF PayloadInv, PayloadOnlyInActive, LagIsNotSaved, PayloadOn
<1>8. CASE Exit \/ Crash
  BY <1>8, DefaultPayload
     DEF Exit, Crash, LoseRam, PayloadInv, PayloadOnlyInActive, LagIsNotSaved,
         PayloadOn
<1>9. CASE EpsStep
  BY <1>9, EpsStepPayload
<1>10. CASE Boot
  BY <1>10, DefaultPayload
     DEF Boot, LoadConfig, PayloadInv, PayloadOnlyInActive, LagIsNotSaved,
         PayloadOn
<1>11. CASE UNCHANGED vars
  BY <1>11, SamePayload DEF vars
<1>12. QED
  BY <1>1, <1>2, <1>3, <1>4, <1>5, <1>6, <1>7, <1>8, <1>9, <1>10, <1>11
     DEF Next, Program

(* The payload is never powered outside ACTIVE mode, not even by the       *)
(* configuration found after a crash at any point.                         *)
THEOREM PayloadOnlyInActiveHolds == Spec => []PayloadOnlyInActive
<1>1. Init => PayloadInv
  BY FileAssumption, DefaultPayload
     DEF Init, EpsInit, PayloadInv, PayloadOnlyInActive, LagIsNotSaved, PayloadOn
<1>2. TypeOK /\ PayloadInv /\ [Next]_vars => PayloadInv'
  BY PayloadNext
<1>3. PayloadInv => PayloadOnlyInActive
  BY DEF PayloadInv
<1>4. QED
  BY <1>1, <1>2, <1>3, TypeCorrect, PTL DEF Spec

-----------------------------------------------------------------------------
(***************************************************************************)
(* What the choice of the mode guarantees for the rest of the iteration.   *)
(***************************************************************************)
ShedInv ==
  /\ Decided => /\ soc < SafeSoc => eps.mode = SAFE
                /\ soc < IdleSoc => eps.mode # ACTIVE
  /\ at = "thermal" => soc >= IdleSoc

(* No step of a running EPS call changes the mode. *)
LEMMA EpsStepMode ==
  ASSUME TypeOK, EpsStep
  PROVE  eps'.mode = eps.mode /\ soc' = soc /\ at' = at
<1>0. eps \in EpsConfig
  BY DEF TypeOK, EpsTypeOK
<1>1. CASE FinishSave
  BY <1>1 DEF FinishSave, EpsStep, loopVars
<1>2. ASSUME NEW s \in Subsystem, SwitchLoad(s, soc)
      PROVE  eps'.mode = eps.mode
  BY <1>0, <1>2 DEF SwitchLoad, Control, EpsConfig
<1>3. ASSUME FinishMode
      PROVE  eps'.mode = eps.mode
  BY <1>0, <1>3 DEF FinishMode, EpsConfig
<1>4. QED
  BY <1>1, <1>2, <1>3 DEF EpsStep, loopVars

LEMMA SetPowerModeMode ==
  ASSUME TypeOK, NEW m \in PowerMode, SetPowerMode(m)
  PROVE  eps'.mode = m
BY DEF TypeOK, EpsTypeOK, EpsConfig, SetPowerMode, epsVars

(* A hot payload is a powered one, so the mode was ACTIVE and the battery  *)
(* not low when the payload was switched off.                              *)
LEMMA ShedNext == TypeOK /\ PayloadInv /\ ShedInv /\ [Next]_vars => ShedInv'
<1> SUFFICES ASSUME TypeOK, PayloadInv, ShedInv, [Next]_vars
             PROVE  ShedInv'
  OBVIOUS
<1> USE DEF ShedInv, Decided, At, loopVars
<1>0. /\ eps \in EpsConfig /\ eps.mode \in PowerMode /\ soc \in Int
      /\ {SafeSoc, IdleSoc, PayloadSoc} \subseteq Int
      /\ SafeSoc <= IdleSoc /\ IdleSoc <= PayloadSoc
  BY ThresholdsAssumption DEF TypeOK, EpsTypeOK, EpsConfig
<1>1. CASE UpdateMode
  <2>1. soc' \in Int
    <3>1. soc + Charge \in Int /\ soc - DischargeOn \in Int
          /\ soc - DischargeOff \in Int
      BY <1>0, ThresholdsAssumption
    <3>2. QED
      BY <1>1, <3>1, ClampedType DEF UpdateMode
  <2>2. SetPowerMode(TargetMode(sunlit', soc', eps.mode))
    BY <1>1 DEF UpdateMode
  <2>3. eps'.mode = TargetMode(sunlit', soc', eps.mode)
    BY <1>0, <2>2, TargetModeType, SetPowerModeMode
  <2>4. at' = "watch"
    BY <1>1 DEF UpdateMode
  <2>5. /\ soc' < SafeSoc => eps'.mode = SAFE
        /\ soc' < IdleSoc => eps'.mode # ACTIVE
    BY <1>0, <2>1, <2>3 DEF TargetMode, PowerMode, SAFE, IDLE, ACTIVE
  <2>6. QED
    BY <2>4, <2>5
<1>2. CASE WatchAndRecover
  <2>1. CASE RecoverySelected
    <3>1. soc > IdleSoc /\ soc' = soc /\ at' = "health"
      BY <1>2, <2>1 DEF WatchAndRecover, RecoverySelected
    <3>2. ~(soc < IdleSoc) /\ ~(soc < SafeSoc)
      BY <1>0, <3>1
    <3>3. QED
      BY <3>1, <3>2
  <2>2. CASE ~RecoverySelected
    BY <1>2, <2>2 DEF WatchAndRecover, epsVars
  <2>3. QED
    BY <2>1, <2>2
<1>3. CASE SkipHealthCheck \/ CheckComm
  BY <1>3 DEF SkipHealthCheck, CheckComm, epsVars
<1>4. CASE CheckThermal
  <2>1. eps'.mode = eps.mode /\ soc' = soc
    BY <1>0, <1>4 DEF CheckThermal, Control, EpsConfig
  <2>2. PayloadOn => soc >= IdleSoc
    BY <1>0, <1>4 DEF CheckThermal, EpsReturned, PayloadInv, PayloadOnlyInActive
  <2>3. CASE at' = "thermal"
    <3>1. PayloadOn
      BY <1>4, <2>3 DEF CheckThermal
    <3>2. QED
      BY <1>0, <1>4, <2>1, <2>2, <2>3, <3>1 DEF CheckThermal
  <2>4. CASE at' = "power"
    BY <1>4, <2>1, <2>4 DEF CheckThermal
  <2>5. QED
    BY <1>4, <2>3, <2>4 DEF CheckThermal
<1>5. CASE RecoverThermal
  <2>1. soc' = soc /\ soc >= IdleSoc /\ at' = "power"
    BY <1>5 DEF RecoverThermal
  <2>2. QED
    BY <1>0, <2>1
<1>6. CASE CheckPower
  <2>1. soc' = soc /\ at = "power"
    BY <1>6 DEF CheckPower
  <2>2. CASE soc < HealthSoc
    <3>1. soc < SafeSoc => eps'.mode = SAFE
      BY <1>6, <2>2, DefaultType, SetPowerModeMode
         DEF CheckPower, FaultRecoverPower
    <3>2. soc >= SafeSoc /\ soc < IdleSoc => eps'.mode = IDLE
      BY <1>0, <1>6, <2>2, DefaultType, SetPowerModeMode
         DEF CheckPower, FaultRecoverPower
    <3>3. SAFE # ACTIVE /\ IDLE # ACTIVE
      BY DEF SAFE, IDLE, ACTIVE
    <3>4. at' = "comm" /\ soc \in Int /\ SafeSoc \in Int
      BY <1>0, <1>6 DEF CheckPower
    <3>5. QED
      BY <2>1, <3>1, <3>2, <3>3, <3>4
  <2>3. CASE ~(soc < HealthSoc)
    BY <1>6, <2>1, <2>3 DEF CheckPower, epsVars
  <2>4. QED
    BY <2>2, <2>3
<1>7. CASE Persist
  BY <1>7 DEF Persist
<1>8. CASE Sleep \/ LeaveLoop \/ Exit \/ Boot \/ Crash
  BY <1>8 DEF Sleep, LeaveLoop, Exit, Boot, Crash
<1>9. CASE EpsStep
  BY <1>9, EpsStepMode
<1>10. CASE Signal
  BY <1>10 DEF Signal, epsVars
<1>11. CASE UNCHANGED vars
  BY <1>11 DEF vars, epsVars
<1>12. QED
  BY <1>1, <1>2, <1>3, <1>4, <1>5, <1>6, <1>7, <1>8, <1>9, <1>10, <1>11
     DEF Next, Program

(* A critical battery puts the satellite in SAFE mode in the very iteration *)
(* that sees it, and nothing later in that iteration takes it out.          *)
THEOREM CriticalSocMeansSafeHolds == Spec => []CriticalSocMeansSafe
<1>1. Init => PayloadInv /\ ShedInv
  BY FileAssumption, DefaultPayload
     DEF Init, EpsInit, PayloadInv, PayloadOnlyInActive, LagIsNotSaved, PayloadOn,
         ShedInv, Decided
<1>2. TypeOK /\ PayloadInv /\ [Next]_vars => PayloadInv'
  BY PayloadNext
<1>3. ShedInv => CriticalSocMeansSafe
  BY DEF ShedInv, CriticalSocMeansSafe
<1>4. QED
  BY <1>1, <1>2, <1>3, ShedNext, TypeCorrect, PTL DEF Spec

(* On a battery below the IDLE threshold the payload is off for the whole  *)
(* rest of the iteration, whatever a crash left in the file.               *)
THEOREM LowSocShedsPayloadHolds == Spec => []LowSocShedsPayload
<1>1. Init => PayloadInv /\ ShedInv
  BY FileAssumption, DefaultPayload
     DEF Init, EpsInit, PayloadInv, PayloadOnlyInActive, LagIsNotSaved, PayloadOn,
         ShedInv, Decided
<1>2. PayloadInv /\ ShedInv => LowSocShedsPayload
  BY DEF PayloadInv, PayloadOnlyInActive, ShedInv, LowSocShedsPayload
<1>3. QED
  BY <1>1, <1>2, PayloadNext, ShedNext, TypeCorrect, PTL DEF Spec

-----------------------------------------------------------------------------
(***************************************************************************)
(* Durability.  The configuration in force differs from the file's only    *)
(* while a call that will write the file has not returned.                 *)
(***************************************************************************)
LEMMA DurableNext ==
  ASSUME ~DiskCanFail, TypeOK, RestartKeepsConfig, [Next]_vars
  PROVE  RestartKeepsConfig'
<1> USE DEF RestartKeepsConfig, EpsReturned, At
<1>1. ASSUME NEW m, SetPowerMode(m), UNCHANGED at \/ at # "off"
      PROVE  RestartKeepsConfig'
  BY <1>1 DEF SetPowerMode, epsVars
<1>2. CASE UpdateMode \/ RecoverThermal
  BY <1>1, <1>2 DEF UpdateMode, RecoverThermal
<1>3. CASE WatchAndRecover \/ CheckPower
  BY <1>1, <1>3 DEF WatchAndRecover, CheckPower, FaultRecoverPower, epsVars
<1>4. CASE SkipHealthCheck \/ CheckComm \/ Sleep \/ Signal
  BY <1>4 DEF SkipHealthCheck, CheckComm, Sleep, Signal, epsVars
<1>5. CASE CheckThermal
  BY <1>5 DEF CheckThermal, Control, BeginSave
<1>6. CASE Persist \/ LeaveLoop
  BY <1>6 DEF Persist, LeaveLoop, BeginSave
<1>7. CASE Exit \/ Crash
  BY <1>7 DEF Exit, Crash
<1>8. CASE EpsStep
  <2>1. CASE FinishSave
    BY <2>1 DEF FinishSave
  <2>2. ASSUME NEW s \in Subsystem, SwitchLoad(s, soc)
        PROVE  call' # "none"
    BY <2>2 DEF SwitchLoad, StageAfter, Subsystem
  <2>3. CASE FinishMode
    BY <2>3 DEF FinishMode, BeginSave
  <2>4. QED
    BY <1>8, <2>1, <2>2, <2>3 DEF EpsStep
<1>9. CASE Boot
  BY <1>9 DEF Boot, LoadConfig, TypeOK, EpsTypeOK
<1>10. CASE UNCHANGED vars
  BY <1>10 DEF vars, epsVars
<1>11. QED
  BY <1>2, <1>3, <1>4, <1>5, <1>6, <1>7, <1>8, <1>9, <1>10 DEF Next, Program

(* On a disk that does not fail, a reset at any moment outside the EPS     *)
(* calls comes back with the configuration that was in force.              *)
THEOREM RestartKeepsConfigHolds ==
  ASSUME ~DiskCanFail
  PROVE  Spec => []RestartKeepsConfig
<1>1. Init => RestartKeepsConfig
  BY DEF Init, RestartKeepsConfig
<1>2. TypeOK /\ RestartKeepsConfig /\ [Next]_vars => RestartKeepsConfig'
  BY DurableNext
<1>3. QED
  BY <1>1, <1>2, TypeCorrect, PTL DEF Spec

(***************************************************************************)
(* The refinement.  A running program leaves the file as it is, empties it *)
(* or writes the configuration in force into it.                           *)
(***************************************************************************)
LEMMA FileFollows ==
  ASSUME TypeOK, [Next]_vars, at # "off"
  PROVE  epsFile' \in {epsFile, Torn, eps}
<1>1. ASSUME NEW m, SetPowerMode(m)
      PROVE  epsFile' = epsFile
  BY <1>1 DEF SetPowerMode, epsVars
<1>2. CASE UpdateMode \/ RecoverThermal
  BY <1>1, <1>2 DEF UpdateMode, RecoverThermal
<1>3. CASE WatchAndRecover \/ CheckPower
  BY <1>1, <1>3 DEF WatchAndRecover, CheckPower, FaultRecoverPower, epsVars
<1>4. CASE SkipHealthCheck \/ CheckComm \/ Sleep \/ Signal
  BY <1>4 DEF SkipHealthCheck, CheckComm, Sleep, Signal, epsVars
<1>5. CASE CheckThermal \/ Persist \/ LeaveLoop
  BY <1>5 DEF CheckThermal, Persist, LeaveLoop, Control, BeginSave
<1>6. CASE Exit \/ Crash \/ Boot
  BY <1>6 DEF Exit, Crash, Boot
<1>7. CASE EpsStep
  BY <1>7 DEF EpsStep, FinishSave, SwitchLoad, FinishMode, Control, BeginSave
<1>8. CASE UNCHANGED vars
  BY <1>8 DEF vars, epsVars
<1>9. QED
  BY <1>2, <1>3, <1>4, <1>5, <1>6, <1>7, <1>8 DEF Next, Program

LEMMA DurableStep ==
  ASSUME TypeOK, TypeOK', [Next]_vars, ~DiskCanFail => RestartKeepsConfig'
  PROVE  [Durable!Next]_Durable!vars
<1>1. Torn \notin EpsConfig /\ NoFile \notin EpsConfig
  BY FileAssumption
<1>2. eps \in EpsConfig /\ eps' \in EpsConfig
  BY DEF TypeOK, EpsTypeOK
<1>3. epsFile' = epsFile => StoredConfig' = StoredConfig
  BY DEF StoredConfig
<1>4. CASE at = "off" /\ at' = "off"
  <2>1. UNCHANGED vars
    BY <1>4 DEF Next, Program, Boot, UpdateMode, WatchAndRecover, SkipHealthCheck, CheckThermal,
                RecoverThermal, CheckPower, CheckComm, Persist, Sleep, LeaveLoop, Exit,
                EpsStep, Signal, Crash, At
  <2>2. epsFile' = epsFile
    BY <2>1 DEF vars, epsVars
  <2>3. QED
    BY <1>3, <1>4, <2>2 DEF Durable!vars
<1>5. CASE at = "off" /\ at' # "off"
  <2>1. Boot
    BY <1>5 DEF Next, Program, UpdateMode, WatchAndRecover, SkipHealthCheck, CheckThermal,
                RecoverThermal, CheckPower, CheckComm, Persist, Sleep, LeaveLoop, Exit,
                EpsStep, Signal, Crash, At, vars
  <2>2. /\ eps' = StoredConfig /\ epsFile' = epsFile
        /\ call' = "none" /\ saving' = FALSE
    BY <2>1 DEF Boot, LoadConfig, StoredConfig
  <2>3. QED
    BY <1>3, <1>5, <2>2 DEF Durable!Next, Durable!Start, EpsReturned
<1>6. CASE at # "off" /\ at' = "off"
  <2>1. epsFile' = epsFile
    <3>1. CASE Exit \/ Crash
      BY <3>1 DEF Exit, Crash
    <3>2. CASE UNCHANGED vars
      BY <3>2 DEF vars, epsVars
    <3>3. QED
      BY <1>6, <3>1, <3>2
         DEF Next, Program, Boot, UpdateMode, WatchAndRecover, SkipHealthCheck, CheckThermal,
             RecoverThermal, CheckPower, CheckComm, Persist, Sleep, LeaveLoop, EpsStep, Signal
  <2>2. QED
    BY <1>3, <1>6, <2>1 DEF Durable!Next, Durable!Stop
<1>7. CASE at # "off" /\ at' # "off"
  <2>1. StoredConfig' \in {StoredConfig, DefaultConfig, eps}
    BY <1>1, <1>2, <1>7, FileFollows DEF StoredConfig
  <2>2. ASSUME ~DiskCanFail, EpsReturned'
        PROVE  StoredConfig' = eps'
    <3>1. epsFile' = eps' \/ (epsFile' \in {NoFile, Torn} /\ eps' = DefaultConfig)
      BY <1>7, <2>2 DEF RestartKeepsConfig
    <3>2. QED
      BY <1>1, <1>2, <3>1 DEF StoredConfig
  <2>3. QED
    BY <1>2, <1>7, <2>1, <2>2 DEF Durable!Next, Durable!Work
<1>8. QED
  BY <1>4, <1>5, <1>6, <1>7

(* The power subsystem with its file, shutdowns and kills implements the   *)
(* abstract durable value, on failing disks as on good ones.               *)
THEOREM ConfigIsDurableHolds == Spec => ConfigIsDurable
<1>1. Init => Durable!Init
  BY FileAssumption DEF Init, EpsInit, Durable!Init, StoredConfig
<1>2. TypeOK /\ TypeOK' /\ [Next]_vars /\ (~DiskCanFail => RestartKeepsConfig')
        => [Durable!Next]_Durable!vars
  BY DurableStep
<1>3. CASE DiskCanFail
  BY <1>1, <1>2, <1>3, TypeCorrect, PTL DEF Spec, ConfigIsDurable, Durable!Spec
<1>4. CASE ~DiskCanFail
  <2>1. Spec => []RestartKeepsConfig
    BY <1>4, RestartKeepsConfigHolds
  <2>2. QED
    BY <1>1, <1>2, <1>4, <2>1, TypeCorrect, PTL DEF Spec, ConfigIsDurable, Durable!Spec
<1>5. QED
  BY <1>3, <1>4

(***************************************************************************)
(* Once the loop is left, nothing but the last save is running, and when   *)
(* it has ended the file of a disk that does not fail holds the            *)
(* configuration in force.                                                 *)
(***************************************************************************)
LastSave ==
  at = "exit" => call = "none" /\ (~saving /\ ~DiskCanFail => epsFile = eps)

LEMMA LastSaveNext ==
  ASSUME LastSave, [Next]_vars
  PROVE  LastSave'
<1> USE DEF LastSave
<1>1. CASE LeaveLoop
  BY <1>1 DEF LeaveLoop, BeginSave, At, EpsReturned
<1>2. CASE EpsStep
  <2>1. ASSUME at = "exit"
        PROVE  FinishSave
    BY <1>2, <2>1 DEF EpsStep, SwitchLoad, FinishMode, Subsystem
  <2>2. QED
    BY <1>2, <2>1 DEF EpsStep, FinishSave
<1>3. CASE Signal \/ UNCHANGED vars
  BY <1>3 DEF Signal, vars, epsVars
<1>4. CASE UpdateMode \/ WatchAndRecover \/ RecoverThermal \/ CheckPower
  BY <1>4 DEF UpdateMode, WatchAndRecover, RecoverThermal, CheckPower
<1>5. CASE SkipHealthCheck \/ CheckThermal \/ CheckComm \/ Persist \/ Sleep
  BY <1>5 DEF SkipHealthCheck, CheckThermal, CheckComm, Persist, Sleep
<1>6. CASE Exit \/ Crash \/ Boot
  BY <1>6 DEF Exit, Crash, Boot
<1>7. QED
  BY <1>1, <1>2, <1>3, <1>4, <1>5, <1>6 DEF Next, Program

(* On a disk that does not fail, a process that leaves through             *)
(* shutdown_system leaves the configuration in force in the file, whatever *)
(* calls, saves and signals came before.                                   *)
THEOREM ShutdownSavesHolds == Spec => ShutdownSaves
<1>1. Init => LastSave
  BY DEF Init, LastSave
<1>2. LastSave /\ [Next]_vars => LastSave'
  BY LastSaveNext
<1>3. LastSave /\ [Next]_vars => [Exit /\ ~DiskCanFail => epsFile' = eps]_vars
  BY DEF LastSave, Exit, At, EpsReturned
<1>4. QED
  BY <1>1, <1>2, <1>3, PTL DEF Spec, ShutdownSaves

-----------------------------------------------------------------------------
(***************************************************************************)
(* The watchdog.  Just before an iteration sleeps, less than a health      *)
(* interval has passed since the last kick; the kick is never older than   *)
(* the last health check, except while a health check runs.                *)
(***************************************************************************)
WatchdogInv ==
  /\ ~triggered
  /\ 0 <= sinceWatchdog /\ sinceWatchdog <= WatchdogTimeout
  /\ at \in {"update", "watch", "health", "persist", "sleep"}
       => sinceWatchdog <= sinceHealth
  /\ at \in {"persist", "sleep"} => sinceHealth < HealthInterval
  /\ at \in {"thermal", "power", "comm"} => sinceHealth = 0

LEMMA WatchdogNext ==
  ASSUME PromptClock, TypeOK, WatchdogInv, [Next]_vars
  PROVE  WatchdogInv'
<1> USE DEF WatchdogInv, At, clockVars
<1>0. /\ sinceHealth \in Int /\ sinceWatchdog \in Int
      /\ HealthInterval \in Nat /\ HealthInterval > 0 /\ WatchdogTimeout \in Nat
  BY PeriodsAssumption DEF TypeOK
<1>1. CASE UpdateMode \/ CheckPower \/ RecoverThermal \/ EpsStep \/ Signal
  BY <1>1 DEF UpdateMode, CheckPower, RecoverThermal, EpsStep, Signal
<1>2. CASE WatchAndRecover
  <2>1. ~MoreThan(sinceWatchdog, WatchdogTimeout)
    BY <1>0 DEF MoreThan
  <2>2. QED
    BY <1>2, <2>1 DEF WatchAndRecover, CheckWatchdog
<1>3. CASE SkipHealthCheck
  BY <1>0, <1>3 DEF SkipHealthCheck, AtLeast
<1>4. CASE CheckThermal
  BY <1>4 DEF CheckThermal
<1>5. CASE CheckComm
  BY <1>0, <1>5 DEF CheckComm
<1>6. CASE Persist
  BY <1>6 DEF Persist
<1>7. CASE Sleep
  <2>1. PICK d \in ClockSteps : /\ sinceHealth' = sinceHealth + d
                                /\ sinceWatchdog' = sinceWatchdog + d
    BY <1>7 DEF Sleep
  <2>2. d \in Int /\ 0 <= d /\ d <= WatchdogTimeout - HealthInterval
    BY <1>0, <2>1 DEF PromptClock
  <2>3. sinceWatchdog <= sinceHealth /\ sinceHealth < HealthInterval
    BY <1>7 DEF Sleep
  <2>4. /\ 0 <= sinceWatchdog' /\ sinceWatchdog' <= WatchdogTimeout
        /\ sinceWatchdog' <= sinceHealth'
    BY <1>0, <2>1, <2>2, <2>3
  <2>5. QED
    BY <1>7, <2>4 DEF Sleep
<1>8. CASE LeaveLoop \/ Exit \/ Crash
  BY <1>8 DEF LeaveLoop, Exit, Crash
<1>9. CASE Boot
  BY <1>0, <1>9 DEF Boot
<1>10. CASE UNCHANGED vars
  BY <1>10 DEF vars
<1>11. QED
  BY <1>1, <1>2, <1>3, <1>4, <1>5, <1>6, <1>7, <1>8, <1>9, <1>10
     DEF Next, Program

(* The software watchdog reports no timeout while the clock only moves     *)
(* forward and no iteration takes longer than the watchdog's timeout less  *)
(* the interval of the health check that kicks it.                         *)
THEOREM NoFalseWatchdogHolds == Spec => []NoFalseWatchdog
<1>1. CASE PromptClock
  <2>1. Init => WatchdogInv
    BY PeriodsAssumption DEF Init, WatchdogInv
  <2>2. TypeOK /\ WatchdogInv /\ [Next]_vars => WatchdogInv'
    BY <1>1, WatchdogNext
  <2>3. WatchdogInv => NoFalseWatchdog
    BY DEF WatchdogInv, NoFalseWatchdog
  <2>4. QED
    BY <2>1, <2>2, <2>3, TypeCorrect, PTL DEF Spec
<1>2. CASE ~PromptClock
  <2>1. NoFalseWatchdog
    BY <1>2 DEF NoFalseWatchdog
  <2>2. QED
    BY <2>1, PTL
<1>3. QED
  BY <1>1, <1>2

-----------------------------------------------------------------------------
(***************************************************************************)
(* Without crashes and disk failures.  Visited(c) are the switches that    *)
(* eps_set_power_mode has set when its next statement is c.                *)
(***************************************************************************)
Visited(c) ==
  CASE c = "payload" -> {}
    [] c = "radio" -> {"payload"}
    [] c = "adcs" -> {"payload", "radio"}
    [] c = "beacon" -> {"payload", "radio", "adcs"}
    [] c = "finish" -> Subsystem
    [] c = "none" -> Subsystem

(* A switch has the position its mode asks for. *)
Agrees(s) == s \in eps.on <=> s \in Loads(eps.mode)

(* The file holds the configuration of some mode, or none.                 *)
CleanFile == epsFile \in EpsConfig => epsFile = ModeConfig(epsFile.mode)

MatchInv ==
  /\ at # "thermal" => \A s \in Visited(call) : Agrees(s)
  /\ call = "none" => eps.limit = Limit(eps.mode)
  /\ at = "thermal" => call = "none" /\ eps.mode = ACTIVE
  /\ call = "payload" /\ eps.mode = ACTIVE => soc >= PayloadSoc
  /\ at = "off" => CleanFile /\ call = "none"

(* MatchInv is what SwitchesMatchMode needs to be inductive. *)
LEMMA MatchImplies ==
  ASSUME TypeOK, MatchInv
  PROVE  SwitchesMatchMode
<1> SUFFICES ASSUME EpsReturned, at \notin {"off", "thermal"}
             PROVE  eps = ModeConfig(eps.mode)
  BY DEF SwitchesMatchMode
<1>1. eps \in EpsConfig /\ call = "none"
  BY DEF TypeOK, EpsTypeOK, EpsReturned
<1>2. \A s \in Subsystem : s \in eps.on <=> s \in Loads(eps.mode)
  BY <1>1 DEF MatchInv, Visited, Agrees
<1>3. Loads(eps.mode) \subseteq Subsystem
  BY DEF Loads, Subsystem
<1>4. eps.on = Loads(eps.mode)
  BY <1>1, <1>2, <1>3 DEF EpsConfig
<1>5. eps.limit = Limit(eps.mode)
  BY <1>1 DEF MatchInv
<1>6. QED
  BY <1>1, <1>4, <1>5 DEF EpsConfig, ModeConfig

(* A configuration whose switches all agree with its mode. *)
LEMMA ModeConfigAgrees ==
  ASSUME NEW m \in PowerMode
  PROVE  /\ ModeConfig(m).mode = m
         /\ ModeConfig(m).on = Loads(m)
         /\ ModeConfig(m).limit = Limit(m)
BY DEF ModeConfig

(* A mode change starts the walk over the switches from the beginning. *)
LEMMA SetPowerModeMatch ==
  ASSUME TypeOK, MatchInv, EpsReturned, NEW m \in PowerMode, SetPowerMode(m),
         at # "off", at' \notin {"off", "thermal"},
         m = ACTIVE /\ eps.mode # ACTIVE => soc' >= PayloadSoc,
         at = "thermal" => m # eps.mode
  PROVE  MatchInv'
<1>1. CASE m = eps.mode
  BY <1>1 DEF MatchInv, SetPowerMode, epsVars, Agrees, EpsReturned, Visited
<1>2. CASE m # eps.mode
  BY <1>2 DEF MatchInv, SetPowerMode, Agrees, Visited, TypeOK, EpsTypeOK, EpsConfig
<1>3. QED
  BY <1>1, <1>2

(* The statements of eps_set_power_mode extend the set of visited switches. *)
LEMMA EpsStepMatch ==
  ASSUME TypeOK, PayloadInv, MatchInv, EpsStep
  PROVE  MatchInv'
<1>0. /\ eps \in EpsConfig /\ soc \in Int /\ PayloadSoc \in Int
      /\ at' = at /\ soc' = soc /\ at # "off"
  BY ThresholdsAssumption DEF TypeOK, EpsTypeOK, EpsStep, loopVars
<1>1. CASE FinishSave
  BY <1>0, <1>1 DEF FinishSave, MatchInv, Agrees, Visited, CleanFile
<1>2. ASSUME NEW s \in Subsystem, SwitchLoad(s, soc)
      PROVE  MatchInv'
  <2>1. eps'.mode = eps.mode /\ call = s /\ call' = StageAfter(s)
    BY <1>0, <1>2 DEF SwitchLoad, Control, EpsConfig
  <2>2. ~ (s = "payload" /\ s \in Loads(eps.mode) /\ soc < PayloadSoc)
    <3>1. "payload" \in Loads(eps.mode) => eps.mode = ACTIVE
      BY <1>0 DEF Loads, EpsConfig, PowerMode, SAFE, IDLE, ACTIVE
    <3>2. QED
      BY <1>0, <2>1, <3>1 DEF MatchInv
  <2>3. \A t \in Subsystem : t \in eps'.on <=>
          IF t = s THEN s \in Loads(eps.mode) ELSE t \in eps.on
    BY <1>0, <1>2, <2>2 DEF SwitchLoad, Control, EpsConfig
  <2>4. /\ Visited(StageAfter(s)) = Visited(s) \union {s}
        /\ StageAfter(s) \notin {"none", "payload"}
        /\ Visited(s) \subseteq Subsystem
    BY DEF Visited, StageAfter, Subsystem
  <2>5. at # "thermal" => \A t \in Visited(call') : Agrees(t)'
    BY <2>1, <2>3, <2>4 DEF MatchInv, Agrees
  <2>6. call # "none"
    BY <2>1 DEF Subsystem
  <2>7. QED
    BY <1>0, <2>1, <2>4, <2>5, <2>6 DEF MatchInv
<1>3. CASE FinishMode
  <2>1. /\ eps'.mode = eps.mode /\ eps'.on = eps.on
        /\ eps'.limit = Limit(eps.mode)
        /\ call = "finish" /\ call' = "none"
    BY <1>0, <1>3 DEF FinishMode, EpsConfig
  <2>2. QED
    BY <1>0, <2>1 DEF MatchInv, Agrees, Visited
<1>4. QED
  BY <1>1, <1>2, <1>3 DEF EpsStep

LEMMA MatchNext ==
  ASSUME ~CanCrash, ~DiskCanFail, TypeOK, PayloadInv, RestartKeepsConfig,
         MatchInv, [Next]_vars
  PROVE  MatchInv'
<1> USE DEF At, loopVars
<1>0. /\ eps \in EpsConfig /\ eps.mode \in PowerMode /\ soc \in Int
      /\ {SafeSoc, IdleSoc, PayloadSoc} \subseteq Int
      /\ NoFile \notin EpsConfig /\ Torn \notin EpsConfig
  BY ThresholdsAssumption, FileAssumption DEF TypeOK, EpsTypeOK, EpsConfig
<1>1. CASE UpdateMode
  <2>1. soc' \in Int
    <3>1. soc + Charge \in Int /\ soc - DischargeOn \in Int
          /\ soc - DischargeOff \in Int
      BY <1>0, ThresholdsAssumption
    <3>2. QED
      BY <1>1, <3>1, ClampedType DEF UpdateMode
  <2> DEFINE m == TargetMode(sunlit', soc', eps.mode)
  <2>2. SetPowerMode(m) /\ at = "update" /\ at' = "watch" /\ EpsReturned
    BY <1>1 DEF UpdateMode
  <2>3. m \in PowerMode
    BY <1>0, TargetModeType
  <2>4. m = ACTIVE /\ eps.mode # ACTIVE => soc' >= PayloadSoc
    BY <1>0, <2>1 DEF TargetMode, PowerMode, SAFE, IDLE, ACTIVE
  <2> HIDE DEF m
  <2>5. QED
    BY <2>2, <2>3, <2>4, SetPowerModeMatch
<1>2. CASE WatchAndRecover \/ RecoverThermal \/ CheckPower
  <2>1. /\ at \in {"watch", "thermal", "power"} /\ EpsReturned
        /\ at' \in {"health", "power", "comm"} /\ soc' = soc
        /\ \/ at # "thermal" /\ UNCHANGED epsVars
           \/ \E m \in {SAFE, IDLE} : /\ SetPowerMode(m)
                                      /\ at = "thermal" => m = IDLE
    BY <1>2 DEF WatchAndRecover, RecoverThermal, CheckPower, FaultRecoverPower
  <2>2. CASE at # "thermal" /\ UNCHANGED epsVars
    BY <2>1, <2>2 DEF MatchInv, Agrees, epsVars, EpsReturned
  <2>3. ASSUME NEW m \in {SAFE, IDLE}, SetPowerMode(m), at = "thermal" => m = IDLE
        PROVE  MatchInv'
    <3>1. m \in PowerMode /\ m # ACTIVE
      BY <2>3 DEF PowerMode, SAFE, IDLE, ACTIVE
    <3>2. at = "thermal" => m # eps.mode
      BY <3>1 DEF MatchInv
    <3>3. QED
      BY <2>1, <2>3, <3>1, <3>2, SetPowerModeMatch
  <2>4. QED
    BY <2>1, <2>2, <2>3
<1>3. CASE SkipHealthCheck \/ CheckComm \/ Sleep \/ Signal
  BY <1>3 DEF SkipHealthCheck, CheckComm, Sleep, Signal, epsVars, MatchInv,
              Agrees, EpsReturned, CleanFile
<1>4. CASE CheckThermal
  <2>1. /\ eps'.mode = eps.mode /\ eps'.limit = eps.limit
        /\ call' = call /\ call = "none" /\ soc' = soc /\ at = "health"
    BY <1>0, <1>4 DEF CheckThermal, Control, EpsConfig, EpsReturned
  <2>2. CASE at' = "thermal"
    <3>1. eps.mode = ACTIVE
      BY <1>4, <2>1, <2>2 DEF CheckThermal, PayloadInv, PayloadOnlyInActive
    <3>2. QED
      BY <2>1, <2>2, <3>1 DEF MatchInv
  <2>3. CASE at' = "power"
    <3>1. eps' = eps
      BY <1>4, <2>3 DEF CheckThermal
    <3>2. QED
      BY <2>1, <2>3, <3>1 DEF MatchInv, Agrees
  <2>4. QED
    BY <1>4, <2>2, <2>3 DEF CheckThermal
<1>5. CASE Persist \/ LeaveLoop
  BY <1>5 DEF Persist, LeaveLoop, MatchInv, Agrees, EpsReturned
<1>6. CASE Exit
  <2>1. /\ at = "exit" /\ EpsReturned /\ epsFile' = epsFile /\ at' = "off"
        /\ eps' = DefaultConfig /\ call' = "none"
    BY <1>6 DEF Exit, LoseRam
  <2>2. eps = ModeConfig(eps.mode)
    BY <2>1, MatchImplies DEF SwitchesMatchMode
  <2>3. CleanFile'
    BY <1>0, <2>1, <2>2 DEF RestartKeepsConfig, CleanFile
  <2>4. \A s : Agrees(s)' /\ eps'.limit = Limit(eps'.mode)
    BY <2>1, DefaultType, ModeConfigAgrees DEF DefaultConfig, Agrees
  <2>5. QED
    BY <2>1, <2>3, <2>4 DEF MatchInv, Visited
<1>7. CASE EpsStep
  BY <1>7, EpsStepMatch
<1>8. CASE Boot
  <2>1. /\ eps' = (IF epsFile \in EpsConfig THEN epsFile ELSE DefaultConfig)
        /\ call' = "none" /\ at = "off" /\ at' = "update"
    BY <1>8 DEF Boot, LoadConfig
  <2>2. \E m \in PowerMode : eps' = ModeConfig(m)
    BY <2>1, DefaultType DEF MatchInv, CleanFile, EpsConfig, DefaultConfig
  <2>3. \A s : Agrees(s)' /\ eps'.limit = Limit(eps'.mode)
    BY <2>2, ModeConfigAgrees DEF Agrees
  <2>4. QED
    BY <2>1, <2>3 DEF MatchInv
<1>9. CASE Crash
  BY <1>9 DEF Crash
<1>10. CASE UNCHANGED vars
  BY <1>10 DEF vars, epsVars, MatchInv, Agrees, CleanFile
<1>11. QED
  BY <1>1, <1>2, <1>3, <1>4, <1>5, <1>6, <1>7, <1>8, <1>9, <1>10
     DEF Next, Program

(* When the process is only ever ended by a shutdown and the disk does not *)
(* fail, the load switches and the power limit are the mode's whenever no  *)
(* mode change is under way, across any number of restarts.                *)
THEOREM SwitchesMatchModeHolds ==
  ASSUME ~CanCrash, ~DiskCanFail
  PROVE  Spec => []SwitchesMatchMode
<1>1. Init => PayloadInv /\ MatchInv
  <2>1. Init => PayloadInv
    BY FileAssumption, DefaultPayload
       DEF Init, EpsInit, PayloadInv, PayloadOnlyInActive, LagIsNotSaved, PayloadOn
  <2>2. Init => MatchInv
    BY FileAssumption, DefaultType, ModeConfigAgrees
       DEF Init, EpsInit, MatchInv, Agrees, Visited, CleanFile, DefaultConfig
  <2>3. QED
    BY <2>1, <2>2
<1>2. TypeOK /\ PayloadInv /\ RestartKeepsConfig /\ MatchInv /\ [Next]_vars
        => MatchInv'
  BY MatchNext
<1>3. TypeOK /\ MatchInv => SwitchesMatchMode
  BY MatchImplies
<1>4. Spec => []RestartKeepsConfig
  BY RestartKeepsConfigHolds
<1>5. QED
  BY <1>1, <1>2, <1>3, <1>4, PayloadNext, TypeCorrect, PTL DEF Spec
=============================================================================
