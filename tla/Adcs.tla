-------------------------------- MODULE Adcs --------------------------------
(***************************************************************************)
(* Attitude control (adcs_control.c): the modes, the timers of detumbling  *)
(* and what the magnetorquers are told.  Vectors appear as what the modes  *)
(* ask of them: whether the estimated rate is below the threshold, whether *)
(* the sun is seen and whether a dipole is zero.                           *)
(*                                                                         *)
(* Times appear as ages, which stop counting past the last comparison.     *)
(* The clock is never set back.                                            *)
(***************************************************************************)
EXTENDS FaultLog

CONSTANTS
  SettlingTime,     \* ADCS_DETUMBLE_SETTLING_MS
  DetumbleTimeout   \* ADCS_DETUMBLE_TIMEOUT_MS

ASSUME AdcsAssumption == {SettlingTime, DetumbleTimeout} \subseteq Nat \ {0}

VARIABLES
  adReady,      \* s_initialized
  adMode,       \* mode
  adPrevious,   \* s_mag_prev.valid
  adSlow,       \* rate_magnitude < ADCS_DETUMBLE_RATE_THRESHOLD
  adDetumble,   \* age of detumble_start_ms
  adSettling,   \* age of settling_start_ms, or NotSettling
  adComplete,   \* detumble_complete
  adMtq,        \* mtq: off, or the dipole that was applied
  adFast        \* history: age of the last estimate above the threshold

adVars == <<adReady, adMode, adPrevious, adSlow, adDetumble, adSettling,
            adComplete, adMtq, adFast>>

AdcsMode == {"IDLE", "DETUMBLE", "SUNPOINT", "ECLIPSE", "SAFE"}
NotSettling == -1
Aged(age, limit) == IF age < limit THEN age + 1 ELSE limit

-----------------------------------------------------------------------------
AdcsReset ==
  /\ adMode' = "IDLE"
  /\ adPrevious' = FALSE
  /\ adSlow' = TRUE
  /\ adSettling' = NotSettling
  /\ adComplete' = FALSE
  /\ adMtq' = "off"

AdInit ==
  /\ adReady = FALSE
  /\ adMode = "IDLE"
  /\ adPrevious = FALSE
  /\ adSlow = TRUE
  /\ adDetumble = DetumbleTimeout + 1
  /\ adSettling = NotSettling
  /\ adComplete = FALSE
  /\ adMtq = "off"
  /\ adFast = SettlingTime + 1

AdcsInitialize ==
  /\ AdcsReset
  /\ adReady' = TRUE
  /\ UNCHANGED <<adDetumble, adFast, faultVars>>

(* Mutant: a second detumbling goes on with the settling of the first. *)
AdcsSetMode_Resumed(mode) ==
  /\ adReady
  /\ adMode' = mode
  /\ IF mode = "DETUMBLE" /\ adMode # "DETUMBLE"
     THEN adDetumble' = 0 /\ adSettling' = adSettling /\ adComplete' = FALSE
     ELSE UNCHANGED <<adDetumble, adSettling, adComplete>>
  /\ UNCHANGED <<adReady, adPrevious, adSlow, adMtq, adFast, faultVars>>

(* adcs_set_mode; the torquers wait for the next update. *)
AdcsSetMode(mode) ==
  /\ adReady
  /\ adMode' = mode
  /\ IF mode = "DETUMBLE" /\ adMode # "DETUMBLE"
     THEN adDetumble' = 0 /\ adSettling' = NotSettling /\ adComplete' = FALSE
     ELSE UNCHANGED <<adDetumble, adSettling, adComplete>>
  /\ UNCHANGED <<adReady, adPrevious, adSlow, adMtq, adFast, faultVars>>

-----------------------------------------------------------------------------
(* The estimate that an update makes of two field readings.  The first     *)
(* reading, a second one within 10 ms and a weak field leave the estimate  *)
(* as it was, which is zero at first.                                      *)
Estimate == {"slow", "fast", "kept", "weak"}

EstimateRate(rate) ==
  /\ rate \in {"slow", "fast"} => adPrevious
  /\ adPrevious' = TRUE
  /\ adSlow' = IF rate \in {"slow", "fast"} THEN rate = "slow" ELSE adSlow
  /\ adFast' = IF adSlow' THEN adFast ELSE 0

(* adcs_compute_sunpoint: no torque without the sun or a field to push. *)
ComputeSunpoint(rate, sun) == IF sun /\ rate # "weak" THEN "control" ELSE "zero"

(* The end of adcs_update: the dipole is applied if the mode it leaves     *)
(* behind steers, else the torquers are disabled.                          *)
ApplyDipole(dipole) ==
  adMtq' = IF adMode' \in {"DETUMBLE", "SUNPOINT"} THEN dipole ELSE "off"

DetumbleTimedOut ==
  /\ adMode = "DETUMBLE"
  /\ adDetumble > DetumbleTimeout
  /\ LogFaults(1)
  /\ adComplete' = TRUE
  /\ adMode' = "IDLE"
  /\ UNCHANGED adSettling

(* The rate is below the threshold: settling starts, goes on or ends. *)
Settle ==
  /\ adMode = "DETUMBLE" /\ adDetumble <= DetumbleTimeout
  /\ adSlow'
  /\ adSettling' = IF adSettling = NotSettling THEN 0 ELSE adSettling
  /\ IF adSettling > SettlingTime
     THEN adComplete' = TRUE /\ adMode' = "IDLE"
     ELSE UNCHANGED <<adComplete, adMode>>
  /\ UNCHANGED faultVars

Tumble ==
  /\ adMode = "DETUMBLE" /\ adDetumble <= DetumbleTimeout
  /\ ~adSlow'
  /\ adSettling' = NotSettling
  /\ UNCHANGED <<adComplete, adMode, faultVars>>

(* The modes that follow the sun and those that do nothing. *)
FollowSun(sun) ==
  /\ adMode # "DETUMBLE"
  /\ adMode' = IF adMode \in {"SUNPOINT", "ECLIPSE"}
               THEN IF sun THEN "SUNPOINT" ELSE "ECLIPSE"
               ELSE adMode
  /\ UNCHANGED <<adSettling, adComplete, faultVars>>

(* adcs_update. *)
AdcsUpdate(rate, sun) ==
  /\ adReady
  /\ EstimateRate(rate)
  /\ DetumbleTimedOut \/ Settle \/ Tumble \/ FollowSun(sun)
  /\ ApplyDipole(CASE adMode = "DETUMBLE" -> "control"
                   [] adMode = "SUNPOINT" -> ComputeSunpoint(rate, sun)
                   [] OTHER -> "zero")
  /\ UNCHANGED <<adReady, adDetumble>>

AdcsTick ==
  /\ adDetumble' = Aged(adDetumble, DetumbleTimeout + 1)
  /\ adSettling' = IF adSettling = NotSettling THEN NotSettling
                   ELSE Aged(adSettling, SettlingTime + 1)
  /\ adFast' = Aged(adFast, SettlingTime + 1)
  /\ UNCHANGED <<adReady, adMode, adPrevious, adSlow, adComplete, adMtq, faultVars>>

AdNext ==
  \/ AdcsInitialize
  \/ \E mode \in AdcsMode : AdcsSetMode(mode)
  \/ \E rate \in Estimate, sun \in BOOLEAN : AdcsUpdate(rate, sun)
  \/ AdcsTick

-----------------------------------------------------------------------------
(* Types. *)
AdTypeOK ==
  /\ {adReady, adPrevious, adSlow, adComplete} \subseteq BOOLEAN
  /\ adMode \in AdcsMode
  /\ adDetumble \in 0..(DetumbleTimeout + 1)
  /\ adSettling \in {NotSettling} \union 0..(SettlingTime + 1)
  /\ adMtq \in {"off", "zero", "control"}
  /\ adFast \in 0..(SettlingTime + 1)

(***************************************************************************)
(* Detumbling is complete only after the rate has stayed below the         *)
(* threshold for more than the whole settling time, over mode changes and  *)
(* new starts, or after the timeout, which says nothing of the rate.       *)
(***************************************************************************)
DetumbleEndsRightly ==
  [][adComplete' /\ ~adComplete =>
       adFast > SettlingTime \/ adDetumble > DetumbleTimeout]_adVars
=============================================================================
