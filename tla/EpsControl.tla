----------------------------- MODULE EpsControl -----------------------------
(***************************************************************************)
(* The electrical power subsystem (eps_control.c): the load switches, the  *)
(* power mode and power limit, and the configuration file they survive a   *)
(* reset in.                                                               *)
(*                                                                         *)
(* eps_set_power_mode is not atomic with respect to the file: it assigns   *)
(* the mode, then calls the four eps_control_* functions, each of which    *)
(* rewrites the file when it changes a switch, and writes the file a last  *)
(* time with the new limit.  One action here is the code between two such  *)
(* file writes, and a write is itself two steps, because fopen("wb")       *)
(* truncates the file before fclose delivers the new contents.             *)
(***************************************************************************)
EXTENDS Integers

CONSTANTS
  PayloadSoc,   \* EPS_SOC_PAYLOAD_THRESHOLD, in the unit soc is counted in
  DiskCanFail,  \* may fopen, fwrite or fclose on the configuration file fail?
  NoFile,       \* the file does not exist
  Torn          \* the file is shorter than one EpsControlState_t

VARIABLES
  eps,          \* s_eps_state
  epsFile,      \* what EPS_CONFIG_FILE holds: a configuration, NoFile or Torn
  call,         \* next statement of a running eps_set_power_mode, or "none"
  saving        \* eps_save_config is between its fopen and its fclose

epsVars == <<eps, epsFile, call, saving>>

(***************************************************************************)
(* PowerMode_t is an ordered enumeration: the code compares modes.         *)
(***************************************************************************)
SAFE == 0
IDLE == 1
ACTIVE == 2
PowerMode == {SAFE, IDLE, ACTIVE}

Subsystem == {"payload", "radio", "adcs", "beacon"}

(* EPS_POWER_LIMIT_SAFE_W, _IDLE_W and _ACTIVE_W in tenths of a watt. *)
Limit(mode) == IF mode = SAFE THEN 5 ELSE IF mode = IDLE THEN 15 ELSE 30

(* The switches each case of eps_set_power_mode asks to be on. *)
Loads(mode) ==
  IF mode = SAFE THEN {"beacon"}
  ELSE IF mode = IDLE THEN {"radio", "adcs", "beacon"}
  ELSE Subsystem

EpsConfig == [mode : PowerMode, limit : {5, 15, 30}, on : SUBSET Subsystem]

ModeConfig(mode) == [mode |-> mode, limit |-> Limit(mode), on |-> Loads(mode)]

(* The static initialiser, and what eps_init falls back to. *)
DefaultConfig == ModeConfig(IDLE)

PayloadOn == "payload" \in eps.on

Stage == {"none", "payload", "radio", "adcs", "beacon", "finish"}

(* Mutant: the ADCS is forgotten. *)
StageAfter_NoAdcs(s) ==
  CASE s = "payload" -> "radio"
    [] s = "radio" -> "beacon"
    [] s = "adcs" -> "beacon"
    [] s = "beacon" -> "finish"

(* The order in which eps_set_power_mode visits the switches. *)
StageAfter(s) ==
  CASE s = "payload" -> "radio"
    [] s = "radio" -> "adcs"
    [] s = "adcs" -> "beacon"
    [] s = "beacon" -> "finish"

(***************************************************************************)
(* eps_save_config.  Opening truncates the file; closing delivers the      *)
(* buffered record.  A failed fopen leaves the file as it was, a failed    *)
(* write leaves it short; no caller looks at the result.                   *)
(***************************************************************************)
BeginSave ==
  \/ epsFile' = Torn /\ saving' = TRUE
  \/ DiskCanFail /\ UNCHANGED <<epsFile, saving>>

FinishSave ==
  /\ saving
  /\ saving' = FALSE
  /\ \/ epsFile' = eps
     \/ DiskCanFail /\ UNCHANGED epsFile
  /\ UNCHANGED <<eps, call>>

(* No EPS call is running: the program is outside eps_control.c. *)
EpsReturned == call = "none" /\ ~saving

(***************************************************************************)
(* eps_control_payload, _radio, _adcs and _beacon: nothing happens when    *)
(* the switch already has the wanted position, and enabling the payload    *)
(* is refused on a low battery.                                            *)
(***************************************************************************)
Control(s, enable, charge) ==
  IF \/ (s \in eps.on) = enable
     \/ s = "payload" /\ enable /\ charge < PayloadSoc
  THEN UNCHANGED <<eps, epsFile, saving>>
  ELSE /\ eps' = [eps EXCEPT !.on = IF enable THEN @ \union {s} ELSE @ \ {s}]
       /\ BeginSave

(* Mutant: the file is written as soon as the mode is assigned. *)
SetPowerMode_SavedFirst(mode) ==
  IF eps.mode = mode
  THEN UNCHANGED epsVars
  ELSE /\ eps' = [eps EXCEPT !.mode = mode]
       /\ call' = "payload"
       /\ BeginSave

(* eps_set_power_mode up to its first eps_control_* call. *)
SetPowerMode(mode) ==
  IF eps.mode = mode
  THEN UNCHANGED epsVars
  ELSE /\ eps' = [eps EXCEPT !.mode = mode]
       /\ call' = "payload"
       /\ UNCHANGED <<epsFile, saving>>

(* The eps_control_* call for switch s inside eps_set_power_mode. *)
SwitchLoad(s, charge) ==
  /\ call = s
  /\ ~saving
  /\ call' = StageAfter(s)
  /\ Control(s, s \in Loads(eps.mode), charge)

(* Mutants: no new limit, no last save. *)
FinishMode_OldLimit ==
  /\ call = "finish"
  /\ ~saving
  /\ eps' = eps
  /\ call' = "none"
  /\ BeginSave

FinishMode_NotSaved ==
  /\ call = "finish"
  /\ ~saving
  /\ eps' = [eps EXCEPT !.limit = Limit(eps.mode)]
  /\ call' = "none"
  /\ UNCHANGED <<epsFile, saving>>

(* The tail of eps_set_power_mode: the new limit, and the last save. *)
FinishMode ==
  /\ call = "finish"
  /\ ~saving
  /\ eps' = [eps EXCEPT !.limit = Limit(eps.mode)]
  /\ call' = "none"
  /\ BeginSave

(* Mutant: a file that is too short counts, and what it lacks is zero. *)
LoadConfig_Short ==
  /\ eps' = IF epsFile \in EpsConfig THEN epsFile
            ELSE IF epsFile = Torn THEN [DefaultConfig EXCEPT !.on = {}]
            ELSE DefaultConfig
  /\ call' = "none"
  /\ saving' = FALSE
  /\ UNCHANGED epsFile

(***************************************************************************)
(* eps_init: a file that is missing, short or fails its CRC yields the     *)
(* defaults; defaults are not written back.                                *)
(***************************************************************************)
LoadConfig ==
  /\ eps' = IF epsFile \in EpsConfig THEN epsFile ELSE DefaultConfig
  /\ call' = "none"
  /\ saving' = FALSE
  /\ UNCHANGED epsFile

(* The process is gone; its static data will be initialised afresh. *)
LoseRam ==
  /\ eps' = DefaultConfig
  /\ call' = "none"
  /\ saving' = FALSE

EpsInit ==
  /\ eps = DefaultConfig
  /\ epsFile = NoFile
  /\ call = "none"
  /\ saving = FALSE

EpsTypeOK ==
  /\ eps \in EpsConfig
  /\ epsFile \in EpsConfig \union {NoFile, Torn}
  /\ call \in Stage
  /\ saving \in BOOLEAN
=============================================================================
