---------------------------- MODULE StateMachine ----------------------------
(***************************************************************************)
(* The operational state machine (state_machine.c): a table of             *)
(* transitions, searched from its start, and a way round the table.  The   *)
(* table holds no guards and no actions, and no state has entry or exit    *)
(* actions, so an event is one step.  Times and counts are left out.       *)
(***************************************************************************)
EXTENDS Naturals, Sequences

VARIABLES
  sm,        \* current_state
  smReady    \* is_initialized

State == {"BOOT", "SAFE", "DETUMBLE", "IDLE", "ACTIVE", "EMERGENCY"}

Event ==
  {"NONE", "BOOT_COMPLETE", "DETUMBLE_COMPLETE", "COMM_ACQUIRED", "POWER_OK",
   "POWER_LOW", "POWER_CRITICAL", "THERMAL_FAULT", "COMM_TIMEOUT",
   "WATCHDOG_TIMEOUT", "GROUND_CMD_SAFE", "GROUND_CMD_IDLE",
   "GROUND_CMD_ACTIVE", "AI_READY", "AI_FAULT", "RECOVERY_OK"}

(* s_transitions, in its order: from, event, to. *)
Transitions == <<
  <<"BOOT", "BOOT_COMPLETE", "DETUMBLE">>,
  <<"BOOT", "POWER_CRITICAL", "SAFE">>,
  <<"DETUMBLE", "DETUMBLE_COMPLETE", "IDLE">>,
  <<"DETUMBLE", "POWER_LOW", "SAFE">>,
  <<"DETUMBLE", "POWER_CRITICAL", "SAFE">>,
  <<"DETUMBLE", "WATCHDOG_TIMEOUT", "SAFE">>,
  <<"DETUMBLE", "GROUND_CMD_SAFE", "SAFE">>,
  <<"SAFE", "POWER_OK", "IDLE">>,
  <<"SAFE", "RECOVERY_OK", "IDLE">>,
  <<"SAFE", "GROUND_CMD_IDLE", "IDLE">>,
  <<"IDLE", "AI_READY", "ACTIVE">>,
  <<"IDLE", "GROUND_CMD_ACTIVE", "ACTIVE">>,
  <<"IDLE", "POWER_LOW", "SAFE">>,
  <<"IDLE", "POWER_CRITICAL", "SAFE">>,
  <<"IDLE", "THERMAL_FAULT", "SAFE">>,
  <<"IDLE", "COMM_TIMEOUT", "SAFE">>,
  <<"IDLE", "WATCHDOG_TIMEOUT", "SAFE">>,
  <<"IDLE", "GROUND_CMD_SAFE", "SAFE">>,
  <<"ACTIVE", "AI_FAULT", "IDLE">>,
  <<"ACTIVE", "POWER_LOW", "IDLE">>,
  <<"ACTIVE", "POWER_CRITICAL", "SAFE">>,
  <<"ACTIVE", "THERMAL_FAULT", "SAFE">>,
  <<"ACTIVE", "COMM_TIMEOUT", "IDLE">>,
  <<"ACTIVE", "WATCHDOG_TIMEOUT", "SAFE">>,
  <<"ACTIVE", "GROUND_CMD_IDLE", "IDLE">>,
  <<"ACTIVE", "GROUND_CMD_SAFE", "SAFE">>,
  <<"EMERGENCY", "RECOVERY_OK", "SAFE">>,
  <<"EMERGENCY", "GROUND_CMD_SAFE", "SAFE">>,
  <<"IDLE", "POWER_CRITICAL", "EMERGENCY">>,
  <<"ACTIVE", "POWER_CRITICAL", "EMERGENCY">> >>

Matches(from, event) ==
  {i \in DOMAIN Transitions : Transitions[i][1] = from /\ Transitions[i][2] = event}

FindTransition(from, event) ==
  {i \in Matches(from, event) : \A j \in Matches(from, event) : i <= j}

(* The state after an event: unchanged when the table has no transition. *)
After(from, event) ==
  LET found == FindTransition(from, event)
  IN  IF found = {} THEN from ELSE Transitions[CHOOSE i \in found : TRUE][3]

(* sm_process_event. *)
ProcessEvent(event) == sm' = (IF smReady THEN After(sm, event) ELSE sm) /\ UNCHANGED smReady

(* sm_force_state does not look at the table, nor at is_initialized. *)
ForceState(state) == sm' = state /\ UNCHANGED smReady

(* sm_init. *)
InitMachine(state) == sm' = state /\ smReady' = TRUE
=============================================================================
