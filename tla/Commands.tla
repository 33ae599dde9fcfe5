------------------------------ MODULE Commands ------------------------------
(***************************************************************************)
(* Ground commands (cmd_handler.c with the checks of input_validation.c)   *)
(* and the system state they change (system_state.c), with the state       *)
(* machine inside it and the copy of it in a file or in flash.             *)
(*                                                                         *)
(* A frame passes, in this order: its form, the rules of its payload, the  *)
(* state, the authorisation, the handler.  The payload rules and the       *)
(* handlers number the commands differently; both numberings are kept.     *)
(* Payloads are sequences of bytes.  Sensor values, times and counters of  *)
(* the system state that no command reads are left out: what they add is   *)
(* that the state becomes dirty (Measure).                                 *)
(***************************************************************************)
EXTENDS StateMachine, Integers

CONSTANTS
  Payloads,      \* payloads considered
  Reserved,      \* command ids considered that neither numbering defines
  CustomIds,     \* ids for which custom handlers are registered
  MaxHandlers,   \* MAX_CUSTOM_HANDLERS
  StatRange,     \* values of a statistics counter, 2^32 in the code
  StorageCanFail,\* may erasing or writing the stored copy fail?
  Buffered,      \* is the copy a file (the simulation build) or in flash?
  SaveWhenClean, \* do callers save a state that is not dirty, too?
  NoImage, Torn  \* there is no stored copy; it is erased or incomplete

ASSUME CommandsAssumption ==
  /\ Payloads \subseteq Seq(0..255)
  /\ Reserved \subseteq 0..255
  /\ MaxHandlers \in Nat
  /\ StatRange \in Nat \ {0}
  /\ StorageCanFail \in BOOLEAN /\ Buffered \in BOOLEAN /\ SaveWhenClean \in BOOLEAN

VARIABLES
  data,      \* the rest of s_state that commands read or write
  dirty,     \* persistence_dirty
  image,     \* the stored copy
  saving,    \* sys_state_save is between erasing and writing
  stats,     \* s_stats
  handlers,  \* the ids of s_custom_handlers, in order of registration
  ready,     \* s_initialized of cmd_handler.c
  direct     \* history: calls of cmd_execute since clearing, modulo StatRange

state == <<sm, smReady, data, dirty>>
vars == <<sm, smReady, data, dirty, image, saving, stats, handlers, ready, direct>>

(* The numbering of cmd_handler.h. *)
CMD_SYS_NOP == 0
CMD_SYS_RESET == 1
CMD_SYS_SET_MODE == 2
CMD_SYS_GET_STATUS == 3
CMD_SYS_CLEAR_FAULTS == 5
CMD_EPS_SET_MODE == 16
CMD_EPS_GET_TELEMETRY == 19
CMD_ADCS_DETUMBLE == 33
CMD_ADCS_GET_ATTITUDE == 35
CMD_COMM_SET_BEACON == 48
CMD_PLD_ENABLE == 64
CMD_PLD_DISABLE == 65

(* The numbering of input_validation.h. *)
CMD_ID_SET_MODE == 1
CMD_ID_SET_POWER == 2
CMD_ID_SET_BEACON == 3
CMD_ID_DEPLOY == 16
CMD_ID_RESET == 255

CmdId ==
  {CMD_SYS_NOP, CMD_SYS_RESET, CMD_SYS_SET_MODE, CMD_SYS_GET_STATUS,
   CMD_SYS_CLEAR_FAULTS, CMD_EPS_SET_MODE, CMD_EPS_GET_TELEMETRY,
   CMD_ADCS_DETUMBLE, CMD_ADCS_GET_ATTITUDE, CMD_COMM_SET_BEACON,
   CMD_PLD_ENABLE, CMD_PLD_DISABLE, CMD_ID_RESET} \union Reserved

Result == {"SUCCESS", "INVALID_CMD", "INVALID_PARAM", "AUTH_FAIL", "NOT_ALLOWED", "EXEC_FAIL"}

BeaconInterval == 10..120
Data == [mode : 0..2, payload : BOOLEAN, beacon : {0} \union BeaconInterval]
ZeroData == [mode |-> 0, payload |-> FALSE, beacon |-> 0]
DefaultData == [mode |-> 0, payload |-> FALSE, beacon |-> 60]
Image == [sm : State, data : Data]

ASSUME StoredCopyAssumption == {NoImage, Torn} \intersect Image = {}

NoStats == [received |-> 0, executed |-> 0, rejected |-> 0, authFailures |-> 0]

AuthCode == <<222, 173, 190, 239>>  \* CMD_AUTH_CODE and DEPLOY_AUTH_CODE
HasAuth(p) == Len(p) >= 4 /\ SubSeq(p, 1, 4) = AuthCode
Word(p) == 256 * p[1] + p[2]
FirstAtMost(p, n) == Len(p) >= 1 /\ p[1] <= n
IsInterval(p) == Len(p) >= 2 /\ Word(p) \in BeaconInterval

(* input_validate_command_payload: any other id is unknown to it. *)
PayloadValid(id, p) ==
  \/ id \in {CMD_ID_SET_MODE, CMD_ID_SET_POWER} /\ FirstAtMost(p, 3)
  \/ id = CMD_ID_SET_BEACON /\ IsInterval(p)
  \/ id = CMD_ID_DEPLOY /\ HasAuth(p)
  \/ id = CMD_ID_RESET /\ Len(p) >= 1 /\ p[1] = 255

(* Mutant: SAFE is not restricted. *)
IsAllowed_Safe(id) ==
  \/ id \in {CMD_SYS_NOP, CMD_SYS_GET_STATUS, CMD_EPS_GET_TELEMETRY, CMD_ADCS_GET_ATTITUDE}
  \/ sm = "EMERGENCY" /\ id = CMD_SYS_RESET
  \/ sm # "EMERGENCY"

IsAllowed(id) ==
  \/ id \in {CMD_SYS_NOP, CMD_SYS_GET_STATUS, CMD_EPS_GET_TELEMETRY, CMD_ADCS_GET_ATTITUDE}
  \/ sm = "SAFE" /\ id \in {CMD_SYS_SET_MODE, CMD_COMM_SET_BEACON}
  \/ sm = "EMERGENCY" /\ id = CMD_SYS_RESET
  \/ sm \notin {"SAFE", "EMERGENCY"}

RequiresAuth(id) == id \in {CMD_SYS_RESET, CMD_SYS_CLEAR_FAULTS, CMD_PLD_ENABLE}

(* Mutant: EPS_SET_MODE does not compare the mode with POWER_MODE_ACTIVE. *)
HandlerResult_AnyMode(id, p) ==
  IF id \in {CMD_SYS_NOP, CMD_EPS_SET_MODE} /\ Len(p) >= 1 THEN "SUCCESS" ELSE "INVALID_CMD"

(* What the category handlers return. *)
HandlerResult(id, p) ==
  IF id \in {CMD_SYS_NOP, CMD_SYS_RESET, CMD_SYS_GET_STATUS, CMD_SYS_CLEAR_FAULTS,
             CMD_EPS_GET_TELEMETRY, CMD_ADCS_DETUMBLE, CMD_ADCS_GET_ATTITUDE,
             CMD_PLD_ENABLE, CMD_PLD_DISABLE}
  THEN "SUCCESS"
  ELSE IF id \in {CMD_SYS_SET_MODE, CMD_EPS_SET_MODE}
  THEN IF FirstAtMost(p, 2) THEN "SUCCESS" ELSE "INVALID_PARAM"
  ELSE IF id = CMD_COMM_SET_BEACON
  THEN IF IsInterval(p) THEN "SUCCESS" ELSE "INVALID_PARAM"
  ELSE "INVALID_CMD"

(* The states that SET_MODE names by number. *)
ModeState(n) == IF n = 0 THEN "SAFE" ELSE IF n = 1 THEN "IDLE" ELSE "ACTIVE"

(* What the category handlers do when they succeed. *)
HandlerEffect(id, p) ==
  /\ CASE id = CMD_SYS_SET_MODE -> ForceState(ModeState(p[1]))
       [] id = CMD_ADCS_DETUMBLE -> ProcessEvent("BOOT_COMPLETE")
       [] OTHER -> UNCHANGED <<sm, smReady>>
  /\ data' = CASE id = CMD_EPS_SET_MODE -> [data EXCEPT !.mode = p[1]]
               [] id = CMD_COMM_SET_BEACON -> [data EXCEPT !.beacon = Word(p)]
               [] id = CMD_PLD_ENABLE -> [data EXCEPT !.payload = TRUE]
               [] id = CMD_PLD_DISABLE -> [data EXCEPT !.payload = FALSE]
               [] OTHER -> data

Plus(s, fields) ==
  [f \in DOMAIN s |-> IF f \in fields THEN (s[f] + 1) % StatRange ELSE s[f]]

HandlerSet == {handlers[i] : i \in DOMAIN handlers}

(* Refused: nothing but the statistics changes. *)
Refuse(counted) ==
  /\ stats' = Plus(stats, counted)
  /\ UNCHANGED <<sm, smReady, data, dirty>>

(* Mutant: a refused authorisation is counted as rejected as well. *)
AuthFailCounts_Twice == {"authFailures", "rejected"}

AuthFailCounts == {"authFailures"}

(* cmd_execute, answering result; before holds the counts made already. *)
Execute(id, p, result, before) ==
  \/ /\ ~IsAllowed(id)
     /\ result = "NOT_ALLOWED"
     /\ Refuse(before \union {"rejected"})
  \/ /\ IsAllowed(id)
     /\ RequiresAuth(id) /\ ~HasAuth(p)
     /\ result = "AUTH_FAIL"
     /\ Refuse(before \union AuthFailCounts)
  \/ /\ IsAllowed(id)
     /\ RequiresAuth(id) => HasAuth(p)
     /\ IF id \in HandlerSet
        THEN result \in {"SUCCESS", "EXEC_FAIL"} /\ UNCHANGED <<sm, smReady, data>>
        ELSE /\ result = HandlerResult(id, p)
             /\ IF result = "SUCCESS"
                THEN HandlerEffect(id, p)
                ELSE UNCHANGED <<sm, smReady, data>>
     /\ stats' = Plus(stats, before \union
                        {IF result = "SUCCESS" THEN "executed" ELSE "rejected"})
     /\ dirty' = (dirty \/ result = "SUCCESS")  \* sys_increment_command_count

(* cmd_process of a whole frame; a caller may call cmd_execute itself. *)
Frame(id, p) ==
  /\ ready /\ ~saving
  /\ IF PayloadValid(id, p)
     THEN \E result \in Result : Execute(id, p, result, {"received"})
     ELSE Refuse({"received", "rejected"})
  /\ UNCHANGED <<image, saving, handlers, ready, direct>>

(* cmd_process of bytes that input_validate_command finds wrong. *)
MalformedFrame ==
  /\ ready /\ ~saving
  /\ Refuse({"received", "rejected"})
  /\ UNCHANGED <<image, saving, handlers, ready, direct>>

DirectCommand(id, p) ==
  /\ ~saving
  /\ \E result \in Result : Execute(id, p, result, {})
  /\ direct' = (direct + 1) % StatRange
  /\ UNCHANGED <<image, saving, handlers, ready>>

RegisterHandler(id) ==
  /\ ~saving
  /\ Len(handlers) < MaxHandlers
  /\ handlers' = Append(handlers, id)
  /\ UNCHANGED <<state, image, saving, stats, ready, direct>>

ClearStats ==
  /\ ~saving
  /\ stats' = NoStats
  /\ direct' = 0
  /\ UNCHANGED <<state, image, saving, handlers, ready>>

(* Another component reports an event to the state machine. *)
OtherEvent(event) ==
  /\ ~saving /\ smReady
  /\ ProcessEvent(event)
  /\ UNCHANGED <<data, dirty, image, saving, stats, handlers, ready, direct>>

(* Another component stores a measurement or a count. *)
Measure ==
  /\ ~saving
  /\ dirty' = TRUE
  /\ UNCHANGED <<sm, smReady, data, image, saving, stats, handlers, ready, direct>>

(* sys_state_save, before the old copy is gone and after.  A file that is  *)
(* not opened keeps its contents; an erase that fails may have done part.  *)
BeginSave ==
  /\ ~saving /\ smReady
  /\ SaveWhenClean \/ dirty
  /\ \/ image' = Torn /\ saving' = TRUE
     \/ StorageCanFail /\ UNCHANGED <<image, saving>>
     \/ StorageCanFail /\ ~Buffered /\ image' = Torn /\ UNCHANGED saving
  /\ UNCHANGED <<state, stats, handlers, ready, direct>>

(* The flash driver reports a failing write.  A file takes the record into *)
(* its buffer and is written when it is closed: that result is ignored,    *)
(* and the state counts as saved.                                          *)
FinishSave ==
  /\ saving
  /\ saving' = FALSE
  /\ \/ image' = [sm |-> sm, data |-> data] /\ dirty' = FALSE
     \/ StorageCanFail /\ UNCHANGED image /\ dirty' = (dirty /\ ~Buffered)
  /\ UNCHANGED <<sm, smReady, data, stats, handlers, ready, direct>>

(* What a restart finds: the stored copy, or the defaults. *)
Stored == IF image \in {NoImage, Torn} THEN [sm |-> "BOOT", data |-> DefaultData] ELSE image

(* Mutant: a state that was changed before it is loaded keeps its changes. *)
LoadState_IfClean ==
  /\ ~smReady
  /\ InitMachine(Stored.sm)
  /\ data' = IF dirty THEN data ELSE Stored.data
  /\ dirty' = FALSE
  /\ UNCHANGED <<image, saving, stats, handlers, ready, direct>>

(* sys_state_load, once after a reset. *)
LoadState ==
  /\ ~smReady
  /\ InitMachine(Stored.sm)
  /\ data' = Stored.data
  /\ dirty' = FALSE
  /\ UNCHANGED <<image, saving, stats, handlers, ready, direct>>

InitHandler ==
  /\ ~ready
  /\ ready' = TRUE
  /\ stats' = NoStats /\ direct' = 0 /\ handlers' = <<>>
  /\ UNCHANGED <<state, image, saving>>

(* Reset at any point, also inside sys_state_save: all statics are zero.   *)
Reset ==
  /\ sm' = "BOOT" /\ smReady' = FALSE /\ data' = ZeroData /\ dirty' = FALSE
  /\ saving' = FALSE /\ stats' = NoStats /\ handlers' = <<>> /\ ready' = FALSE /\ direct' = 0
  /\ UNCHANGED image

Init ==
  /\ sm = "BOOT" /\ smReady = FALSE /\ data = ZeroData /\ dirty = FALSE
  /\ saving = FALSE /\ stats = NoStats /\ handlers = <<>> /\ ready = FALSE /\ direct = 0
  /\ image = NoImage

Next ==
  \/ \E id \in CmdId, p \in Payloads : Frame(id, p) \/ DirectCommand(id, p)
  \/ MalformedFrame
  \/ \E id \in CustomIds : RegisterHandler(id)
  \/ ClearStats
  \/ \E event \in Event : OtherEvent(event)
  \/ Measure
  \/ BeginSave \/ FinishSave
  \/ LoadState \/ InitHandler
  \/ Reset

Spec == Init /\ [][Next]_vars

-----------------------------------------------------------------------------

(* Every value the code can hold; power modes stop at POWER_MODE_ACTIVE. *)
TypeOK ==
  /\ sm \in State /\ smReady \in BOOLEAN
  /\ data \in Data /\ dirty \in BOOLEAN
  /\ image \in Image \union {NoImage, Torn} /\ saving \in BOOLEAN
  /\ stats \in [DOMAIN NoStats -> 0..StatRange-1]
  /\ handlers \in Seq(CustomIds) /\ Len(handlers) <= MaxHandlers
  /\ ready \in BOOLEAN /\ direct \in 0..StatRange-1

(* Each command that arrives or is executed directly is counted once, as   *)
(* executed, rejected or an authorisation failure, over wrapping counters, *)
(* clearing and resets.  cmd_process counts some outcomes and cmd_execute  *)
(* the others.                                                             *)
EveryCommandCounted ==
  (stats.received + direct) % StatRange =
    (stats.executed + stats.rejected + stats.authFailures) % StatRange

(* While the state machine is in SAFE or EMERGENCY no command, from a      *)
(* frame or from the program, switches the payload or the power mode: only *)
(* a reset or a reload does.                                               *)
SafeStateShields ==
  [][smReady /\ smReady' /\ sm \in {"SAFE", "EMERGENCY"}
       => UNCHANGED <<data.mode, data.payload>>]_vars

(* state_machine.c, of the last rows of its table: "Any state to EMERGENCY *)
(* on critical events".  The rows are those of IDLE and ACTIVE; after the  *)
(* event the machine is in EMERGENCY.                                      *)
CriticalEventsReachEmergency ==
  [][OtherEvent("POWER_CRITICAL") /\ sm \in {"IDLE", "ACTIVE"} => sm' = "EMERGENCY"]_vars

(* No state is EMERGENCY: for each row that leads there an earlier row     *)
(* matches.                                                                *)
EmergencyNotEntered == sm # "EMERGENCY"

(* system_state.h: dirty says whether the "state has been modified and     *)
(* needs saving".  The data of a state that is not dirty are what a        *)
(* restart brings back.                                                    *)
CleanMeansSaved == smReady /\ ~saving /\ ~dirty => Stored.data = data

(* What has to hold of callers and storage for clean data to be stored.    *)
ReportedFailures == ~SaveWhenClean /\ ~(Buffered /\ StorageCanFail)

(***************************************************************************)
(* The record, the state machine's part included, is a durable value, with *)
(* failing storage, resets anywhere and commands before the load: a        *)
(* restart loads a record that was in force when it was saved, or the      *)
(* defaults.  If only dirty states are saved and storage reports that it   *)
(* failed, then the stored record is the one in force unless the state is  *)
(* dirty or the machine has moved since (an event makes nothing dirty).    *)
(***************************************************************************)
Durable == INSTANCE DurableValue
  WITH Value <- Image, Default <- [sm |-> "BOOT", data |-> DefaultData],
       Reliable <- ReportedFailures,
       on <- smReady, copy <- Stored,
       current <- IF smReady THEN [sm |-> sm, data |-> data] ELSE Stored,
       pending <- smReady /\ (saving \/ dirty \/ sm # Stored.sm)

StateIsDurable == Durable!Spec
=============================================================================
