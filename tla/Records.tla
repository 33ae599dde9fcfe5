------------------------------ MODULE Records ------------------------------
(***************************************************************************)
(* What the flight program (main.c) keeps across resets besides the EPS    *)
(* configuration: the fault log and the mission data, with the link to the *)
(* payload, whose failures are logged.  The process is killed at any       *)
(* point, also inside a file write, and started again; the payload and the *)
(* serial adapter come and go.                                             *)
(***************************************************************************)
EXTENDS FaultLog, MissionData, UartComm

CONSTANT PersistPeriod   \* PERSISTENCE_INTERVAL_TICKS

ASSUME RecordsAssumption == PersistPeriod \in Nat \ {0}

VARIABLES
  at,        \* where the program is
  tick,      \* the loop counter, modulo PersistPeriod
  payload    \* eps_is_payload_enabled()

recordsVars == <<faultVars, missionVars, uartVars, at, tick, payload>>

Location == {"off", "update", "comm", "send", "check", "persist", "sleep",
             "exit", "close"}

(* No file is being written; the program is at location l. *)
At(l) == at = l /\ ~faultWriting /\ ~missionWriting

(* fault_mgmt_init loads the file. *)
LoadedLog == faultFile

(* init_system: a link that does not open is logged. *)
Boot ==
  /\ at = "off"
  /\ at' = "update"
  /\ tick' = 0
  /\ StartMission
  /\ OpenUart
  /\ IF uartReady'
     THEN faults' = LoadedLog /\ UNCHANGED <<faultFile, faultWriting, stamp, faultCut>>
     ELSE faults' = WithEntry(LoadedLog) /\ Stamped /\ BeginFaultSave
  /\ UNCHANGED <<adapter, payload>>

(* update_mission_state and monitor_system_health log a recovery, a        *)
(* watchdog timeout, hot sensors and a low battery, each with its save.    *)
LogFault ==
  /\ At("update")
  /\ AddFault
  /\ UNCHANGED <<missionVars, uartVars, at, tick, payload>>

Update ==
  /\ At("update")
  /\ at' = "comm"
  /\ UNCHANGED <<faultVars, missionVars, uartVars, tick, payload>>

(* Mutant: a lost link is only logged. *)
CheckComm_LogOnly ==
  /\ At("comm")
  /\ at' = "send"
  /\ payload /\ ~uartReady
  /\ AddFault
  /\ UNCHANGED <<missionVars, uartVars, tick, payload>>

(* The end of a health check that is due: the link to a powered payload is *)
(* opened again.                                                           *)
CheckComm ==
  /\ At("comm")
  /\ at' = "send"
  /\ payload /\ ~uartReady
  /\ AddFault
  /\ StartUart
  /\ UNCHANGED <<missionVars, adapter, tick, payload>>

SkipComm ==
  /\ At("comm")
  /\ at' = "send"
  /\ UNCHANGED <<faultVars, missionVars, uartVars, tick, payload>>

(* send_telemetry_to_jetson, when it is due. *)
SendTelemetry ==
  /\ At("send")
  /\ at' = "check"
  /\ payload /\ uartReady
  /\ Send
  /\ UNCHANGED <<faultVars, missionVars, adapter, tick, payload>>

SkipSend ==
  /\ At("send")
  /\ at' = "check"
  /\ UNCHANGED <<faultVars, missionVars, uartVars, tick, payload>>

(* uart_check_health, when it is due. *)
CheckLink ==
  /\ At("check")
  /\ at' = "persist"
  /\ IF Sick
     THEN AddFault /\ OpenUart
     ELSE UNCHANGED <<faultVars, fd, uartReady>>
  /\ UNCHANGED <<missionVars, adapter, tick, payload>>

SkipLink ==
  /\ At("check")
  /\ at' = "persist"
  /\ UNCHANGED <<faultVars, missionVars, uartVars, tick, payload>>

Persist ==
  /\ At("persist")
  /\ at' = "sleep"
  /\ IF tick = 0 THEN BeginMissionSave ELSE UNCHANGED missionVars
  /\ UNCHANGED <<faultVars, uartVars, tick, payload>>

Sleep ==
  /\ At("sleep")
  /\ at' = "update"
  /\ tick' = (tick + 1) % PersistPeriod
  /\ UNCHANGED <<faultVars, missionVars, uartVars, payload>>

(* The first file of shutdown_system, then the second and the link. *)
LeaveLoop ==
  /\ At("update")
  /\ at' = "exit"
  /\ BeginMissionSave
  /\ UNCHANGED <<faultVars, uartVars, tick, payload>>

SaveFaults ==
  /\ At("exit")
  /\ at' = "close"
  /\ BeginFaultSave
  /\ UNCHANGED <<faults, stamp, missionVars, uartVars, tick, payload>>

Off ==
  /\ at' = "off"
  /\ FaultLogDies
  /\ MissionDies
  /\ CloseUart
  /\ UNCHANGED <<adapter, tick, payload>>

Exit == At("close") /\ Off
Crash == at # "off" /\ Off

FinishSave ==
  /\ \/ FinishFaultSave /\ UNCHANGED missionVars
     \/ FinishMissionSave /\ UNCHANGED faultVars
  /\ UNCHANGED <<uartVars, at, tick, payload>>

(* Operations of the two modules that main.c leaves to others. *)
Operator ==
  /\ At("sleep")
  /\ \/ \E i \in DOMAIN faults : MarkRecovered(i) /\ UNCHANGED missionVars
     \/ ClearFaults /\ UNCHANGED missionVars
     \/ \E p \in MissionPhase : SetPhase(p) /\ UNCHANGED faultVars
  /\ UNCHANGED <<uartVars, at, tick, payload>>

Environment ==
  \/ /\ Unplug \/ Plug
     /\ UNCHANGED <<faultVars, missionVars, at, tick, payload>>
  \/ /\ payload' = ~payload
     /\ UNCHANGED <<faultVars, missionVars, uartVars, at, tick>>

Init ==
  /\ FaultInit
  /\ MissionInit
  /\ UartInit
  /\ at = "off"
  /\ tick = 0
  /\ payload = FALSE

Loop ==
  \/ Update \/ CheckComm \/ SkipComm \/ SendTelemetry \/ SkipSend
  \/ CheckLink \/ SkipLink \/ Persist \/ Sleep \/ FinishSave

Next ==
  Loop \/ LogFault \/ Boot \/ LeaveLoop \/ SaveFaults \/ Exit \/ Crash \/ Operator \/ Environment

Spec == Init /\ [][Next]_recordsVars

(***************************************************************************)
(* The loop goes on (faults are logged a few at a time, and calls made     *)
(* while it sleeps do not keep it there), and its intervals elapse again   *)
(* and again: when the link is down a health check becomes due, when it is *)
(* up telemetry does.  Nobody promises that the clock is ever in the       *)
(* window in which the link itself is checked.                             *)
(***************************************************************************)
FairSpec ==
  /\ Spec
  /\ WF_recordsVars(Loop)
  /\ SF_recordsVars(Update \/ Sleep)
  /\ SF_recordsVars(CheckComm \/ SendTelemetry)

-----------------------------------------------------------------------------
(* Types of the three modules and of the loop.                             *)
TypeOK ==
  /\ FaultTypeOK
  /\ MissionTypeOK
  /\ UartTypeOK
  /\ at \in Location
  /\ tick \in 0..(PersistPeriod - 1)
  /\ payload \in BOOLEAN

(***************************************************************************)
(* A reset finds the faults that are in memory: whenever no write is under *)
(* way and the last save returned no error, the file is the log, marks of  *)
(* recovery included.                                                      *)
(***************************************************************************)
FaultFileIsLog ==
  at # "off" /\ ~faultWriting /\ ~faultCut => faultFile = faults

(* The stamps of the log, or of what the next boot would load. *)
Stamps(log) == [i \in DOMAIN log |-> log[i].stamp]
Log == INSTANCE DurableLog WITH
  Depth <- FaultDepth,
  Record <- Stamp,
  on <- at # "off",
  kept <- Stamps(IF at = "off" THEN faultFile ELSE faults),
  copy <- Stamps(faultFile),
  writing <- faultWriting,
  stale <- faultCut

(***************************************************************************)
(* Across boots, shutdowns, kills and failing saves the fault log is a     *)
(* durable log: it gives up only its oldest entry, for a new one, while it *)
(* runs, and a restart finds the copy of the last save, whole or without   *)
(* its latest entries, never other entries or another order.               *)
(***************************************************************************)
FaultLogIsDurable == Log!Spec

(***************************************************************************)
(* The reset count is the number of sessions since the file was last found *)
(* unreadable that saved it, and the current one; a readable file holds    *)
(* the count of the sessions that saved it.  A session saves its record in *)
(* its first iteration (tick 0), unless the last save, whose result nobody *)
(* looks at, failed; one that is killed before is not counted.             *)
(***************************************************************************)
ResetsCounted ==
  /\ at # "off" => mission.resets = IF saved THEN counted ELSE Incremented(counted)
  /\ missionFile # Unreadable => missionFile.resets = counted
  /\ At("sleep") \/ At("close") => saved \/ saveFailed

(***************************************************************************)
(* A link that was lost comes back once the adapter is there for good and  *)
(* the payload stays powered, as long as the program runs.                 *)
(***************************************************************************)
Served == at \notin {"off", "exit", "close"} /\ adapter /\ payload
LinkRecovers == <>[]Served => <>[](fd = "live" /\ uartReady)
=============================================================================
