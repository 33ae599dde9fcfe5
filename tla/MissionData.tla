----------------------------- MODULE MissionData -----------------------------
(***************************************************************************)
(* Mission data (mission_data.c): counters kept across resets in a file.   *)
(* The reset count and the phase stand for the record; the other fields    *)
(* are overwritten, or added to, like the phase and the count.             *)
(***************************************************************************)
EXTENDS Integers

CONSTANTS
  MissionPhase,   \* MissionPhase_t
  FirstPhase,     \* MISSION_PHASE_IDLE, the phase of a new record
  ResetRange,     \* reset_count counts modulo this, 2^32 in the code
  RecordCanBeCut, \* may fopen or a write fail?
  Unreadable      \* a file that is missing, short or fails its checksum

ASSUME MissionAssumption ==
  /\ FirstPhase \in MissionPhase
  /\ ResetRange \in Nat /\ ResetRange > 1
  /\ RecordCanBeCut \in BOOLEAN

VARIABLES
  mission,         \* s_mission_data
  missionFile,     \* MISSION_DATA_FILE: a record, or Unreadable
  missionWriting,  \* between fopen("wb") and fclose in mission_data_save
  (* History. *)
  saved,           \* this session's record has been in the file
  saveFailed,      \* mission_data_save last returned an error, this session
  counted          \* sessions, this one too, whose record has been in the
                   \* file since it was last found unreadable

missionVars == <<mission, missionFile, missionWriting, saved, saveFailed, counted>>

Mission == [resets : 0..(ResetRange - 1), phase : MissionPhase]
Incremented(n) == (n + 1) % ResetRange

(* The zeroed static record, before mission_data_init. *)
Blank == [resets |-> 0, phase |-> FirstPhase]

MissionInit ==
  /\ mission = Blank
  /\ missionFile = Unreadable
  /\ missionWriting = FALSE
  /\ saved = FALSE
  /\ saveFailed = FALSE
  /\ counted = 0

NewMission == [Blank EXCEPT !.resets = 1]

(* Mutant: a loaded record is taken as it is. *)
StartOf_NoReset(file) == IF file = Unreadable THEN NewMission ELSE file

(* mission_data_init: nothing is saved. *)
StartOf(file) ==
  IF file = Unreadable THEN NewMission
  ELSE [file EXCEPT !.resets = Incremented(@)]

StartMission ==
  /\ mission' = StartOf(missionFile)
  /\ saved' = FALSE
  /\ saveFailed' = FALSE
  /\ counted' = IF missionFile = Unreadable THEN 0 ELSE counted
  /\ UNCHANGED <<missionFile, missionWriting>>

SetPhase(phase) ==
  /\ mission' = [mission EXCEPT !.phase = phase]
  /\ UNCHANGED <<missionFile, missionWriting, saved, saveFailed, counted>>

(* mission_data_save: a file that does not open keeps its old record; one  *)
(* that does is emptied, then written.                                     *)
BeginMissionSave ==
  /\ \/ missionFile' = Unreadable /\ missionWriting' = TRUE /\ UNCHANGED saveFailed
     \/ RecordCanBeCut /\ saveFailed' = TRUE /\ UNCHANGED <<missionFile, missionWriting>>
  /\ UNCHANGED <<mission, saved, counted>>

FinishMissionSave ==
  /\ missionWriting
  /\ missionWriting' = FALSE
  /\ \E full \in (IF RecordCanBeCut THEN BOOLEAN ELSE {FALSE}) :
       /\ missionFile' = IF full THEN Unreadable ELSE mission
       /\ saved' = (saved \/ ~full)
       /\ saveFailed' = full
       /\ counted' = IF saved \/ full THEN counted ELSE Incremented(counted)
  /\ UNCHANGED mission

(* A record is written in one piece that a kill leaves out or in. *)
MissionDies ==
  /\ mission' = Blank
  /\ missionWriting' = FALSE
  /\ UNCHANGED <<missionFile, saved, saveFailed, counted>>

-----------------------------------------------------------------------------
MissionTypeOK ==
  /\ mission \in Mission
  /\ missionFile \in Mission \union {Unreadable}
  /\ {missionWriting, saved, saveFailed} \subseteq BOOLEAN
  /\ counted \in 0..(ResetRange - 1)
=============================================================================
