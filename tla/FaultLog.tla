------------------------------ MODULE FaultLog ------------------------------
(***************************************************************************)
(* The fault log (fault_mgmt.c): an array of the latest faults, oldest     *)
(* first, and the file that holds a copy of it.  Every new entry empties   *)
(* the file and writes all entries again.  Entries are whole or absent: a  *)
(* cut one fails its length or its checksum and is dropped by the load.    *)
(*                                                                         *)
(* An entry is told from the others by its time stamp, a counter here.     *)
(* The file may fail to open, and then stays as it was, and a write may    *)
(* fall short; fault_log_add looks at neither.  Recovery and the watchdog  *)
(* flag of fault_mgmt.c are in FlightMain.                                 *)
(***************************************************************************)
EXTENDS Integers, Sequences

CONSTANTS
  FaultDepth,     \* SMART_QSO_MAX_FAULT_ENTRIES
  FaultStamps,    \* number of time stamps told apart
  DiskCanFill     \* may fopen, a write or remove fail?

ASSUME FaultLogAssumption ==
  /\ {FaultDepth, FaultStamps} \subseteq Nat \ {0}
  /\ DiskCanFill \in BOOLEAN

VARIABLES
  faults,         \* s_fault_log, its first s_fault_log_count entries
  faultFile,      \* the entries in FAULT_LOG_FILE; none if there is no file
  faultWriting,   \* between fopen("wb") and fclose in fault_log_save
  stamp,          \* the clock: the stamp of the next entry
  faultCut        \* history: what fault_log_save last returned was an error

faultVars == <<faults, faultFile, faultWriting, stamp, faultCut>>

Stamp == 0..(FaultStamps - 1)
FaultLogEntry == [stamp : Stamp, recovered : BOOLEAN]

Prefixes(log) == {SubSeq(log, 1, n) : n \in 0..Len(log)}

FaultInit ==
  /\ faults = <<>>
  /\ faultFile = <<>>
  /\ faultWriting = FALSE
  /\ stamp = 0
  /\ faultCut = FALSE

(* Mutant: a full log is not shifted, the last entry is overwritten. *)
RoomMade_Last(log) ==
  IF Len(log) >= FaultDepth THEN SubSeq(log, 1, FaultDepth - 1) ELSE log

(* Mutant: room is made one entry too late. *)
RoomMade_Late(log) == IF Len(log) > FaultDepth THEN Tail(log) ELSE log

RoomMade(log) == IF Len(log) >= FaultDepth THEN Tail(log) ELSE log

(* fault_log_add up to its save, on the given log. *)
WithEntry(log) == Append(RoomMade(log), [stamp |-> stamp, recovered |-> FALSE])
Stamped == stamp' = (stamp + 1) % FaultStamps

(* fault_log_save: the file is emptied, or does not open; then the entries *)
(* are written, all of them or the first ones.                             *)
BeginFaultSave ==
  \/ faultFile' = <<>> /\ faultWriting' = TRUE /\ UNCHANGED faultCut
  \/ DiskCanFill /\ faultCut' = TRUE /\ UNCHANGED <<faultFile, faultWriting>>

FinishFaultSave ==
  /\ faultWriting
  /\ faultWriting' = FALSE
  /\ \/ faultFile' = faults /\ faultCut' = FALSE
     \/ DiskCanFill /\ faultFile' \in Prefixes(faults) /\ faultCut' = TRUE
  /\ UNCHANGED <<faults, stamp>>

AddFault ==
  /\ faults' = WithEntry(faults)
  /\ Stamped
  /\ BeginFaultSave

(* n faults logged by a caller that nothing interrupts; the file is that   *)
(* of the last save, or what failing saves left.                           *)
LogFaults(n) ==
  LET Entry(k) == [stamp |-> (stamp + k) % FaultStamps, recovered |-> FALSE]
      log[k \in 0..n] ==
        IF k = 0 THEN faults ELSE Append(RoomMade(log[k - 1]), Entry(k - 1))
  IN  /\ faults' = log[n]
      /\ stamp' = (stamp + n) % FaultStamps
      /\ \/ n = 0 /\ UNCHANGED <<faultFile, faultCut>>
         \/ n > 0 /\ faultFile' = log[n] /\ faultCut' = FALSE
         \/ /\ DiskCanFill /\ n > 0 /\ faultCut' = TRUE
            /\ \/ UNCHANGED faultFile
               \/ \E k \in 1..n : faultFile' \in Prefixes(log[k])
      /\ UNCHANGED faultWriting

(* Mutant: the mark is made in memory only. *)
MarkRecovered_NotSaved(i) ==
  /\ i \in DOMAIN faults
  /\ faults' = [faults EXCEPT ![i].recovered = TRUE]
  /\ UNCHANGED <<faultFile, faultWriting, stamp, faultCut>>

MarkRecovered(i) ==
  /\ i \in DOMAIN faults
  /\ faults' = [faults EXCEPT ![i].recovered = TRUE]
  /\ BeginFaultSave
  /\ UNCHANGED stamp

(* fault_log_clear removes the file, if it can. *)
ClearFaults ==
  /\ faults' = <<>>
  /\ \/ faultFile' = <<>> /\ faultCut' = FALSE
     \/ DiskCanFill /\ faultCut' = TRUE /\ UNCHANGED faultFile
  /\ UNCHANGED <<faultWriting, stamp>>

(* The process dies: a write under way leaves some of the entries. *)
FaultLogDies ==
  /\ faultFile' \in IF faultWriting THEN Prefixes(faults) ELSE {faultFile}
  /\ faults' = <<>>
  /\ faultWriting' = FALSE
  /\ faultCut' = FALSE
  /\ UNCHANGED stamp

-----------------------------------------------------------------------------
FaultTypeOK ==
  /\ faults \in Seq(FaultLogEntry) /\ Len(faults) <= FaultDepth
  /\ faultFile \in Seq(FaultLogEntry) /\ Len(faultFile) <= FaultDepth
  /\ {faultWriting, faultCut} \subseteq BOOLEAN
  /\ stamp \in Stamp
=============================================================================
