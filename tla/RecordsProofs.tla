--------------------------- MODULE RecordsProofs ---------------------------
(***************************************************************************)
(* Theorems about Records for every size of the log and every range of the *)
(* counters.                                                               *)
(***************************************************************************)
EXTENDS Records, TLAPS

-----------------------------------------------------------------------------
(* The log after a fault has at most FaultDepth entries. *)
LEMMA RoomMadeType ==
  ASSUME NEW log \in Seq(FaultLogEntry), Len(log) <= FaultDepth
  PROVE  /\ RoomMade(log) \in Seq(FaultLogEntry)
         /\ Len(RoomMade(log)) < FaultDepth
BY FaultLogAssumption DEF RoomMade

LEMMA WithEntryType ==
  ASSUME NEW log \in Seq(FaultLogEntry), Len(log) <= FaultDepth, stamp \in Stamp
  PROVE  /\ WithEntry(log) \in Seq(FaultLogEntry)
         /\ Len(WithEntry(log)) <= FaultDepth
<1>1. [stamp |-> stamp, recovered |-> FALSE] \in FaultLogEntry
  BY DEF FaultLogEntry
<1>2. QED
  BY <1>1, RoomMadeType, FaultLogAssumption DEF WithEntry

LEMMA PrefixType ==
  ASSUME NEW log \in Seq(FaultLogEntry), Len(log) <= FaultDepth, NEW p \in Prefixes(log)
  PROVE  p \in Seq(FaultLogEntry) /\ Len(p) <= FaultDepth
<1>1. PICK n \in 0..Len(log) : p = SubSeq(log, 1, n)
  BY DEF Prefixes
<1>2. n \in Nat /\ n <= Len(log) /\ Len(log) \in Nat
  OBVIOUS
<1>3. \A i \in 1..n : log[i] \in FaultLogEntry
  BY <1>2
<1>4. p = [i \in 1..n |-> log[i]]
  BY <1>1, <1>2
<1>5. QED
  BY <1>2, <1>3, <1>4, FaultLogAssumption

-----------------------------------------------------------------------------
LEMMA NoFaultsType ==
  /\ <<>> \in Seq(FaultLogEntry)
  /\ Len(<<>>) <= FaultDepth
BY FaultLogAssumption

LEMMA BlankType == Blank \in Mission
BY MissionAssumption DEF Blank, Mission

(* The steps of the fault log keep its types. *)
LEMMA BeginFaultSaveType ==
  ASSUME FaultTypeOK, BeginFaultSave
  PROVE  /\ faultFile' \in Seq(FaultLogEntry) /\ Len(faultFile') <= FaultDepth
         /\ {faultWriting', faultCut'} \subseteq BOOLEAN
BY NoFaultsType DEF FaultTypeOK, BeginFaultSave

LEMMA AddFaultType ==
  ASSUME FaultTypeOK, AddFault
  PROVE  FaultTypeOK'
<1>1. faults' \in Seq(FaultLogEntry) /\ Len(faults') <= FaultDepth
  BY WithEntryType DEF FaultTypeOK, AddFault
<1>2. stamp' \in Stamp
  BY FaultLogAssumption DEF FaultTypeOK, AddFault, Stamped, Stamp
<1>3. QED
  BY <1>1, <1>2, BeginFaultSaveType DEF AddFault, FaultTypeOK

LEMMA FinishFaultSaveType ==
  ASSUME FaultTypeOK, FinishFaultSave
  PROVE  FaultTypeOK'
<1>1. faultFile' = faults \/ faultFile' \in Prefixes(faults)
  BY DEF FinishFaultSave
<1>2. faultFile' \in Seq(FaultLogEntry) /\ Len(faultFile') <= FaultDepth
  BY <1>1, PrefixType DEF FaultTypeOK
<1>3. {faultWriting', faultCut'} \subseteq BOOLEAN
  BY DEF FinishFaultSave
<1>4. QED
  BY <1>2, <1>3 DEF FaultTypeOK, FinishFaultSave

LEMMA MarkRecoveredType ==
  ASSUME FaultTypeOK, NEW i \in DOMAIN faults, MarkRecovered(i)
  PROVE  /\ FaultTypeOK'
         /\ Len(faults') = Len(faults)
<1>1. i \in 1..Len(faults) /\ faults[i] \in FaultLogEntry
  BY DEF FaultTypeOK
<1>2. [faults[i] EXCEPT !.recovered = TRUE] \in FaultLogEntry
  BY <1>1 DEF FaultLogEntry
<1>3. faults' = [faults EXCEPT ![i] = [faults[i] EXCEPT !.recovered = TRUE]]
  BY DEF MarkRecovered
<1>4. faults' \in Seq(FaultLogEntry) /\ Len(faults') = Len(faults)
  BY <1>1, <1>2, <1>3 DEF FaultTypeOK
<1>5. QED
  BY <1>4, BeginFaultSaveType DEF FaultTypeOK, MarkRecovered

LEMMA FaultLogDiesType ==
  ASSUME FaultTypeOK, FaultLogDies
  PROVE  FaultTypeOK'
<1>1. faultFile' = faultFile \/ faultFile' \in Prefixes(faults)
  BY DEF FaultLogDies
<1>2. faultFile' \in Seq(FaultLogEntry) /\ Len(faultFile') <= FaultDepth
  BY <1>1, PrefixType DEF FaultTypeOK
<1>3. faults' \in Seq(FaultLogEntry) /\ Len(faults') <= FaultDepth
  BY NoFaultsType DEF FaultLogDies
<1>4. {faultWriting', faultCut'} \subseteq BOOLEAN /\ stamp' \in Stamp
  BY DEF FaultTypeOK, FaultLogDies
<1>5. QED
  BY <1>2, <1>3, <1>4 DEF FaultTypeOK

(* The steps of the mission data keep their types. *)
LEMMA StartMissionType ==
  ASSUME MissionTypeOK, StartMission
  PROVE  MissionTypeOK'
<1>1. NewMission \in Mission
  BY MissionAssumption DEF NewMission, Blank, Mission
<1>2. ASSUME missionFile \in Mission
      PROVE  [missionFile EXCEPT !.resets = Incremented(@)] \in Mission
  BY <1>2, MissionAssumption DEF Mission, Incremented
<1>3. mission' \in Mission
  BY <1>1, <1>2 DEF MissionTypeOK, StartMission, StartOf
<1>4. counted' \in 0..(ResetRange - 1)
  BY MissionAssumption DEF MissionTypeOK, StartMission
<1>5. QED
  BY <1>3, <1>4 DEF MissionTypeOK, StartMission

LEMMA FinishMissionSaveType ==
  ASSUME MissionTypeOK, FinishMissionSave
  PROVE  MissionTypeOK'
<1>1. PICK full \in BOOLEAN :
        /\ missionFile' = IF full THEN Unreadable ELSE mission
        /\ saved' = (saved \/ ~full)
        /\ saveFailed' = full
        /\ counted' = IF saved \/ full THEN counted ELSE Incremented(counted)
  BY DEF FinishMissionSave
<1>2. missionFile' \in Mission \union {Unreadable}
  BY <1>1 DEF MissionTypeOK
<1>3. counted' \in {counted, Incremented(counted)}
  BY <1>1
<1>4. counted' \in 0..(ResetRange - 1)
  BY <1>3, MissionAssumption DEF MissionTypeOK, Incremented
<1>5. saved' \in BOOLEAN /\ saveFailed' \in BOOLEAN
  BY <1>1
<1>6. QED
  BY <1>2, <1>4, <1>5 DEF MissionTypeOK, FinishMissionSave

LEMMA MissionDiesType ==
  ASSUME MissionTypeOK, MissionDies
  PROVE  MissionTypeOK'
BY BlankType DEF MissionTypeOK, MissionDies

LEMMA BeginMissionSaveType ==
  ASSUME MissionTypeOK, BeginMissionSave
  PROVE  MissionTypeOK'
BY DEF MissionTypeOK, BeginMissionSave

(***************************************************************************)
(* The types of the fault log, the mission data, the link and the loop     *)
(* (FaultLogEntry_t, MissionData_t, the counts modulo their ranges) hold   *)
(* for every size of the log and every range.                              *)
(***************************************************************************)
THEOREM TypeCorrect == Spec => []TypeOK
<1>1. ASSUME Init
      PROVE  TypeOK
  <2>1. {faultWriting, faultCut, missionWriting, saved, saveFailed, adapter, uartReady, payload}
          \subseteq BOOLEAN
    BY <1>1 DEF Init, FaultInit, MissionInit, UartInit
  <2>2. stamp \in Stamp /\ counted \in 0..(ResetRange - 1) /\ tick \in 0..(PersistPeriod - 1)
    <3>1. stamp = 0 /\ counted = 0 /\ tick = 0
      BY <1>1 DEF Init, FaultInit, MissionInit
    <3>2. QED
      BY <3>1, FaultLogAssumption, MissionAssumption, RecordsAssumption DEF Stamp
  <2>3. FaultTypeOK
    BY <1>1, <2>1, <2>2, NoFaultsType DEF Init, FaultInit, FaultTypeOK
  <2>4. MissionTypeOK
    BY <1>1, <2>1, <2>2, BlankType DEF Init, MissionInit, MissionTypeOK
  <2>5. at \in Location /\ fd \in {"none", "live", "dead"}
    BY <1>1 DEF Init, UartInit, Location
  <2>6. QED
    BY <2>1, <2>2, <2>3, <2>4, <2>5 DEF TypeOK, UartTypeOK
<1>2. ASSUME TypeOK, [Next]_recordsVars
      PROVE  TypeOK'
  <2>1. CASE LogFault
    BY <1>2, <2>1, AddFaultType
       DEF TypeOK, LogFault, MissionTypeOK, UartTypeOK, missionVars, uartVars
  <2>2. CASE Update \/ SkipComm \/ SkipSend \/ SkipLink
    BY <1>2, <2>2
       DEF TypeOK, Update, SkipComm, SkipSend, SkipLink, Location, FaultTypeOK,
           MissionTypeOK, UartTypeOK, faultVars, missionVars, uartVars
  <2>3. CASE CheckComm
    BY <1>2, <2>3, AddFaultType
       DEF TypeOK, CheckComm, StartUart, OpenUart, Opened, Location, MissionTypeOK,
           UartTypeOK, missionVars
  <2>4. CASE SendTelemetry
    BY <1>2, <2>4
       DEF TypeOK, SendTelemetry, Send, OpenUart, Opened, Location, FaultTypeOK,
           MissionTypeOK, UartTypeOK, faultVars, missionVars
  <2>5. CASE CheckLink
    BY <1>2, <2>5, AddFaultType
       DEF TypeOK, CheckLink, OpenUart, Opened, Location, FaultTypeOK,
           MissionTypeOK, UartTypeOK, faultVars, missionVars
  <2>6. CASE Persist
    <3>1. MissionTypeOK'
      BY <1>2, <2>6, BeginMissionSaveType DEF TypeOK, Persist, MissionTypeOK, missionVars
    <3>2. QED
      BY <1>2, <2>6, <3>1 DEF TypeOK, Persist, Location, FaultTypeOK, UartTypeOK,
                              faultVars, uartVars
  <2>7. CASE Sleep
    <3>1. tick' \in 0..(PersistPeriod - 1)
      BY <1>2, <2>7, RecordsAssumption DEF TypeOK, Sleep
    <3>2. QED
      BY <1>2, <2>7, <3>1 DEF TypeOK, Sleep, Location, FaultTypeOK, MissionTypeOK,
                              UartTypeOK, faultVars, missionVars, uartVars
  <2>8. CASE FinishSave
    <3>1. FaultTypeOK'
      BY <1>2, <2>8, FinishFaultSaveType DEF TypeOK, FinishSave, FaultTypeOK, faultVars
    <3>2. MissionTypeOK'
      BY <1>2, <2>8, FinishMissionSaveType
         DEF TypeOK, FinishSave, MissionTypeOK, missionVars
    <3>3. QED
      BY <1>2, <2>8, <3>1, <3>2 DEF TypeOK, FinishSave, UartTypeOK, uartVars
  <2>9. CASE Boot
    <3>1. faults' \in Seq(FaultLogEntry) /\ Len(faults') <= FaultDepth
      BY <1>2, <2>9, WithEntryType DEF TypeOK, Boot, LoadedLog, FaultTypeOK
    <3>2. stamp' \in Stamp
      BY <1>2, <2>9, FaultLogAssumption DEF TypeOK, Boot, FaultTypeOK, Stamped, Stamp
    <3>3. FaultTypeOK'
      BY <1>2, <2>9, <3>1, <3>2, BeginFaultSaveType DEF TypeOK, Boot, FaultTypeOK
    <3>4. MissionTypeOK'
      BY <1>2, <2>9, StartMissionType DEF TypeOK, Boot
    <3>5. QED
      BY <1>2, <2>9, <3>3, <3>4, RecordsAssumption
         DEF TypeOK, Boot, OpenUart, Opened, UartTypeOK, Location
  <2>10. CASE LeaveLoop
    <3>1. MissionTypeOK'
      BY <1>2, <2>10, BeginMissionSaveType DEF TypeOK, LeaveLoop
    <3>2. QED
      BY <1>2, <2>10, <3>1 DEF TypeOK, LeaveLoop, Location, FaultTypeOK, UartTypeOK,
                               faultVars, uartVars
  <2>11. CASE SaveFaults
    BY <1>2, <2>11, BeginFaultSaveType
       DEF TypeOK, SaveFaults, Location, FaultTypeOK, MissionTypeOK, UartTypeOK,
           missionVars, uartVars
  <2>12. CASE Exit \/ Crash
    <3>1. Off
      BY <2>12 DEF Exit, Crash
    <3>2. FaultTypeOK' /\ MissionTypeOK'
      BY <1>2, <3>1, FaultLogDiesType, MissionDiesType DEF TypeOK, Off
    <3>3. QED
      BY <1>2, <3>1, <3>2 DEF TypeOK, Off, CloseUart, Location, UartTypeOK
  <2>13. CASE Operator
    <3>1. FaultTypeOK'
      <4>1. ClearFaults => FaultTypeOK'
        BY <1>2, NoFaultsType DEF TypeOK, ClearFaults, FaultTypeOK
      <4>2. UNCHANGED faultVars => FaultTypeOK'
        BY <1>2 DEF TypeOK, FaultTypeOK, faultVars
      <4>3. QED
        BY <1>2, <2>13, <4>1, <4>2, MarkRecoveredType DEF TypeOK, Operator
    <3>2. MissionTypeOK'
      BY <1>2, <2>13 DEF TypeOK, Operator, SetPhase, MissionTypeOK, Mission, missionVars
    <3>3. QED
      BY <1>2, <2>13, <3>1, <3>2 DEF TypeOK, Operator, UartTypeOK, uartVars
  <2>14. CASE Environment
    BY <1>2, <2>14
       DEF TypeOK, Environment, Unplug, Plug, FaultTypeOK, MissionTypeOK, UartTypeOK,
           faultVars, missionVars, uartVars
  <2>15. CASE UNCHANGED recordsVars
    BY <1>2, <2>15
       DEF TypeOK, recordsVars, FaultTypeOK, MissionTypeOK, UartTypeOK, faultVars,
           missionVars, uartVars
  <2>16. QED
    BY <1>2, <2>1, <2>2, <2>3, <2>4, <2>5, <2>6, <2>7, <2>8, <2>9, <2>10, <2>11,
       <2>12, <2>13, <2>14, <2>15 DEF Next, Loop
<1>3. QED
  BY <1>1, <1>2, PTL DEF Spec

-----------------------------------------------------------------------------
(* What the steps of the program do to the fault log and its file. *)
FaultsUntouched == UNCHANGED <<faults, faultFile, faultWriting, faultCut>>

LEMMA FaultSteps ==
  ASSUME [Next]_recordsVars
  PROVE  \/ FaultsUntouched /\ (at = "off") = (at' = "off")
         \/ FinishFaultSave /\ at' = at
         \/ Boot
         \/ at # "off" /\ at' = "off" /\ FaultLogDies
         \/ /\ at # "off" /\ at' # "off"
            /\ \/ AddFault
               \/ BeginFaultSave /\ UNCHANGED faults
               \/ \E i \in DOMAIN faults : MarkRecovered(i)
               \/ ClearFaults
<1>1. CASE LogFault \/ CheckComm
  BY <1>1 DEF LogFault, CheckComm, At
<1>2. CASE Update \/ SkipComm \/ SendTelemetry \/ SkipSend \/ SkipLink \/ Persist
           \/ Sleep \/ LeaveLoop
  BY <1>2
     DEF Update, SkipComm, SendTelemetry, SkipSend, SkipLink, Persist, Sleep, LeaveLoop,
         At, faultVars, FaultsUntouched
<1>3. CASE CheckLink
  BY <1>3 DEF CheckLink, At, faultVars, FaultsUntouched
<1>4. CASE SaveFaults
  BY <1>4 DEF SaveFaults, At
<1>5. CASE FinishSave
  BY <1>5 DEF FinishSave, faultVars, FaultsUntouched
<1>6. CASE Exit \/ Crash
  BY <1>6 DEF Exit, Crash, Off, At
<1>7. CASE Operator
  BY <1>7 DEF Operator, At, faultVars, FaultsUntouched
<1>8. CASE Environment \/ UNCHANGED recordsVars
  BY <1>8 DEF Environment, recordsVars, faultVars, FaultsUntouched
<1>9. QED
  BY <1>1, <1>2, <1>3, <1>4, <1>5, <1>6, <1>7, <1>8 DEF Next, Loop

(* A program that is off writes nothing. *)
FileInv ==
  /\ FaultFileIsLog
  /\ at = "off" => ~faultWriting /\ ~faultCut

LEMMA FileInvStep ==
  ASSUME FileInv, [Next]_recordsVars
  PROVE  FileInv'
<1>1. CASE FaultsUntouched /\ (at = "off") = (at' = "off")
  BY <1>1 DEF FileInv, FaultFileIsLog, FaultsUntouched
<1>2. CASE FinishFaultSave /\ at' = at
  BY <1>2 DEF FileInv, FaultFileIsLog, FinishFaultSave
<1>3. CASE Boot
  <2>1. at = "off" /\ at' # "off" /\ ~faultWriting /\ ~faultCut
    BY <1>3 DEF Boot, FileInv
  <2>2. CASE uartReady'
    BY <1>3, <2>1, <2>2 DEF Boot, LoadedLog, FileInv, FaultFileIsLog
  <2>3. CASE ~uartReady'
    BY <1>3, <2>1, <2>3 DEF Boot, BeginFaultSave, FileInv, FaultFileIsLog
  <2>4. QED
    BY <2>2, <2>3
<1>4. CASE at # "off" /\ at' = "off" /\ FaultLogDies
  BY <1>4 DEF FaultLogDies, FileInv, FaultFileIsLog
<1>5. CASE at # "off" /\ at' # "off" /\ BeginFaultSave
  BY <1>5 DEF BeginFaultSave, FileInv, FaultFileIsLog
<1>6. CASE at # "off" /\ at' # "off" /\ ClearFaults
  BY <1>6 DEF ClearFaults, FileInv, FaultFileIsLog
<1>7. QED
  BY <1>1, <1>2, <1>3, <1>4, <1>5, <1>6, FaultSteps DEF AddFault, MarkRecovered

THEOREM FileInvHolds == Spec => []FileInv
<1>1. Init => FileInv
  BY DEF Init, FaultInit, FileInv, FaultFileIsLog
<1>2. FileInv /\ [Next]_recordsVars => FileInv'
  BY FileInvStep
<1>3. QED
  BY <1>1, <1>2, PTL DEF Spec

(***************************************************************************)
(* What a reset finds: the file is the log of fault_mgmt.c whenever no     *)
(* write is under way and the last save returned no error.                 *)
(***************************************************************************)
THEOREM FaultFileIsLogHolds == Spec => []FaultFileIsLog
<1>1. FileInv => FaultFileIsLog
  BY DEF FileInv
<1>2. QED
  BY <1>1, FileInvHolds, PTL

-----------------------------------------------------------------------------
(* Stamps commutes with what the fault log does to a sequence. *)
LEMMA StampsType ==
  ASSUME NEW log \in Seq(FaultLogEntry)
  PROVE  /\ Stamps(log) \in Seq(Stamp)
         /\ Len(Stamps(log)) = Len(log)
         /\ \A i \in 1..Len(log) : Stamps(log)[i] = log[i].stamp
<1>1. DOMAIN log = 1..Len(log) /\ Len(log) \in Nat
  OBVIOUS
<1>2. \A i \in 1..Len(log) : log[i] \in FaultLogEntry /\ log[i].stamp \in Stamp
  <2>1. \A e \in FaultLogEntry : e.stamp \in Stamp
    BY DEF FaultLogEntry
  <2>2. QED
    BY <1>1, <2>1
<1>3. Stamps(log) = [i \in 1..Len(log) |-> log[i].stamp]
  BY <1>1 DEF Stamps
<1>4. QED
  BY <1>1, <1>2, <1>3

LEMMA StampsAppend ==
  ASSUME NEW log \in Seq(FaultLogEntry), NEW e \in FaultLogEntry
  PROVE  Stamps(Append(log, e)) = Append(Stamps(log), e.stamp)
<1> DEFINE left == Stamps(Append(log, e))
           right == Append(Stamps(log), e.stamp)
<1>1. Append(log, e) \in Seq(FaultLogEntry) /\ Len(Append(log, e)) = Len(log) + 1
  OBVIOUS
<1>2. e.stamp \in Stamp
  BY DEF FaultLogEntry
<1>3. /\ left \in Seq(Stamp) /\ Len(left) = Len(log) + 1
      /\ right \in Seq(Stamp) /\ Len(right) = Len(log) + 1
  <2>1. left \in Seq(Stamp) /\ Len(left) = Len(log) + 1
    BY <1>1, StampsType
  <2>2. Stamps(log) \in Seq(Stamp) /\ Len(Stamps(log)) = Len(log)
    BY StampsType
  <2>3. QED
    BY <1>2, <2>1, <2>2
<1>4. ASSUME NEW i \in 1..(Len(log) + 1)
      PROVE  left[i] = right[i]
  <2>1. left[i] = Append(log, e)[i].stamp
    BY <1>1, StampsType
  <2>2. CASE i = Len(log) + 1
    BY <2>1, <2>2, <1>2, StampsType
  <2>3. CASE i \in 1..Len(log)
    BY <2>1, <2>3, <1>2, StampsType
  <2>4. i = Len(log) + 1 \/ i \in 1..Len(log)
    <3>1. Len(log) \in Nat
      OBVIOUS
    <3>2. QED
      BY <3>1
  <2>5. QED
    BY <2>2, <2>3, <2>4
<1>5. QED
  BY <1>3, <1>4

LEMMA StampsTail ==
  ASSUME NEW log \in Seq(FaultLogEntry), Len(log) > 0
  PROVE  Stamps(Tail(log)) = Tail(Stamps(log))
<1> DEFINE left == Stamps(Tail(log))
           right == Tail(Stamps(log))
<1>1. Tail(log) \in Seq(FaultLogEntry) /\ Len(Tail(log)) = Len(log) - 1
  OBVIOUS
<1>2. Stamps(log) \in Seq(Stamp) /\ Len(Stamps(log)) = Len(log)
  BY StampsType
<1>3. /\ left \in Seq(Stamp) /\ Len(left) = Len(log) - 1
      /\ right \in Seq(Stamp) /\ Len(right) = Len(log) - 1
  <2>1. left \in Seq(Stamp) /\ Len(left) = Len(log) - 1
    BY <1>1, StampsType
  <2>2. QED
    BY <1>2, <2>1
<1>4. ASSUME NEW i \in 1..(Len(log) - 1)
      PROVE  left[i] = right[i]
  <2>1. left[i] = Tail(log)[i].stamp
    BY <1>1, StampsType
  <2>2. Tail(log)[i] = log[i + 1] /\ i + 1 \in 1..Len(log)
    OBVIOUS
  <2>3. right[i] = Stamps(log)[i + 1]
    BY <1>2
  <2>4. QED
    BY <2>1, <2>2, <2>3, StampsType
<1>5. left = right
  <2> HIDE DEF left, right
  <2>1. Len(left) = Len(right)
    BY <1>3
  <2>2. \A i \in 1..Len(left) : left[i] = right[i]
    BY <1>3, <1>4
  <2>3. QED
    BY <1>3, <2>1, <2>2, SMTT(30)
<1>6. QED
  BY <1>5

LEMMA StampsPrefix ==
  ASSUME NEW log \in Seq(FaultLogEntry), NEW n \in 0..Len(log)
  PROVE  Stamps(SubSeq(log, 1, n)) = SubSeq(Stamps(log), 1, n)
<1>1. Len(log) \in Nat /\ n \in Nat /\ n <= Len(log)
  OBVIOUS
<1>2. SubSeq(log, 1, n) = [i \in 1..n |-> log[i]]
  BY <1>1
<1>3. SubSeq(Stamps(log), 1, n) = [i \in 1..n |-> Stamps(log)[i]]
  BY <1>1
<1>4. \A i \in 1..n : Stamps(log)[i] = log[i].stamp
  BY <1>1, StampsType
<1>5. Stamps(SubSeq(log, 1, n)) = [i \in 1..n |-> log[i].stamp]
  BY <1>2 DEF Stamps
<1>6. QED
  BY <1>3, <1>4, <1>5

LEMMA StampsWithEntry ==
  ASSUME NEW log \in Seq(FaultLogEntry), Len(log) <= FaultDepth, stamp \in Stamp
  PROVE  Stamps(WithEntry(log)) = Log!Added(Stamps(log), stamp)
<1> DEFINE entry == [stamp |-> stamp, recovered |-> FALSE]
<1>1. entry \in FaultLogEntry /\ entry.stamp = stamp
  BY DEF FaultLogEntry
<1>2. Len(log) \in Nat /\ FaultDepth \in Nat \ {0} /\ Len(Stamps(log)) = Len(log)
  BY StampsType, FaultLogAssumption
<1>3. CASE Len(log) < FaultDepth
  <2>1. WithEntry(log) = Append(log, entry)
    BY <1>2, <1>3 DEF WithEntry, RoomMade
  <2>2. QED
    BY <1>1, <1>2, <1>3, <2>1, StampsAppend DEF Log!Added
<1>4. CASE Len(log) = FaultDepth
  <2>1. WithEntry(log) = Append(Tail(log), entry) /\ Tail(log) \in Seq(FaultLogEntry)
    BY <1>2, <1>4 DEF WithEntry, RoomMade
  <2>2. Stamps(Tail(log)) = Tail(Stamps(log))
    BY <1>2, <1>4, StampsTail
  <2>3. Stamps(WithEntry(log)) = Append(Stamps(Tail(log)), stamp)
    BY <1>1, <2>1, StampsAppend
  <2>4. ~(Len(Stamps(log)) < FaultDepth)
    BY <1>2, <1>4
  <2>5. QED
    BY <2>2, <2>3, <2>4 DEF Log!Added
<1>5. QED
  BY <1>2, <1>3, <1>4

(* What the abstract log sees of a state. *)
Kept == Stamps(IF at = "off" THEN faultFile ELSE faults)
Copy == Stamps(faultFile)

LEMMA PrefixIsBeginning ==
  ASSUME NEW log \in Seq(FaultLogEntry), NEW p \in Prefixes(log)
  PROVE  Stamps(p) \in Log!Beginnings(Stamps(log))
<1>1. PICK n \in 0..Len(log) : p = SubSeq(log, 1, n)
  BY DEF Prefixes
<1>2. Stamps(p) = SubSeq(Stamps(log), 1, n) /\ Len(Stamps(log)) = Len(log)
  BY <1>1, StampsPrefix, StampsType
<1>3. QED
  BY <1>1, <1>2 DEF Log!Beginnings

LEMMA EmptyIsBeginning ==
  ASSUME NEW log \in Seq(FaultLogEntry)
  PROVE  Stamps(<<>>) \in Log!Beginnings(Stamps(log))
<1>1. 0 \in 0..Len(log) /\ SubSeq(log, 1, 0) = <<>>
  OBVIOUS
<1>2. <<>> \in Prefixes(log)
  BY <1>1 DEF Prefixes
<1>3. QED
  BY <1>2, PrefixIsBeginning

(* A save that begins leaves the copy or empties it. *)
LEMMA BeginCopies ==
  ASSUME FaultTypeOK', at' # "off", BeginFaultSave
  PROVE  Copy' = Copy \/ Copy' \in Log!Beginnings(Kept')
<1>1. CASE UNCHANGED faultFile
  BY <1>1 DEF Copy, Stamps
<1>2. CASE faultFile' = <<>>
  <2>1. Copy' = Stamps(<<>>) /\ Kept' = Stamps(faults')
    BY <1>2 DEF Copy, Kept, Stamps
  <2>2. Stamps(<<>>) \in Log!Beginnings(Stamps(faults'))
    BY EmptyIsBeginning DEF FaultTypeOK
  <2>3. QED
    BY <2>1, <2>2
<1>3. QED
  BY <1>1, <1>2 DEF BeginFaultSave

(* While the program runs and saves nothing, the copy is the log. *)
LEMMA SavedIsKept ==
  ASSUME FileInv', at' # "off", ~faultWriting', ~faultCut'
  PROVE  Copy' = Kept'
BY DEF FileInv, FaultFileIsLog, Copy, Kept, Stamps

LEMMA LogStep ==
  ASSUME TypeOK, TypeOK', FileInv, FileInv', [Next]_recordsVars
  PROVE  [Log!Next]_Log!vars
<1> DEFINE LogWork ==
      /\ Kept' = Kept \/ (\E e \in Stamp : Kept' = Log!Added(Kept, e)) \/ Kept' = <<>>
      /\ Copy' = Copy \/ Copy' \in Log!Beginnings(Kept')
<1>1. ASSUME at # "off", at' # "off", LogWork
      PROVE  Log!Next
  <2>1. ~faultWriting' /\ ~faultCut' => Copy' = Kept'
    BY <1>1, SavedIsKept
  <2>2. QED
    BY <1>1, <2>1
       DEF Log!Next, Log!Work, Log!Keep, Log!Add, Log!Clear, Log!Save, Kept, Copy
<1>2. CASE FaultsUntouched /\ (at = "off") = (at' = "off")
  <2>1. Kept' = Kept /\ Copy' = Copy /\ UNCHANGED <<faultWriting, faultCut>>
    BY <1>2 DEF FaultsUntouched, Kept, Copy, Stamps
  <2>2. QED
    BY <1>2, <2>1 DEF Log!vars, Kept, Copy
<1>3. CASE FinishFaultSave /\ at' = at
  <2>1. at # "off" /\ at' # "off"
    BY <1>3 DEF FinishFaultSave, FileInv
  <2>2. Kept = Stamps(faults) /\ Kept' = Stamps(faults)
    BY <1>3, <2>1 DEF FinishFaultSave, Kept, Stamps
  <2>3. CASE faultFile' = faults
    <3>1. ASSUME NEW log \in Seq(FaultLogEntry)
          PROVE  log \in Prefixes(log)
      <4>1. log = SubSeq(log, 1, Len(log)) /\ Len(log) \in 0..Len(log)
        OBVIOUS
      <4>2. QED
        BY <4>1 DEF Prefixes
    <3>2. Stamps(faultFile') \in Log!Beginnings(Stamps(faults))
      BY <2>3, <3>1, PrefixIsBeginning DEF TypeOK, FaultTypeOK
    <3>3. QED
      BY <1>1, <2>1, <2>2, <3>2 DEF Copy, Stamps
  <2>4. CASE faultFile' \in Prefixes(faults)
    <3>1. Stamps(faultFile') \in Log!Beginnings(Stamps(faults))
      BY <2>4, PrefixIsBeginning DEF TypeOK, FaultTypeOK
    <3>2. QED
      BY <1>1, <2>1, <2>2, <3>1 DEF Copy, Stamps
  <2>5. QED
    BY <1>3, <2>3, <2>4 DEF FinishFaultSave
<1>4. ASSUME at # "off", at' # "off", AddFault
      PROVE  Log!Next
  <2>1. stamp \in Stamp /\ Stamps(WithEntry(faults)) = Log!Added(Stamps(faults), stamp)
    BY StampsWithEntry DEF TypeOK, FaultTypeOK
  <2>2. Kept = Stamps(faults) /\ Kept' = Stamps(WithEntry(faults))
    BY <1>4 DEF Kept, AddFault, Stamps
  <2>3. Copy' = Copy \/ Copy' \in Log!Beginnings(Kept')
    BY <1>4, BeginCopies DEF AddFault, TypeOK
  <2>4. QED
    BY <1>1, <1>4, <2>1, <2>2, <2>3
<1>5. ASSUME at # "off", at' # "off", BeginFaultSave, UNCHANGED faults
      PROVE  Log!Next
  <2>1. Kept' = Kept
    BY <1>5 DEF Kept, Stamps
  <2>2. Copy' = Copy \/ Copy' \in Log!Beginnings(Kept')
    BY <1>5, BeginCopies DEF TypeOK
  <2>3. QED
    BY <1>1, <1>5, <2>1, <2>2
<1>6. ASSUME at # "off", at' # "off", NEW i \in DOMAIN faults, MarkRecovered(i)
      PROVE  Log!Next
  <2>1. DOMAIN faults' = DOMAIN faults /\ \A j \in DOMAIN faults : faults'[j].stamp = faults[j].stamp
    BY <1>6 DEF MarkRecovered, TypeOK, FaultTypeOK, FaultLogEntry
  <2>2. Kept' = Kept
    BY <1>6, <2>1 DEF Kept, Stamps
  <2>3. Copy' = Copy \/ Copy' \in Log!Beginnings(Kept')
    BY <1>6, BeginCopies DEF MarkRecovered, TypeOK
  <2>4. QED
    BY <1>1, <1>6, <2>2, <2>3
<1>7. ASSUME at # "off", at' # "off", ClearFaults
      PROVE  Log!Next
  <2>1. Kept' = <<>> /\ Kept' = Stamps(<<>>)
    BY <1>7 DEF ClearFaults, Kept, Stamps
  <2>2. CASE UNCHANGED faultFile
    <3>1. Copy' = Copy
      BY <2>2 DEF Copy, Stamps
    <3>2. QED
      BY <1>1, <1>7, <2>1, <3>1
  <2>3. CASE faultFile' = <<>>
    <3>1. Copy' = Stamps(<<>>) /\ Stamps(<<>>) \in Log!Beginnings(Stamps(<<>>))
      BY <2>3, EmptyIsBeginning, NoFaultsType DEF Copy, Stamps
    <3>2. QED
      BY <1>1, <1>7, <2>1, <3>1
  <2>4. QED
    BY <1>7, <2>2, <2>3 DEF ClearFaults
<1>8. CASE Boot
  <2>1. at = "off" /\ at' # "off" /\ Kept = Stamps(faultFile)
    BY <1>8 DEF Boot, Kept
  <2>2. ~faultWriting' /\ ~faultCut' => Copy' = Kept'
    BY <2>1, SavedIsKept
  <2>3. ASSUME Kept' = Kept \/ \E e \in Stamp : Kept' = Log!Added(Kept, e),
               Copy' = Copy \/ Copy' \in Log!Beginnings(Kept')
        PROVE  Log!Next
    BY <2>1, <2>2, <2>3
       DEF Log!Next, Log!Start, Log!Keep, Log!Add, Log!Save, Kept, Copy
  <2>4. CASE uartReady'
    <3>1. Kept' = Kept /\ Copy' = Copy
      BY <1>8, <2>1, <2>4 DEF Boot, LoadedLog, Kept, Copy, Stamps
    <3>2. QED
      BY <2>3, <3>1
  <2>5. CASE ~uartReady'
    <3>1. stamp \in Stamp
            /\ Stamps(WithEntry(faultFile)) = Log!Added(Stamps(faultFile), stamp)
      BY StampsWithEntry DEF TypeOK, FaultTypeOK
    <3>2. faults' = WithEntry(faultFile) /\ BeginFaultSave
      BY <1>8, <2>5 DEF Boot, LoadedLog
    <3>3. Kept' = Stamps(WithEntry(faultFile))
      BY <2>1, <3>2 DEF Kept, Stamps
    <3>4. Copy' = Copy \/ Copy' \in Log!Beginnings(Kept')
      BY <2>1, <3>2, BeginCopies DEF TypeOK
    <3>5. QED
      BY <2>1, <2>3, <3>1, <3>3, <3>4
  <2>6. QED
    BY <2>4, <2>5
<1>9. CASE at # "off" /\ at' = "off" /\ FaultLogDies
  <2>1. Kept = Stamps(faults) /\ Kept' = Copy' /\ ~faultWriting' /\ ~faultCut'
    BY <1>9 DEF FaultLogDies, Kept, Copy
  <2>2. CASE faultWriting
    <3>1. Stamps(faultFile') \in Log!Beginnings(Stamps(faults))
      BY <1>9, <2>2, PrefixIsBeginning DEF FaultLogDies, TypeOK, FaultTypeOK
    <3>2. Copy' \in Log!Beginnings(Kept)
      BY <2>1, <3>1 DEF Copy, Stamps
    <3>3. QED
      BY <1>9, <2>1, <2>2, <3>2 DEF Log!Next, Log!Stop, Kept, Copy
  <2>3. CASE ~faultWriting
    <3>1. Copy' = Copy
      BY <1>9, <2>3 DEF FaultLogDies, Copy, Stamps
    <3>2. QED
      BY <1>9, <2>1, <3>1 DEF Log!Next, Log!Stop, Kept, Copy
  <2>4. QED
    BY <2>2, <2>3
<1>10. QED
  BY <1>2, <1>3, <1>4, <1>5, <1>6, <1>7, <1>8, <1>9, FaultSteps

(***************************************************************************)
(* The fault log of fault_mgmt.c, with its file, its boots, its kills and  *)
(* its failing saves, implements the abstract durable log.                 *)
(***************************************************************************)
THEOREM FaultLogIsDurableHolds == Spec => FaultLogIsDurable
<1>1. ASSUME Init
      PROVE  Log!Init
  <2>1. Stamps(<<>>) = <<>>
    BY DEF Stamps
  <2>2. at = "off" /\ faultFile = <<>> /\ faultWriting = FALSE /\ faultCut = FALSE
    BY <1>1 DEF Init, FaultInit
  <2>3. QED
    BY <2>1, <2>2 DEF Log!Init
<1>2. TypeOK /\ TypeOK' /\ FileInv /\ FileInv' /\ [Next]_recordsVars => [Log!Next]_Log!vars
  BY LogStep
<1>3. QED
  BY <1>1, <1>2, TypeCorrect, FileInvHolds, PTL DEF Spec, FaultLogIsDurable, Log!Spec

-----------------------------------------------------------------------------
(* The record in the file is that of the last session counted, and a       *)
(* session past its first iteration has saved or was refused.              *)
SavedOrRefused == saved \/ saveFailed

SessionInv ==
  /\ at # "off" => mission.resets = IF saved THEN counted ELSE Incremented(counted)
  /\ missionFile # Unreadable => missionFile.resets = counted
  /\ missionWriting => at # "off" /\ missionFile = Unreadable
  /\ at # "off" /\ ~missionWriting /\ (tick # 0 \/ at \in {"sleep", "exit", "close"}) =>
       SavedOrRefused

LEMMA StartMissionSession ==
  ASSUME TypeOK, SessionInv, StartMission
  PROVE  /\ mission'.resets = Incremented(counted')
         /\ ~saved' /\ missionFile' = missionFile
         /\ missionFile # Unreadable => counted' = counted
<1>1. CASE missionFile = Unreadable
  <2>1. mission' = NewMission /\ counted' = 0
    BY <1>1 DEF StartMission, StartOf
  <2>2. NewMission.resets = 1 /\ Incremented(0) = 1
    BY MissionAssumption DEF NewMission, Blank, Incremented
  <2>3. QED
    BY <1>1, <2>1, <2>2 DEF StartMission
<1>2. CASE missionFile # Unreadable
  <2>1. mission' = [missionFile EXCEPT !.resets = Incremented(@)] /\ counted' = counted
    BY <1>2 DEF StartMission, StartOf
  <2>2. missionFile \in Mission /\ missionFile.resets = counted
    BY <1>2 DEF TypeOK, MissionTypeOK, SessionInv
  <2>3. mission'.resets = Incremented(counted)
    BY <2>1, <2>2 DEF Mission
  <2>4. QED
    BY <2>1, <2>3 DEF StartMission
<1>3. QED
  BY <1>1, <1>2

LEMMA SessionInvStep ==
  ASSUME TypeOK, SessionInv, [Next]_recordsVars
  PROVE  SessionInv'
<1>1. ASSUME at # "off", at' # "off", UNCHANGED missionVars,
             ~missionWriting /\ (tick' # 0 \/ at' \in {"sleep", "exit", "close"}) => SavedOrRefused
      PROVE  SessionInv'
  BY <1>1 DEF SessionInv, SavedOrRefused, missionVars
<1>begin. ASSUME at # "off", at' # "off", BeginMissionSave
          PROVE  SessionInv'
  <2>1. UNCHANGED <<mission, saved, counted>>
    BY <1>begin DEF BeginMissionSave
  <2>2. CASE missionFile' = Unreadable /\ missionWriting' = TRUE
    BY <1>begin, <2>1, <2>2 DEF SessionInv, SavedOrRefused
  <2>3. CASE saveFailed' = TRUE /\ UNCHANGED <<missionFile, missionWriting>>
    BY <1>begin, <2>1, <2>3 DEF SessionInv, SavedOrRefused
  <2>4. QED
    BY <1>begin, <2>2, <2>3 DEF BeginMissionSave
<1>2. CASE LogFault \/ Update \/ CheckComm \/ SkipComm \/ SendTelemetry \/ SkipSend
           \/ CheckLink \/ SkipLink
  <2>1. /\ at # "off" /\ at' \in {"update", "comm", "send", "check", "persist"}
        /\ UNCHANGED missionVars /\ tick' = tick
    BY <1>2 DEF LogFault, Update, CheckComm, SkipComm, SendTelemetry, SkipSend, CheckLink,
                SkipLink, At
  <2>2. QED
    BY <1>1, <2>1 DEF SessionInv
<1>3. CASE Persist
  <2>1. at = "persist" /\ at' = "sleep" /\ tick' = tick
    BY <1>3 DEF Persist, At
  <2>2. CASE tick = 0
    <3>1. BeginMissionSave
      BY <1>3, <2>2 DEF Persist
    <3>2. QED
      BY <1>begin, <2>1, <3>1
  <2>3. CASE tick # 0
    <3>1. UNCHANGED missionVars
      BY <1>3, <2>3 DEF Persist
    <3>2. QED
      BY <1>1, <2>1, <2>3, <3>1 DEF SessionInv
  <2>4. QED
    BY <2>2, <2>3
<1>4. CASE Sleep
  <2>1. at = "sleep" /\ at' = "update" /\ UNCHANGED missionVars
    BY <1>4 DEF Sleep, At
  <2>2. QED
    BY <1>1, <2>1 DEF SessionInv
<1>5. CASE LeaveLoop
  <2>1. at # "off" /\ at' = "exit" /\ BeginMissionSave
    BY <1>5 DEF LeaveLoop, At
  <2>2. QED
    BY <1>begin, <2>1
<1>6. CASE SaveFaults
  <2>1. at = "exit" /\ at' = "close" /\ UNCHANGED missionVars
    BY <1>6 DEF SaveFaults, At
  <2>2. QED
    BY <1>1, <2>1 DEF SessionInv
<1>7. CASE FinishSave
  <2>1. CASE UNCHANGED <<missionVars, at, tick>>
    BY <2>1 DEF SessionInv, SavedOrRefused, missionVars
  <2>2. CASE FinishMissionSave /\ UNCHANGED <<at, tick>>
    <3>1. at # "off" /\ mission.resets = IF saved THEN counted ELSE Incremented(counted)
      BY <2>2 DEF FinishMissionSave, SessionInv
    <3>2. PICK full \in BOOLEAN :
            /\ missionFile' = IF full THEN Unreadable ELSE mission
            /\ saved' = (saved \/ ~full)
            /\ saveFailed' = full
            /\ counted' = IF saved \/ full THEN counted ELSE Incremented(counted)
      BY <2>2 DEF FinishMissionSave
    <3>3. mission' = mission /\ ~missionWriting'
      BY <2>2 DEF FinishMissionSave
    <3>4. CASE full
      BY <2>2, <3>1, <3>2, <3>3, <3>4 DEF SessionInv, SavedOrRefused
    <3>5. CASE ~full
      BY <2>2, <3>1, <3>2, <3>3, <3>5 DEF SessionInv, SavedOrRefused
    <3>6. QED
      BY <3>4, <3>5
  <2>3. QED
    BY <1>7, <2>1, <2>2 DEF FinishSave
<1>8. CASE Boot
  <2>1. at = "off" /\ at' = "update" /\ tick' = 0 /\ StartMission
    BY <1>8 DEF Boot
  <2>2. ~missionWriting'
    BY <2>1 DEF StartMission, SessionInv
  <2>3. QED
    BY <2>1, <2>2, StartMissionSession DEF SessionInv
<1>9. CASE Exit \/ Crash
  <2>1. at' = "off" /\ ~missionWriting' /\ UNCHANGED <<missionFile, saved, counted>>
    BY <1>9 DEF Exit, Crash, Off, MissionDies
  <2>2. QED
    BY <2>1 DEF SessionInv
<1>10. CASE Operator
  <2>1. at = "sleep" /\ at' = at /\ tick' = tick
    BY <1>10 DEF Operator, At
  <2>2. CASE UNCHANGED missionVars
    BY <1>1, <2>1, <2>2 DEF SessionInv
  <2>3. ASSUME NEW p \in MissionPhase, SetPhase(p)
        PROVE  SessionInv'
    <3>1. /\ mission'.resets = mission.resets
          /\ UNCHANGED <<missionFile, missionWriting, saved, saveFailed, counted>>
      BY <2>3 DEF SetPhase, TypeOK, MissionTypeOK, Mission
    <3>2. QED
      BY <2>1, <3>1 DEF SessionInv, SavedOrRefused
  <2>4. QED
    BY <1>10, <2>2, <2>3 DEF Operator
<1>11. CASE Environment \/ UNCHANGED recordsVars
  <2>1. UNCHANGED <<missionVars, at, tick>>
    BY <1>11 DEF Environment, recordsVars
  <2>2. QED
    BY <2>1 DEF SessionInv, SavedOrRefused, missionVars
<1>12. QED
  BY <1>2, <1>3, <1>4, <1>5, <1>6, <1>7, <1>8, <1>9, <1>10, <1>11 DEF Next, Loop

(***************************************************************************)
(* mission_data.c counts every session whose record has once been in the   *)
(* file and no other, and the loop of main.c has saved the record by the   *)
(* end of its first iteration, unless its last save failed.                *)
(***************************************************************************)
THEOREM ResetsCountedHolds == Spec => []ResetsCounted
<1>1. Init => SessionInv
  BY DEF Init, MissionInit, SessionInv
<1>2. TypeOK /\ SessionInv /\ [Next]_recordsVars => SessionInv'
  BY SessionInvStep
<1>3. SessionInv => ResetsCounted
  BY DEF SessionInv, SavedOrRefused, ResetsCounted, At
<1>4. QED
  BY <1>1, <1>2, <1>3, TypeCorrect, PTL DEF Spec
=============================================================================
