------------------------------ MODULE Libraries ------------------------------
(***************************************************************************)
(* The modules of the flight software that stand on their own, checked in  *)
(* one run.  A behaviour is one of a single module, chosen at the start;   *)
(* the others keep their initial state.                                    *)
(***************************************************************************)
EXTENDS WatchdogMgr, AssertHandler, Adcs, FlightLog, Beacon, Telemetry,
        SystemInit, SafeString, YamlParser, Sensors

VARIABLE part   \* the module that runs

libraryVars == <<part, faultVars, wdVars, asVars, adVars, flVars, bcVars, tmVars,
                 siVars, stVars, ymVars, snVars>>

Part == {"watchdog", "assert", "adcs", "log", "beacon", "telemetry", "init",
         "strings", "yaml", "sensors"}

Init ==
  /\ part \in Part
  /\ FaultInit /\ WdInit /\ AsInit /\ AdInit /\ FlInit /\ BcInit /\ TmInit
  /\ SiInit /\ YmInit /\ SnInit
  /\ StInit
  /\ part # "strings" => \A a \in Address : stMemory[a] = 0

Watchdog ==
  /\ part = "watchdog" /\ WdNext
  /\ UNCHANGED <<part, asVars, adVars, flVars, bcVars, tmVars, siVars, stVars, ymVars, snVars>>

Assertions ==
  /\ part = "assert" /\ AsNext
  /\ UNCHANGED <<part, wdVars, adVars, flVars, bcVars, tmVars, siVars, stVars, ymVars, snVars>>

Attitude ==
  /\ part = "adcs" /\ AdNext
  /\ UNCHANGED <<part, wdVars, asVars, flVars, bcVars, tmVars, siVars, stVars, ymVars, snVars>>

Log ==
  /\ part = "log" /\ FlNext
  /\ UNCHANGED <<part, faultVars, wdVars, asVars, adVars, bcVars, tmVars, siVars, stVars,
                 ymVars, snVars>>

Beacons ==
  /\ part = "beacon" /\ BcNext
  /\ UNCHANGED <<part, faultVars, wdVars, asVars, adVars, flVars, tmVars, siVars, stVars,
                 ymVars, snVars>>

Frames ==
  /\ part = "telemetry" /\ TmNext
  /\ UNCHANGED <<part, faultVars, wdVars, asVars, adVars, flVars, bcVars, siVars, stVars,
                 ymVars, snVars>>

Initialisation ==
  /\ part = "init" /\ SiNext
  /\ UNCHANGED <<part, faultVars, wdVars, asVars, adVars, flVars, bcVars, tmVars, stVars,
                 ymVars, snVars>>

Strings ==
  /\ part = "strings" /\ StNext
  /\ UNCHANGED <<part, faultVars, wdVars, asVars, adVars, flVars, bcVars, tmVars, siVars,
                 ymVars, snVars>>

Configuration ==
  /\ part = "yaml" /\ YmNext
  /\ UNCHANGED <<part, faultVars, wdVars, asVars, adVars, flVars, bcVars, tmVars, siVars,
                 stVars, snVars>>

Table ==
  /\ part = "sensors" /\ SnNext
  /\ UNCHANGED <<part, faultVars, wdVars, asVars, adVars, flVars, bcVars, tmVars, siVars,
                 stVars, ymVars>>

Next ==
  \/ Watchdog \/ Assertions \/ Attitude \/ Log \/ Beacons \/ Frames
  \/ Initialisation \/ Strings \/ Configuration \/ Table

Spec == Init /\ [][Next]_libraryVars

-----------------------------------------------------------------------------
(* Types, and the agreements of counters and indices that go with them.    *)
TypeOK ==
  /\ part \in Part
  /\ FaultTypeOK /\ WdTypeOK /\ AsTypeOK /\ AdTypeOK /\ FlTypeOK /\ BcTypeOK
  /\ TmTypeOK /\ SiTypeOK /\ StTypeOK /\ YmTypeOK /\ SnTypeOK

(***************************************************************************)
(* The flight log and the assertion log keep the latest records in order,  *)
(* each as the abstract bounded log does; of the flight log this is so     *)
(* while its callback neither logs nor clears.                             *)
(***************************************************************************)
RingsAreBoundedLogs == FlBounded!Spec /\ AsBounded!Spec

(***************************************************************************)
(* What the text functions promise: strings stay inside their buffers and  *)
(* configuration values come with the keys that enclose them.              *)
(***************************************************************************)
TextRight == StringsBounded /\ PathsAreParents
=============================================================================
