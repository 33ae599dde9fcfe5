------------------------------- MODULE Sensors -------------------------------
(***************************************************************************)
(* The table of sensors (sensors.c): the configuration that main.c loads,  *)
(* a file or the defaults, and the periods of polling.  What a sensor      *)
(* reads is left out.                                                      *)
(*                                                                         *)
(* Times to the next poll appear as waits.  The clock is never set back.   *)
(***************************************************************************)
EXTENDS Integers, Sequences

CONSTANTS
  SensorMax,       \* SMART_QSO_MAX_SENSORS
  FilePeriods,     \* periods that a file may give; 0 if it gives none
  FileMax,         \* bound on the items of a file
  DefaultPeriods,  \* the periods of the default sensors, in order
  NoPeriod         \* the 1000 ms of a sensor without a period

ASSUME SensorAssumption ==
  /\ SensorMax \in Nat \ {0}
  /\ FilePeriods \subseteq Nat
  /\ NoPeriod \in Nat \ {0}
  /\ FileMax \in Nat
  /\ DefaultPeriods \in Seq(Nat \ {0})
  /\ Len(DefaultPeriods) <= SensorMax

VARIABLES
  snStep,      \* how far main.c has come: "off", "empty", "failed", "ready"
  snSensors,   \* s_sensors
  snRead       \* history: time since a sensor was polled, up to MaxWait

snVars == <<snStep, snSensors, snRead>>

PeriodOf(p) == IF p > 0 THEN p ELSE NoPeriod
PeriodsUsed == {PeriodOf(p) : p \in FilePeriods}
                 \union {DefaultPeriods[i] : i \in DOMAIN DefaultPeriods}

ASSUME PeriodsAssumption == \E p \in PeriodsUsed : \A q \in PeriodsUsed : q <= p

MaxWait == CHOOSE p \in PeriodsUsed : \A q \in PeriodsUsed : q <= p

(* An item of a file: its type is known or not; its id stands on the line  *)
(* of the dash, as in sensors.yaml, or on a line of its own.               *)
Item == [known : BOOLEAN, period : FilePeriods, onDash : BOOLEAN]

Sensor(named, period) == [named |-> named, period |-> period, wait |-> 0]

-----------------------------------------------------------------------------
SnInit ==
  /\ snStep = "off"
  /\ snSensors = <<>>
  /\ snRead = <<>>

(* sensors_init. *)
SensorsInitialize ==
  /\ snStep' = "empty"
  /\ snSensors' = <<>>
  /\ snRead' = <<>>

(* add_sensor_from_fields over the items of a file: a full table and a     *)
(* type that is not known are passed over.                                 *)
WithItems(items) ==
  LET table[n \in 0..Len(items)] ==
        IF n = 0 THEN snSensors
        ELSE IF ~items[n].known \/ Len(table[n - 1]) >= SensorMax THEN table[n - 1]
        ELSE Append(table[n - 1], Sensor(~items[n].onDash, items[n].period))
  IN  table[Len(items)]

(* sensors_load_yaml: a line that begins with a dash starts an item and    *)
(* the rest of it is not read.  The file may be absent, or fail to close,  *)
(* which is an error although its sensors are in the table.                *)
LoadYaml(items, opens, closes) ==
  /\ snStep = "empty"
  /\ snSensors' = IF opens THEN WithItems(items) ELSE snSensors
  /\ snStep' = IF opens /\ closes /\ snSensors' # <<>> THEN "ready" ELSE "failed"
  /\ snRead' = [i \in DOMAIN snSensors' |-> MaxWait]

(* sensors_load_defaults, after a failure: the defaults are appended, also *)
(* to a table that has no room for them.  What such a write overwrites is  *)
(* left out; the table is read back as it was written.                     *)
LoadDefaults ==
  /\ snStep = "failed"
  /\ snSensors' = snSensors \o [i \in DOMAIN DefaultPeriods |-> Sensor(TRUE, DefaultPeriods[i])]
  /\ snStep' = "ready"
  /\ snRead' = [i \in DOMAIN snSensors' |-> MaxWait]

(* sensors_poll: every sensor whose time has come, and its next time.      *)
Poll ==
  /\ snStep = "ready"
  /\ snSensors' = [i \in DOMAIN snSensors |->
       IF snSensors[i].wait = 0
       THEN [snSensors[i] EXCEPT !.wait = PeriodOf(snSensors[i].period)]
       ELSE snSensors[i]]
  /\ snRead' = [i \in DOMAIN snSensors |-> IF snSensors[i].wait = 0 THEN 0 ELSE snRead[i]]
  /\ UNCHANGED snStep

SensorsTick ==
  /\ snStep = "ready"
  /\ snSensors' = [i \in DOMAIN snSensors |->
       [snSensors[i] EXCEPT !.wait = IF @ > 0 THEN @ - 1 ELSE 0]]
  /\ snRead' = [i \in DOMAIN snRead |-> IF snRead[i] < MaxWait THEN snRead[i] + 1 ELSE MaxWait]
  /\ UNCHANGED snStep

SnNext ==
  \/ SensorsInitialize
  \/ \E n \in 0..FileMax : \E items \in [1..n -> Item], opens, closes \in BOOLEAN :
       LoadYaml(items, opens, closes)
  \/ LoadDefaults
  \/ Poll
  \/ SensorsTick

-----------------------------------------------------------------------------
(* Types; the table holds what is loaded, and a sensor waits for exactly   *)
(* as much of its period as has not passed since it was polled.            *)
SnTypeOK ==
  /\ snStep \in {"off", "empty", "failed", "ready"}
  /\ Len(snSensors) <= SensorMax + (IF snStep = "ready" THEN Len(DefaultPeriods) ELSE 0)
  /\ DOMAIN snRead = DOMAIN snSensors
  /\ \A i \in DOMAIN snSensors :
       /\ snSensors[i].named \in BOOLEAN
       /\ snRead[i] \in 0..MaxWait
       /\ snSensors[i].wait =
            IF snRead[i] < PeriodOf(snSensors[i].period)
            THEN PeriodOf(snSensors[i].period) - snRead[i] ELSE 0
=============================================================================
