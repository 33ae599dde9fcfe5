------------------------------- MODULE Beacon -------------------------------
(***************************************************************************)
(* The beacon (beacon.c): whether one is due, where its text comes from,   *)
(* whether it fits a frame, and the statistics.  A user asks whether a     *)
(* beacon is due, generates it, transmits it and marks it; time may pass   *)
(* and anything else may be called in between.                             *)
(*                                                                         *)
(* A text is valid or not, and long if its payload exceeds the info field  *)
(* of a frame: the limit on texts (200) and the fields around them are     *)
(* more than the 256 bytes of the payload.  The time of the last beacon is *)
(* kept in 32 bits, the clock in 64, which is needed for milliseconds      *)
(* since the epoch; the clock is never set back.                           *)
(***************************************************************************)
EXTENDS Integers

CONSTANTS
  BeaconInterval,  \* power mode -> BEACON_INTERVAL_*_MS
  TimeWrap,        \* 2^32
  ClockStart,      \* smart_qso_now_ms when the program starts
  Horizon,         \* bound on the clock
  TemplateCount,   \* beacon_template_count
  BeaconRange      \* counters count modulo this, 2^32 in the code

ASSUME BeaconAssumption ==
  /\ {TimeWrap, Horizon, TemplateCount, BeaconRange} \subseteq Nat \ {0}
  /\ ClockStart \in 0..Horizon
  /\ {"SAFE", "IDLE", "ACTIVE"} \subseteq DOMAIN BeaconInterval
  /\ \A mode \in DOMAIN BeaconInterval : BeaconInterval[mode] \in 0..TimeWrap

VARIABLES
  bcNow,        \* the clock
  bcReady,      \* s_initialized
  bcLast,       \* last_beacon_ms
  bcInterval,   \* interval_ms
  bcStored,     \* last_ai_text: none, short or long
  bcAi,         \* ai_available
  bcTemplate,   \* s_template_index
  bcStats,      \* sequence, ai_beacon_count, template_count
  bcStep,       \* what the user has done: nothing, found it due, sent it
  bcContent     \* the content last generated, or NoContent

bcVars == <<bcNow, bcReady, bcLast, bcInterval, bcStored, bcAi, bcTemplate,
            bcStats, bcStep, bcContent>>

BeaconText == {"none", "short", "long"}
BeaconContent == [source : {"AI", "TEMPLATE", "none"}, long : BOOLEAN]
NoContent == [source |-> "none", long |-> FALSE]
NoStats == [sequence |-> 0, ai |-> 0, template |-> 0]
OneMore(stats, field) == [stats EXCEPT ![field] = (@ + 1) % BeaconRange]

-----------------------------------------------------------------------------
BcInit ==
  /\ bcNow = ClockStart
  /\ bcReady = FALSE
  /\ bcLast = 0
  /\ bcInterval = BeaconInterval["ACTIVE"]
  /\ bcStored = "none"
  /\ bcAi = FALSE
  /\ bcTemplate = 0
  /\ bcStats = NoStats
  /\ bcStep = "idle"
  /\ bcContent = NoContent

BeaconInitialize ==
  /\ bcReady' = TRUE
  /\ bcLast' = 0
  /\ bcInterval' = BeaconInterval["ACTIVE"]
  /\ bcStored' = "none"
  /\ bcAi' = FALSE
  /\ bcTemplate' = 0
  /\ bcStats' = NoStats
  /\ bcStep' = "idle"
  /\ UNCHANGED <<bcNow, bcContent>>

(* beacon_should_transmit. *)
ShouldTransmit == bcReady /\ bcNow - bcLast >= bcInterval

FindDue ==
  /\ bcStep = "idle"
  /\ ShouldTransmit
  /\ bcStep' = "due"
  /\ UNCHANGED <<bcNow, bcReady, bcLast, bcInterval, bcStored, bcAi, bcTemplate,
                 bcStats, bcContent>>

UpdateInterval(mode) ==
  /\ bcReady
  /\ bcInterval' = BeaconInterval[mode]
  /\ UNCHANGED <<bcNow, bcReady, bcLast, bcStored, bcAi, bcTemplate, bcStats,
                 bcStep, bcContent>>

(* beacon_generate_content with a text that is none if it is missing or    *)
(* does not pass beacon_validate_text.                                     *)
GenerateContent(text) ==
  LET stored == bcAi /\ bcStored # "none"
  IN  /\ bcContent' = CASE text # "none" -> [source |-> "AI", long |-> text = "long"]
                        [] text = "none" /\ stored ->
                             [source |-> "AI", long |-> bcStored = "long"]
                        [] OTHER -> [source |-> "TEMPLATE", long |-> FALSE]
      /\ bcTemplate' = IF text = "none" /\ ~stored
                       THEN (bcTemplate + 1) % TemplateCount ELSE bcTemplate
      /\ bcStats' = OneMore(bcStats, "sequence")

GenerateBeacon(text) ==
  /\ bcStep = "due"
  /\ GenerateContent(text)
  /\ bcStep' = "generated"
  /\ UNCHANGED <<bcNow, bcReady, bcLast, bcInterval, bcStored, bcAi>>

(* beacon_transmit: a payload that does not fit is an error, and counts    *)
(* nothing.  The user marks a beacon that was sent and gives up another.   *)
TransmitBeacon ==
  /\ bcStep = "generated"
  /\ IF bcContent.long
     THEN bcStep' = "idle" /\ UNCHANGED bcStats
     ELSE /\ bcStep' = "sent"
          /\ bcStats' = OneMore(bcStats, IF bcContent.source = "AI" THEN "ai" ELSE "template")
  /\ UNCHANGED <<bcNow, bcReady, bcLast, bcInterval, bcStored, bcAi, bcTemplate,
                 bcContent>>

(* beacon_mark_transmitted. *)
MarkTransmitted ==
  /\ bcStep = "sent"
  /\ bcReady
  /\ bcLast' = bcNow % TimeWrap
  /\ bcStep' = "idle"
  /\ UNCHANGED <<bcNow, bcReady, bcInterval, bcStored, bcAi, bcTemplate, bcStats, bcContent>>

(* beacon_set_ai_available. *)
SetAiAvailable(available) ==
  /\ bcReady
  /\ bcAi' = available
  /\ UNCHANGED <<bcNow, bcReady, bcLast, bcInterval, bcStored, bcTemplate, bcStats,
                 bcStep, bcContent>>

(* beacon_store_ai_text: only a text that passes beacon_validate_text. *)
StoreAiText(text) ==
  /\ bcReady
  /\ text # "none"
  /\ bcStored' = text
  /\ UNCHANGED <<bcNow, bcReady, bcLast, bcInterval, bcAi, bcTemplate, bcStats,
                 bcStep, bcContent>>

(* beacon_reset_stats. *)
ResetBeaconStats ==
  /\ bcReady
  /\ bcStats' = NoStats
  /\ UNCHANGED <<bcNow, bcReady, bcLast, bcInterval, bcStored, bcAi, bcTemplate,
                 bcStep, bcContent>>

BcTick ==
  /\ bcNow < Horizon
  /\ bcNow' = bcNow + 1
  /\ UNCHANGED <<bcReady, bcLast, bcInterval, bcStored, bcAi, bcTemplate, bcStats,
                 bcStep, bcContent>>

BcNext ==
  \/ BeaconInitialize
  \/ FindDue
  \/ \E mode \in DOMAIN BeaconInterval : UpdateInterval(mode)
  \/ \E text \in BeaconText : GenerateBeacon(text) \/ StoreAiText(text)
  \/ TransmitBeacon
  \/ MarkTransmitted
  \/ \E available \in BOOLEAN : SetAiAvailable(available)
  \/ ResetBeaconStats
  \/ BcTick

-----------------------------------------------------------------------------
BcTypeOK ==
  /\ bcNow \in 0..Horizon
  /\ {bcReady, bcAi} \subseteq BOOLEAN
  /\ bcLast \in 0..(TimeWrap - 1)
  /\ \E mode \in DOMAIN BeaconInterval : bcInterval = BeaconInterval[mode]
  /\ bcStored \in BeaconText
  /\ bcTemplate \in 0..(TemplateCount - 1)
  /\ bcStats \in [sequence : 0..(BeaconRange - 1), ai : 0..(BeaconRange - 1),
                  template : 0..(BeaconRange - 1)]
  /\ bcStep \in {"idle", "due", "generated", "sent"}
  /\ bcContent \in BeaconContent
=============================================================================
