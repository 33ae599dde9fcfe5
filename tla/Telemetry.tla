------------------------------ MODULE Telemetry ------------------------------
(***************************************************************************)
(* Telemetry frames (telemetry.c): the rate, its limits, frames that are   *)
(* numbered and counted when they are made and when they are sent.  The    *)
(* clock is never set back; the time of the last frame appears as an age.  *)
(* Nothing is sent here: a user generates frames and reports each one.     *)
(***************************************************************************)
EXTENDS Integers

CONSTANTS
  RequestedRates,  \* rates that a command may ask for
  MinRate, MaxRate, DefaultRate,  \* TLM_MIN_RATE_MS and so on
  FrameType,       \* the types that tlm_generate_* makes
  FrameRange       \* counters count modulo this

ASSUME TelemetryAssumption ==
  /\ RequestedRates \subseteq Nat
  /\ {MinRate, MaxRate, DefaultRate} \subseteq Nat
  /\ MinRate <= DefaultRate /\ DefaultRate <= MaxRate
  /\ FrameRange \in Nat \ {0}

VARIABLES
  tmReady,      \* s_initialized
  tmRate,       \* s_rate_ms
  tmAge,        \* now - s_last_tlm_time_ms
  tmStats,      \* sequence_number and frames_generated, transmitted, failed
  tmSystem,     \* beacon_count and packets_sent of the system state
  tmOpen        \* history: frames generated and not reported yet

tmVars == <<tmReady, tmRate, tmAge, tmStats, tmSystem, tmOpen>>

NoFrames == [generated |-> 0, transmitted |-> 0, failed |-> 0]
Bumped(n) == (n + 1) % FrameRange

TmInit ==
  /\ tmReady = FALSE
  /\ tmRate = DefaultRate
  /\ tmAge = MaxRate
  /\ tmStats = NoFrames
  /\ tmSystem = [beacons |-> 0, packets |-> 0]
  /\ tmOpen = 0

(* tlm_init; the system state keeps its counts. *)
TelemetryInitialize ==
  /\ tmReady' = TRUE
  /\ tmRate' = DefaultRate
  /\ tmAge' = MaxRate
  /\ tmStats' = NoFrames
  /\ tmOpen' = 0
  /\ UNCHANGED tmSystem

(* tlm_set_rate. *)
Within(rate) == IF rate < MinRate THEN MinRate ELSE IF rate > MaxRate THEN MaxRate ELSE rate

SetRate(rate) ==
  /\ tmRate' = Within(rate)
  /\ UNCHANGED <<tmReady, tmAge, tmStats, tmSystem, tmOpen>>

(* fill_header takes the number that frames_generated has counted so far:  *)
(* both grow by one for each frame.                                        *)
GenerateFrame(type) ==
  /\ tmOpen < FrameRange - 1
  /\ tmStats' = [tmStats EXCEPT !.generated = Bumped(@)]
  /\ tmSystem' = IF type = "BEACON"
                 THEN [tmSystem EXCEPT !.beacons = Bumped(@)] ELSE tmSystem
  /\ tmOpen' = tmOpen + 1
  /\ UNCHANGED <<tmReady, tmRate, tmAge>>

(* tlm_mark_transmitted, for a frame that was generated. *)
ReportFrame(success) ==
  /\ tmOpen > 0
  /\ tmAge' = 0
  /\ tmStats' = IF success THEN [tmStats EXCEPT !.transmitted = Bumped(@)]
                ELSE [tmStats EXCEPT !.failed = Bumped(@)]
  /\ tmSystem' = IF success THEN [tmSystem EXCEPT !.packets = Bumped(@)] ELSE tmSystem
  /\ tmOpen' = tmOpen - 1
  /\ UNCHANGED <<tmReady, tmRate>>

TelemetryTick ==
  /\ tmAge' = IF tmAge < MaxRate THEN tmAge + 1 ELSE tmAge
  /\ UNCHANGED <<tmReady, tmRate, tmStats, tmSystem, tmOpen>>

TmNext ==
  \/ TelemetryInitialize
  \/ \E rate \in RequestedRates : SetRate(rate)
  \/ \E type \in FrameType : GenerateFrame(type)
  \/ \E success \in BOOLEAN : ReportFrame(success)
  \/ TelemetryTick

-----------------------------------------------------------------------------
(* Types; every frame made is sent, failed or still to be reported.        *)
TmTypeOK ==
  /\ tmReady \in BOOLEAN
  /\ tmRate \in MinRate..MaxRate
  /\ tmAge \in 0..MaxRate
  /\ tmStats \in [generated : 0..(FrameRange - 1), transmitted : 0..(FrameRange - 1),
                  failed : 0..(FrameRange - 1)]
  /\ tmSystem \in [beacons : 0..(FrameRange - 1), packets : 0..(FrameRange - 1)]
  /\ tmOpen \in 0..(FrameRange - 1)
  /\ (tmStats.transmitted + tmStats.failed + tmOpen - tmStats.generated) % FrameRange = 0
=============================================================================
