---------------------------- MODULE MCFlightMain ----------------------------
(***************************************************************************)
(* Instances of FlightMain for TLC.                                        *)
(***************************************************************************)
EXTENDS FlightMain

(* An iteration that takes one or two units of the health interval's time. *)
PromptSteps == {1, 2}

(* A wall clock that may also stall for long, or be set back. *)
WildSteps == {1, 7, -4}
=============================================================================
