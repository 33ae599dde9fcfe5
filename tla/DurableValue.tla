---------------------------- MODULE DurableValue ----------------------------
(***************************************************************************)
(* What a value that is kept in storage promises: a program starts with    *)
(* what the stored copy says, the copy is always a value that was in force *)
(* when it was written, or the default once a copy was lost, and on        *)
(* reliable storage it is the value in force whenever nothing is pending.  *)
(* The configuration of the power subsystem and the system state implement *)
(* it, each with its own way of saving.                                    *)
(***************************************************************************)
CONSTANTS
  Value,      \* what may be kept
  Default,    \* what is used when there is no copy
  Reliable    \* does a pending value end up in the copy?

VARIABLES
  on,         \* the program runs
  current,    \* the value in force; while the program is off, the copy
  copy,       \* what a restart would yield
  pending     \* a change or a save has not been completed

vars == <<on, current, copy, pending>>

Init ==
  /\ on = FALSE /\ pending = FALSE
  /\ current = Default /\ copy = Default

Start ==
  /\ ~on /\ on'
  /\ current' = copy
  /\ ~pending'
  /\ UNCHANGED copy

(* The value may be replaced in the step in which the old copy is lost. *)
Work ==
  /\ on /\ on'
  /\ current' \in Value
  /\ copy' \in {copy, Default, current}
  /\ Reliable /\ ~pending' => copy' = current'

(* A shutdown or a reset, at any moment. *)
Stop ==
  /\ on /\ ~on'
  /\ current' = copy
  /\ ~pending'
  /\ UNCHANGED copy

Next == Start \/ Work \/ Stop

Spec == Init /\ [][Next]_vars
=============================================================================
