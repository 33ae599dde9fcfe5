----------------------------- MODULE BoundedLog -----------------------------
(***************************************************************************)
(* What a log of fixed size in memory promises: it keeps the latest        *)
(* entries in the order in which they were added, and gives up the oldest  *)
(* one only to make room for a new one.  The flight log and the assertion  *)
(* log implement it, each in its own way.                                  *)
(***************************************************************************)
EXTENDS Naturals, Sequences

CONSTANTS
  Depth,    \* how many entries are kept
  Record    \* what is logged

VARIABLE kept   \* the entries, oldest first

vars == <<kept>>

Added(log, e) == Append(IF Len(log) < Depth THEN log ELSE Tail(log), e)

Init == kept = <<>>

Add == \E e \in Record : kept' = Added(kept, e)

Clear == kept' = <<>>

Next == Add \/ Clear

Spec == Init /\ [][Next]_vars
=============================================================================
