----------------------------- MODULE DurableLog -----------------------------
(***************************************************************************)
(* What a log of fixed size promises that is kept in memory while its      *)
(* program runs and copied as a whole to storage that may fail.  The log   *)
(* keeps the latest entries in order.  The copy changes only to the log,   *)
(* or to its beginning; it is the log unless a save is under way or the    *)
(* last one failed.  A program that starts has the copy; one that stops in *)
(* a save may leave the beginning of its log.  The fault log implements    *)
(* it.                                                                     *)
(***************************************************************************)
EXTENDS Naturals, Sequences

CONSTANTS
  Depth,    \* how many entries are kept
  Record    \* what is logged

VARIABLES
  on,       \* the program runs
  kept,     \* the entries, oldest first; while the program is off, the copy
  copy,     \* the entries in storage
  writing,  \* a save is under way
  stale     \* the last save failed

vars == <<on, kept, copy, writing, stale>>

Added(log, e) == Append(IF Len(log) < Depth THEN log ELSE Tail(log), e)
Beginnings(log) == {SubSeq(log, 1, n) : n \in 0..Len(log)}

Init ==
  /\ on = FALSE /\ writing = FALSE /\ stale = FALSE
  /\ kept = <<>> /\ copy = <<>>

Keep == kept' = kept
Add == \E e \in Record : kept' = Added(kept, e)
Clear == kept' = <<>>

Save ==
  /\ copy' = copy \/ copy' \in Beginnings(kept')
  /\ ~writing' /\ ~stale' => copy' = kept'

(* A start may log already. *)
Start == ~on /\ on' /\ (Keep \/ Add) /\ Save

Work == on /\ on' /\ (Keep \/ Add \/ Clear) /\ Save

Stop ==
  /\ on /\ ~on'
  /\ ~writing' /\ ~stale'
  /\ copy' = copy \/ (writing /\ copy' \in Beginnings(kept))
  /\ kept' = copy'

Next == Start \/ Work \/ Stop

Spec == Init /\ [][Next]_vars
=============================================================================
