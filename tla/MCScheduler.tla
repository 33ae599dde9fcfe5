----------------------------- MODULE MCScheduler -----------------------------
(* Small tables for the scheduler. *)
EXTENDS Scheduler

CONSTANTS fdir, beacon

(* The fault task goes before the beacon task. *)
Priorities == [n \in Name |-> IF n = beacon THEN 2 ELSE 0]
=============================================================================
