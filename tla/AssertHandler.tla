---------------------------- MODULE AssertHandler ----------------------------
(***************************************************************************)
(* The assertion handler (assert_handler.c): a ring of the latest places   *)
(* at which an assertion failed, one record for each, and the reactions.   *)
(***************************************************************************)
EXTENDS FaultLog

CONSTANTS
  Site,        \* file and line of an assertion
  Nowhere,     \* what an empty slot holds
  Severity,    \* AssertSeverity_t
  FailureLog,  \* ASSERT_MAX_FAILURE_LOG
  CountRange   \* counters count modulo this

ASSUME AssertAssumption ==
  /\ Nowhere \notin Site
  /\ {FailureLog, CountRange} \subseteq Nat \ {0}

VARIABLES
  asLog,       \* s_failure_log: the place recorded in each slot
  asIndex,     \* s_log_index
  asCount,     \* log_count
  asCritical,  \* s_has_critical_failure
  asTriggers   \* safe_mode_triggers and reset_triggers together

asVars == <<asLog, asIndex, asCount, asCritical, asTriggers>>

AsSlot == 0..(FailureLog - 1)

AsInit ==
  /\ asLog = [s \in AsSlot |-> Nowhere]
  /\ asIndex = 0
  /\ asCount = 0
  /\ asCritical = FALSE
  /\ asTriggers = 0

EmptyFailureLog ==
  /\ asLog' = [s \in AsSlot |-> Nowhere]
  /\ asIndex' = 0
  /\ asCount' = 0

AsInitialize ==
  /\ EmptyFailureLog
  /\ asCritical' = FALSE
  /\ asTriggers' = 0
  /\ UNCHANGED faultVars

(* assert_clear_stats keeps the flag and the triggers. *)
ClearStats ==
  /\ EmptyFailureLog
  /\ UNCHANGED <<asCritical, asTriggers, faultVars>>

(* Mutant: only the slots before the write index are searched. *)
Known_Before(site) == \E s \in AsSlot : s < asIndex /\ asLog[s] = site

(* A record of the same file and line exists. *)
Known(site) == \E s \in AsSlot : s < asCount /\ asLog[s] = site

(* log_failure. *)
LogFailure(site) ==
  IF Known(site)
  THEN UNCHANGED <<asLog, asIndex, asCount>>
  ELSE /\ asLog' = [asLog EXCEPT ![asIndex] = site]
       /\ asIndex' = (asIndex + 1) % FailureLog
       /\ asCount' = IF asCount < FailureLog THEN asCount + 1 ELSE asCount

(* trigger_safe_mode and trigger_reset: a fault is logged, then the        *)
(* callback runs; what it logs comes later.                                *)
Trigger ==
  /\ asCritical' = TRUE
  /\ asTriggers' = (asTriggers + 1) % CountRange
  /\ LogFaults(1)

HandleFailure(site, severity) ==
  /\ LogFailure(site)
  /\ IF severity \in {"CRITICAL", "FATAL"}
     THEN Trigger
     ELSE UNCHANGED <<asCritical, asTriggers, faultVars>>

AsNext ==
  \/ AsInitialize
  \/ ClearStats
  \/ \E site \in Site, severity \in Severity : HandleFailure(site, severity)

-----------------------------------------------------------------------------
(* Mutant: the records are read from the first slot on. *)
GetLog_FirstSlot == [i \in 1..asCount |-> asLog[i - 1]]

(* assert_get_log: from the oldest record on. *)
GetLog ==
  LET first == IF asCount >= FailureLog THEN asIndex ELSE 0
  IN  [i \in 1..asCount |-> asLog[(first + i - 1) % FailureLog]]

(* Types; no place is recorded twice, also when the ring has wrapped.      *)
AsTypeOK ==
  /\ asLog \in [AsSlot -> Site \union {Nowhere}]
  /\ asIndex \in AsSlot
  /\ asCount \in 0..FailureLog
  /\ asCritical \in BOOLEAN
  /\ asTriggers \in 0..(CountRange - 1)
  /\ \A i, j \in DOMAIN GetLog : GetLog[i] = GetLog[j] => i = j

AsBounded == INSTANCE BoundedLog WITH
  Depth <- FailureLog, Record <- Site, kept <- GetLog
=============================================================================
