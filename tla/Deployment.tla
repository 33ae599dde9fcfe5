----------------------------- MODULE Deployment -----------------------------
(***************************************************************************)
(* Deployment of the antenna and the solar panels (deployment.c): a state  *)
(* machine that deployment_process advances, at most one state per call,   *)
(* while ground commands inhibit it or force a retry.  One output pin      *)
(* drives the burn wires of both elements, and in the flight build one     *)
(* input pin reports separation (low) and both elements (high).            *)
(*                                                                         *)
(* Time passes in Tick, between two calls of deployment_process.  Ages are *)
(* the code's unsigned differences of a counter of TimeRange values.       *)
(* Telemetry, names and times kept only for telemetry are left out.        *)
(***************************************************************************)
EXTENDS Integers

CONSTANTS
  WaitTime,        \* DEPLOYMENT_WAIT_TIME_MS
  AntennaBurn,     \* ANTENNA_DEPLOY_BURN_TIME_MS
  SolarBurn,       \* SOLAR_DEPLOY_BURN_TIME_MS
  VerifyTimeout,   \* DEPLOYMENT_VERIFY_TIMEOUT_MS
  RetryDelay,      \* DEPLOYMENT_RETRY_DELAY_MS
  MaxRetries,      \* DEPLOYMENT_MAX_RETRIES
  TimeRange,       \* the values of the millisecond counter, 2^32 in the code
  MaxGap,          \* longest time between two calls of deployment_process
  Builds,          \* builds considered, of {"flight", "simulation"}
  SimSeparation,   \* calls until the simulation reports separation, 50
  MaxForces        \* bound on the forced retries of one behaviour

ASSUME TimesAssumption ==
  /\ {WaitTime, AntennaBurn, SolarBurn, VerifyTimeout, RetryDelay, MaxRetries,
      MaxGap, SimSeparation} \subseteq Nat \ {0}
  /\ MaxForces \in Nat
  /\ TimeRange \in Nat
  /\ \A t \in {WaitTime, AntennaBurn, SolarBurn, RetryDelay} : t + MaxGap < TimeRange
  /\ RetryDelay <= WaitTime
  /\ Builds \subseteq {"flight", "simulation"}

VARIABLES
  build,        \* is SIMULATION_BUILD defined?  Never changes
  initialized,  \* s_initialized
  state,        \* s_deploy_status.state
  age,          \* time since state_entry_time_ms, as the code computes it
  deployed, attempted, attempts,  \* the element records, by element
  separated,    \* separation_detected
  enabled,      \* deployment_enabled
  wire,         \* level of GPIO_PIN_DEPLOY_EN
  simCounter,   \* static counter of check_deployment_switch, saturating
  due,          \* deployment_process is to be called next
  forces,       \* forced retries so far
  \* History: times saturate at the largest value a property looks at.
  sinceSep,     \* since this boot detected separation
  lastBurn,     \* element of the current or latest burn
  burnFor,      \* how long that burn has lasted
  cooled        \* how long the wire has been off

status == <<state, age, deployed, attempted, attempts, separated>>
history == <<sinceSep, lastBurn, burnFor, cooled>>
vars == <<build, initialized, status, enabled, wire, simCounter, due, forces, history>>

Element == {"antenna", "solar"}
Pending(e) == IF e = "antenna" THEN "ANTENNA_PENDING" ELSE "SOLAR_PENDING"
Active(e) == IF e = "antenna" THEN "ANTENNA_ACTIVE" ELSE "SOLAR_ACTIVE"
Verify(e) == IF e = "antenna" THEN "ANTENNA_VERIFY" ELSE "SOLAR_VERIFY"
DeploymentState ==
  {"INHIBITED", "WAITING", "COMPLETE", "FAILED"}
    \union {Pending(e) : e \in Element} \union {Active(e) : e \in Element}
    \union {Verify(e) : e \in Element}

BurnTime(e) == IF e = "antenna" THEN AntennaBurn ELSE SolarBurn
LongestBurn == AntennaBurn + SolarBurn + MaxGap

Saturate(t, bound) == IF t > bound THEN bound ELSE t

(***************************************************************************)
(* The switches.  The simulation takes an attempted element for deployed;  *)
(* the flight build reads the sense pin, whose level is the environment's. *)
(***************************************************************************)
Separations == IF build = "simulation" THEN {simCounter + 1 > SimSeparation} ELSE BOOLEAN

ElementSwitch(e) == IF build = "simulation" THEN {attempted[e]} ELSE BOOLEAN

(* Mutant: the command is looked at, the timer is not. *)
WaitOver_NoTimer == enabled

WaitOver == age >= WaitTime /\ enabled

(* Mutants: one attempt too few, one too many. *)
MayAttempt_TooFew(e) == attempts[e] + 1 < MaxRetries
MayAttempt_TooMany(e) == attempts[e] <= MaxRetries

MayAttempt(e) == attempts[e] < MaxRetries

(* Mutant: the burn is timed by the wrong constant. *)
BurnOver_Retry(e) == age >= RetryDelay

BurnOver(e) == age >= BurnTime(e)

(* Mutant: retry as soon as verification times out. *)
RetryDue_NoDelay == age >= VerifyTimeout

RetryDue == age >= VerifyTimeout /\ age >= RetryDelay

(* Mutant: the antenna completes the sequence. *)
NextAfter_Complete(e) == "COMPLETE"

NextAfter(e) == IF e = "antenna" THEN Pending("solar") ELSE "COMPLETE"

EnterState(s) == state' = s /\ age' = 0

(* Time passes until the next call of deployment_process. *)
Tick(d) ==
  /\ initialized
  /\ ~due
  /\ due' = TRUE
  /\ age' = (age + d) % TimeRange
  /\ sinceSep' = IF separated THEN Saturate(sinceSep + d, WaitTime) ELSE 0
  /\ burnFor' = IF wire THEN Saturate(burnFor + d, LongestBurn) ELSE burnFor
  /\ cooled' = IF wire THEN cooled ELSE Saturate(cooled + d, RetryDelay)
  /\ UNCHANGED <<build, initialized, state, deployed, attempted, attempts,
                 separated, enabled, wire, simCounter, forces, lastBurn>>

(* A call of deployment_process that finds the module in state s. *)
Called(s) ==
  /\ initialized
  /\ due
  /\ due' = FALSE
  /\ state = s
  /\ UNCHANGED <<build, initialized, enabled, forces>>

AwaitSeparation ==
  /\ Called("INHIBITED")
  /\ simCounter' = Saturate(simCounter + 1, SimSeparation)
  /\ \E open \in Separations :
       IF open
       THEN separated' = TRUE /\ sinceSep' = 0 /\ EnterState("WAITING")
       ELSE UNCHANGED <<separated, sinceSep, state, age>>
  /\ UNCHANGED <<deployed, attempted, attempts, wire, lastBurn, burnFor, cooled>>

AwaitTimer ==
  /\ Called("WAITING")
  /\ IF WaitOver THEN EnterState(Pending("antenna")) ELSE UNCHANGED <<state, age>>
  /\ UNCHANGED <<deployed, attempted, attempts, separated, wire, simCounter, history>>

(* The switch says that element e is out: in PENDING and in VERIFY. *)
Confirm(e) ==
  /\ deployed' = [deployed EXCEPT ![e] = TRUE]
  /\ EnterState(NextAfter(e))
  /\ UNCHANGED <<attempted, attempts, wire, history>>

(* Mutant: the attempt is not counted. *)
StartBurn_NotCounted(e) ==
  /\ MayAttempt(e)
  /\ wire' = TRUE
  /\ attempted' = [attempted EXCEPT ![e] = TRUE]
  /\ EnterState(Active(e))
  /\ lastBurn' = e
  /\ burnFor' = IF wire THEN burnFor ELSE 0
  /\ UNCHANGED <<deployed, attempts, cooled, sinceSep>>

(* actuate_deployment drives the one pin, whatever the element. *)
StartBurn(e) ==
  /\ MayAttempt(e)
  /\ wire' = TRUE
  /\ attempted' = [attempted EXCEPT ![e] = TRUE]
  /\ attempts' = [attempts EXCEPT ![e] = @ + 1]
  /\ EnterState(Active(e))
  /\ lastBurn' = e
  /\ burnFor' = IF wire THEN burnFor ELSE 0
  /\ UNCHANGED <<deployed, cooled, sinceSep>>

GiveUp(e) ==
  /\ ~MayAttempt(e)
  /\ EnterState("FAILED")
  /\ UNCHANGED <<deployed, attempted, attempts, wire, history>>

Attempt(e) ==
  /\ Called(Pending(e))
  /\ \E out \in ElementSwitch(e) :
       \/ out /\ Confirm(e)
       \/ ~out /\ StartBurn(e)
       \/ ~out /\ GiveUp(e)
  /\ UNCHANGED <<separated, simCounter>>

EndBurn(e) ==
  /\ Called(Active(e))
  /\ BurnOver(e)
  /\ wire' = FALSE
  /\ cooled' = 0
  /\ EnterState(Verify(e))
  /\ UNCHANGED <<deployed, attempted, attempts, separated, simCounter,
                 sinceSep, lastBurn, burnFor>>

Check(e) ==
  /\ Called(Verify(e))
  /\ \E out \in ElementSwitch(e) :
       \/ out /\ Confirm(e)
       \/ /\ ~out
          /\ RetryDue
          /\ EnterState(Pending(e))
          /\ UNCHANGED <<deployed, attempted, attempts, wire, history>>
       \/ /\ ~out
          /\ ~RetryDue
          /\ UNCHANGED <<state, age, deployed, attempted, attempts, wire, history>>
  /\ UNCHANGED <<separated, simCounter>>

(* A call that changes nothing: a burn goes on, or the sequence has ended. *)
NothingToDo ==
  /\ \/ Called("COMPLETE")
     \/ Called("FAILED")
     \/ \E e \in Element : Called(Active(e)) /\ ~BurnOver(e)
  /\ UNCHANGED <<status, wire, simCounter, history>>

Process ==
  \/ AwaitSeparation
  \/ AwaitTimer
  \/ \E e \in Element : Attempt(e) \/ EndBurn(e) \/ Check(e)
  \/ NothingToDo

SetEnabled(enable) ==
  /\ enabled' = enable
  /\ UNCHANGED <<build, initialized, status, wire, simCounter, due, forces,
                 history>>

(***************************************************************************)
(* The ground command looks neither at the state nor at separation, the    *)
(* timer, the inhibit or the wire.                                         *)
(***************************************************************************)
ForceRetry(e) ==
  /\ forces < MaxForces
  /\ forces' = forces + 1
  /\ attempts' = [attempts EXCEPT ![e] = 0]
  /\ deployed' = [deployed EXCEPT ![e] = FALSE]
  /\ EnterState(Pending(e))
  /\ UNCHANGED <<build, initialized, attempted, separated, enabled, wire,
                 simCounter, due, history>>

(* The zeroed static data of a program that starts. *)
Fresh ==
  /\ state' = "INHIBITED"
  /\ age' = 0
  /\ deployed' = [e \in Element |-> FALSE]
  /\ attempted' = [e \in Element |-> FALSE]
  /\ attempts' = [e \in Element |-> 0]
  /\ separated' = FALSE
  /\ sinceSep' = 0
  /\ cooled' = IF wire THEN 0 ELSE cooled
  /\ wire' = FALSE

(* deployment_init: no state was saved; a second call does nothing. *)
Initialize ==
  /\ ~initialized
  /\ initialized' = TRUE
  /\ enabled' = TRUE
  /\ Fresh
  /\ UNCHANGED <<build, simCounter, due, forces, lastBurn, burnFor>>

(* The computer is reset; its pins fall to their inactive level. *)
Reset ==
  /\ initialized
  /\ initialized' = FALSE
  /\ enabled' = FALSE
  /\ Fresh
  /\ simCounter' = 0
  /\ UNCHANGED <<build, due, forces, lastBurn, burnFor>>

Init ==
  /\ build \in Builds
  /\ initialized = FALSE
  /\ state = "INHIBITED"
  /\ age = 0
  /\ deployed = [e \in Element |-> FALSE]
  /\ attempted = [e \in Element |-> FALSE]
  /\ attempts = [e \in Element |-> 0]
  /\ separated = FALSE
  /\ enabled = FALSE
  /\ wire = FALSE
  /\ simCounter = 0
  /\ due = FALSE
  /\ forces = 0
  /\ sinceSep = 0
  /\ lastBurn = "antenna"
  /\ burnFor = 0
  /\ cooled = RetryDelay

Next ==
  \/ Process
  \/ \E d \in 1..MaxGap : Tick(d)
  \/ \E enable \in BOOLEAN : SetEnabled(enable)
  \/ \E e \in Element : ForceRetry(e)
  \/ Initialize
  \/ Reset

(* The caller calls deployment_process periodically, for ever. *)
Fairness ==
  /\ WF_vars(Process)
  /\ WF_vars(\E d \in 1..MaxGap : Tick(d))

Spec == Init /\ [][Next]_vars /\ Fairness

-----------------------------------------------------------------------------

(* Types; never more than MaxRetries attempts are counted. *)
TypeOK ==
  /\ build \in Builds
  /\ {initialized, separated, enabled, wire, due} \subseteq BOOLEAN
  /\ state \in DeploymentState
  /\ age \in 0..(TimeRange - 1)
  /\ deployed \in [Element -> BOOLEAN]
  /\ attempted \in [Element -> BOOLEAN]
  /\ attempts \in [Element -> 0..MaxRetries]
  /\ simCounter \in 0..SimSeparation
  /\ forces \in 0..MaxForces
  /\ sinceSep \in 0..WaitTime
  /\ lastBurn \in Element
  /\ burnFor \in 0..LongestBurn
  /\ cooled \in 0..RetryDelay

(* deployment.h: "System shall wait 30 minutes after separation before     *)
(* deployment".  No burn wire is hot before separation was seen and the    *)
(* wait is over.  A forced retry breaks it.                                *)
WireWaits == wire => separated /\ sinceSep >= WaitTime

(* The same of sequences without a forced retry, whatever resets and       *)
(* inhibits did in between.                                                *)
NoEarlyBurn == forces = 0 => WireWaits

(* deployment.h states a burn time for each element.  A burn lasts no      *)
(* longer than that and one call period.  A forced retry while the wire is *)
(* hot breaks it; if the switch then confirms the element, nothing turns   *)
(* the wire off.                                                           *)
BurnEnds == burnFor < BurnTime(lastBurn) + MaxGap

(* The same of sequences without a forced retry. *)
BurnBounded == forces = 0 => BurnEnds

(* The sequence is complete only when both elements were seen deployed,    *)
(* unless a forced retry skipped the antenna.                              *)
CompleteMeansDeployed ==
  forces = 0 /\ state = "COMPLETE" => \A e \in Element : deployed[e]

(* FAILED is a verdict: some element used up its attempts, also when       *)
(* commands reset the counts of attempts in between.                       *)
FailedMeansRetriesUsed ==
  state = "FAILED" => \E e \in Element : attempts[e] = MaxRetries

(* Two burns of one element are at least the retry delay apart, also when  *)
(* a reset restarts the sequence between them.                             *)
RetriesBackOff ==
  [][forces = 0 /\ ~wire /\ wire' /\ lastBurn' = lastBurn => cooled' >= RetryDelay]_vars

(* A sequence that has left WAITING ends, deployed or failed, unless a     *)
(* reset takes it back; forced retries and inhibits do not stop it.        *)
Settles ==
  initialized /\ state \notin {"INHIBITED", "WAITING"}
    ~> state \in {"COMPLETE", "FAILED", "INHIBITED"}
=============================================================================
