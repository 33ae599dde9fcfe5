---------------------------- MODULE CommandsProofs ----------------------------
(***************************************************************************)
(* Theorems about Commands for all payloads, ids of either numbering,      *)
(* custom handlers and widths of the statistics.                           *)
(***************************************************************************)
EXTENDS Commands, TLAPS

-----------------------------------------------------------------------------
(* The transition table. *)
LEMMA TableRows ==
  /\ DOMAIN Transitions = 1..30
  /\ \A i \in 1..30 : Transitions[i][3] \in State
  /\ \A i \in 1..28 : Transitions[i][3] # "EMERGENCY"
  /\ Transitions[14][1] = "IDLE" /\ Transitions[14][2] = "POWER_CRITICAL"
  /\ Transitions[21][1] = "ACTIVE" /\ Transitions[21][2] = "POWER_CRITICAL"
  /\ Transitions[29][1] = "IDLE" /\ Transitions[29][2] = "POWER_CRITICAL"
  /\ Transitions[30][1] = "ACTIVE" /\ Transitions[30][2] = "POWER_CRITICAL"
BY DEF Transitions, State

(* An earlier row hides each row that leads to EMERGENCY. *)
LEMMA AfterEvent ==
  ASSUME NEW from \in State, NEW event \in Event
  PROVE  /\ After(from, event) \in State
         /\ from # "EMERGENCY" => After(from, event) # "EMERGENCY"
<1> DEFINE found == FindTransition(from, event)
<1>1. CASE found = {}
  BY <1>1 DEF After
<1>2. CASE found # {}
  <2>1. PICK i \in found : After(from, event) = Transitions[i][3]
    BY <1>2 DEF After
  <2>2. /\ i \in 1..30 /\ Transitions[i][1] = from /\ Transitions[i][2] = event
        /\ \A j \in Matches(from, event) : i <= j
    BY <2>1, TableRows DEF FindTransition, Matches
  <2>3. i # 29
    <3>1. i = 29 => 14 \in Matches(from, event)
      BY <2>2, TableRows DEF Matches
    <3>2. QED
      BY <2>2, <3>1
  <2>4. i # 30
    <3>1. i = 30 => 21 \in Matches(from, event)
      BY <2>2, TableRows DEF Matches
    <3>2. QED
      BY <2>2, <3>1
  <2>5. i \in 1..28
    BY <2>2, <2>3, <2>4
  <2>6. QED
    BY <2>1, <2>2, <2>5, TableRows
<1>3. QED
  BY <1>1, <1>2

-----------------------------------------------------------------------------
(* Payloads and the handlers. *)
LEMMA SequenceElements ==
  ASSUME NEW S, NEW q \in Seq(S)
  PROVE  Len(q) \in Nat /\ \A i \in 1..Len(q) : q[i] \in S
OBVIOUS

LEMMA PayloadBytes ==
  ASSUME NEW p \in Payloads
  PROVE  /\ Len(p) \in Nat
         /\ Len(p) >= 1 => p[1] \in 0..255
         /\ Len(p) >= 2 => Word(p) \in Nat
<1>1. p \in Seq(0..255)
  BY CommandsAssumption
<1>2. \A i \in 1..Len(p) : p[i] \in 0..255
  BY <1>1, SequenceElements
<1>3. Len(p) \in Nat
  BY <1>1, SequenceElements
<1>4. (Len(p) >= 1 => p[1] \in 0..255) /\ (Len(p) >= 2 => p[2] \in 0..255)
  BY <1>2, <1>3
<1>5. Len(p) >= 2 => Word(p) \in Nat
  <2>1. \A a, b \in 0..255 : 256 * a + b \in Nat
    OBVIOUS
  <2>2. ASSUME Len(p) >= 2
        PROVE  p[1] \in 0..255 /\ p[2] \in 0..255
    BY <1>3, <1>4, <2>2
  <2>3. QED
    BY <2>1, <2>2 DEF Word
<1>6. QED
  BY <1>3, <1>4, <1>5

LEMMA ModeStates == \A n \in 0..2 : ModeState(n) \in State /\ ModeState(n) # "EMERGENCY"
BY DEF ModeState, State

(* What a handler that succeeds may leave behind. *)
LEMMA HandlerEffectType ==
  ASSUME TypeOK, NEW id \in CmdId, NEW p \in Payloads,
         HandlerResult(id, p) = "SUCCESS", HandlerEffect(id, p)
  PROVE  /\ sm' \in State /\ smReady' \in BOOLEAN /\ data' \in Data
         /\ sm # "EMERGENCY" => sm' # "EMERGENCY"
<1>1. Len(p) \in Nat /\ (Len(p) >= 1 => p[1] \in 0..255)
  BY PayloadBytes
<1>2. id \in {CMD_SYS_SET_MODE, CMD_EPS_SET_MODE} => p[1] \in 0..2
  <2>1. id \in {CMD_SYS_SET_MODE, CMD_EPS_SET_MODE} => FirstAtMost(p, 2)
    BY DEF HandlerResult, CMD_SYS_NOP, CMD_SYS_RESET, CMD_SYS_SET_MODE,
       CMD_SYS_GET_STATUS, CMD_SYS_CLEAR_FAULTS, CMD_EPS_SET_MODE, CMD_EPS_GET_TELEMETRY,
       CMD_ADCS_DETUMBLE, CMD_ADCS_GET_ATTITUDE, CMD_PLD_ENABLE, CMD_PLD_DISABLE
  <2>2. FirstAtMost(p, 2) => p[1] \in 0..2
    <3>1. \A b \in 0..255 : b <= 2 => b \in 0..2
      OBVIOUS
    <3>2. QED
      BY <1>1, <3>1 DEF FirstAtMost
  <2>3. QED
    BY <2>1, <2>2
<1>3. id = CMD_COMM_SET_BEACON => Word(p) \in BeaconInterval
  BY DEF HandlerResult, IsInterval, CMD_SYS_NOP, CMD_SYS_RESET, CMD_SYS_SET_MODE,
       CMD_SYS_GET_STATUS, CMD_SYS_CLEAR_FAULTS, CMD_EPS_SET_MODE, CMD_EPS_GET_TELEMETRY,
       CMD_ADCS_DETUMBLE, CMD_ADCS_GET_ATTITUDE, CMD_PLD_ENABLE, CMD_PLD_DISABLE,
       CMD_COMM_SET_BEACON
<1>4. sm' \in State /\ smReady' \in BOOLEAN /\ (sm # "EMERGENCY" => sm' # "EMERGENCY")
  <2>1. CASE id = CMD_SYS_SET_MODE
    <3>1. ForceState(ModeState(p[1]))
      BY <2>1 DEF HandlerEffect, CMD_SYS_SET_MODE, CMD_ADCS_DETUMBLE
    <3>2. QED
      BY <1>2, <2>1, <3>1, ModeStates DEF ForceState, TypeOK
  <2>2. CASE id = CMD_ADCS_DETUMBLE /\ id # CMD_SYS_SET_MODE
    <3>1. ProcessEvent("BOOT_COMPLETE")
      BY <2>2 DEF HandlerEffect
    <3>2. "BOOT_COMPLETE" \in Event /\ sm \in State
      BY DEF Event, TypeOK
    <3>3. QED
      BY <3>1, <3>2, AfterEvent DEF ProcessEvent, TypeOK
  <2>3. CASE id \notin {CMD_SYS_SET_MODE, CMD_ADCS_DETUMBLE}
    BY <2>3 DEF HandlerEffect, TypeOK
  <2>4. QED
    BY <2>1, <2>2, <2>3
<1>5. data' \in Data
  <2>1. data \in Data
    BY DEF TypeOK
  <2>2. \/ data' \in {data, [data EXCEPT !.payload = TRUE], [data EXCEPT !.payload = FALSE]}
        \/ /\ id = CMD_EPS_SET_MODE
           /\ data' = [data EXCEPT !.mode = p[1]]
        \/ /\ id = CMD_COMM_SET_BEACON
           /\ data' = [data EXCEPT !.beacon = Word(p)]
    BY DEF HandlerEffect, CMD_EPS_SET_MODE, CMD_COMM_SET_BEACON, CMD_PLD_ENABLE, CMD_PLD_DISABLE
  <2>3. QED
    BY <1>2, <1>3, <2>1, <2>2 DEF Data
<1>6. QED
  BY <1>4, <1>5

(***************************************************************************)
(* Statistics: which counters a command moves.                             *)
(***************************************************************************)
Counter == {"received", "executed", "rejected", "authFailures"}

LEMMA PlusType ==
  ASSUME NEW s \in [Counter -> 0..StatRange-1], NEW fields
  PROVE  Plus(s, fields) \in [Counter -> 0..StatRange-1]
<1>1. StatRange \in Nat \ {0}
  BY CommandsAssumption
<1>2. \A n \in 0..StatRange-1 : (n + 1) % StatRange \in 0..StatRange-1
  BY <1>1
<1>3. QED
  BY <1>2 DEF Plus

LEMMA CounterType == DOMAIN NoStats = Counter /\ NoStats \in [Counter -> 0..StatRange-1]
<1>1. 0 \in 0..StatRange-1
  BY CommandsAssumption
<1>2. QED
  BY <1>1 DEF NoStats, Counter

(* A command counts once besides what its caller counted. *)
LEMMA ExecuteCounts ==
  ASSUME NEW id, NEW p, NEW result, NEW before, Execute(id, p, result, before)
  PROVE  \E f \in Counter \ {"received"} : stats' = Plus(stats, before \union {f})
BY DEF Execute, Refuse, AuthFailCounts, Counter

(* A command either changes nothing but the statistics, or its handler ran. *)
LEMMA ExecuteType ==
  ASSUME TypeOK, NEW id \in CmdId, NEW p \in Payloads, NEW result \in Result, NEW before,
         Execute(id, p, result, before)
  PROVE  /\ sm' \in State /\ smReady' \in BOOLEAN /\ data' \in Data /\ dirty' \in BOOLEAN
         /\ stats' \in [Counter -> 0..StatRange-1]
         /\ sm # "EMERGENCY" => sm' # "EMERGENCY"
<1>1. stats' \in [Counter -> 0..StatRange-1]
  <2>1. stats \in [Counter -> 0..StatRange-1]
    BY CounterType DEF TypeOK
  <2>2. PICK f \in Counter \ {"received"} : stats' = Plus(stats, before \union {f})
    BY ExecuteCounts
  <2>3. QED
    BY <2>1, <2>2, PlusType
<1>2. \/ UNCHANGED <<sm, smReady, data>>
      \/ HandlerResult(id, p) = "SUCCESS" /\ HandlerEffect(id, p)
  BY DEF Execute, Refuse
<1>3. dirty' \in BOOLEAN
  BY DEF Execute, Refuse, TypeOK
<1>4. CASE UNCHANGED <<sm, smReady, data>>
  BY <1>1, <1>3, <1>4 DEF TypeOK
<1>5. CASE HandlerResult(id, p) = "SUCCESS" /\ HandlerEffect(id, p)
  BY <1>1, <1>3, <1>5, HandlerEffectType
<1>6. QED
  BY <1>2, <1>4, <1>5

-----------------------------------------------------------------------------
(* Types, and the emergency state: the rest of the program and what is     *)
(* stored are in it, too.                                                  *)
NoEmergency == sm # "EMERGENCY" /\ (image \in Image => image.sm # "EMERGENCY")
TypeInv == TypeOK /\ NoEmergency

LEMMA Defaults == ZeroData \in Data /\ DefaultData \in Data
BY DEF ZeroData, DefaultData, Data, BeaconInterval

LEMMA StoredType ==
  ASSUME TypeInv
  PROVE  Stored.sm \in State /\ Stored.data \in Data /\ Stored.sm # "EMERGENCY"
BY Defaults DEF TypeInv, TypeOK, NoEmergency, Stored, State, Image

LEMMA TypeInvStep ==
  ASSUME TypeInv, [Next]_vars
  PROVE  TypeInv'
<1>0. TypeOK /\ NoEmergency /\ 0 \in 0..StatRange-1
  BY CommandsAssumption DEF TypeInv
<1> USE DEF TypeInv, TypeOK, NoEmergency
<1>1. ASSUME NEW id \in CmdId, NEW p \in Payloads, Frame(id, p)
      PROVE  TypeInv'
  <2>1. CASE PayloadValid(id, p)
    <3>1. PICK result \in Result : Execute(id, p, result, {"received"})
      BY <1>1, <2>1 DEF Frame
    <3>2. QED
      BY <1>0, <1>1, <3>1, ExecuteType, CounterType DEF Frame
  <2>2. CASE ~PayloadValid(id, p)
    BY <1>0, <1>1, <2>2, PlusType, CounterType DEF Frame, Refuse
  <2>3. QED
    BY <2>1, <2>2
<1>2. ASSUME NEW id \in CmdId, NEW p \in Payloads, DirectCommand(id, p)
      PROVE  TypeInv'
  <2>1. PICK result \in Result : Execute(id, p, result, {})
    BY <1>2 DEF DirectCommand
  <2>2. direct' \in 0..StatRange-1
    <3>1. direct + 1 \in Nat /\ StatRange \in Nat \ {0} /\ direct' = (direct + 1) % StatRange
      BY <1>0, <1>2, CommandsAssumption DEF DirectCommand
    <3>2. QED
      BY <3>1
  <2>3. QED
    BY <1>0, <1>2, <2>1, <2>2, ExecuteType, CounterType DEF DirectCommand
<1>3. CASE MalformedFrame
  BY <1>0, <1>3, PlusType, CounterType DEF MalformedFrame, Refuse
<1>4. ASSUME NEW id \in CustomIds, RegisterHandler(id)
      PROVE  TypeInv'
  <2>1. handlers' \in Seq(CustomIds) /\ Len(handlers') <= MaxHandlers
    BY <1>0, <1>4, CommandsAssumption DEF RegisterHandler
  <2>2. QED
    BY <1>0, <1>4, <2>1 DEF RegisterHandler, state
<1>5. CASE ClearStats
  BY <1>0, <1>5, CounterType DEF ClearStats, state
<1>6. ASSUME NEW event \in Event, OtherEvent(event)
      PROVE  TypeInv'
  <2>1. sm' \in State /\ sm' # "EMERGENCY"
    BY <1>0, <1>6, AfterEvent DEF OtherEvent, ProcessEvent
  <2>2. QED
    BY <1>0, <1>6, <2>1 DEF OtherEvent, ProcessEvent
<1>7. CASE Measure
  BY <1>0, <1>7 DEF Measure
<1>8. CASE BeginSave
  BY <1>0, <1>8, StoredCopyAssumption DEF BeginSave, state
<1>9. CASE FinishSave
  <2>1. [sm |-> sm, data |-> data] \in Image
    BY <1>0 DEF Image
  <2>2. QED
    <3>1. CASE image' = [sm |-> sm, data |-> data] /\ dirty' = FALSE
      <4>1. image' \in Image /\ image'.sm # "EMERGENCY"
        BY <1>0, <2>1, <3>1
      <4>2. QED
        BY <1>0, <1>9, <3>1, <4>1 DEF FinishSave
    <3>2. CASE UNCHANGED <<image, dirty>>
      BY <1>0, <1>9, <3>2 DEF FinishSave
    <3>3. QED
      BY <1>9, <3>1, <3>2 DEF FinishSave
<1>10. CASE LoadState
  BY <1>0, <1>10, StoredType DEF LoadState, InitMachine
<1>11. CASE InitHandler
  <2>1. <<>> \in Seq(CustomIds) /\ Len(<<>>) <= MaxHandlers
    BY CommandsAssumption
  <2>2. QED
    BY <1>0, <1>11, <2>1, CounterType DEF InitHandler, state
<1>12. CASE Reset
  <2>1. <<>> \in Seq(CustomIds) /\ Len(<<>>) <= MaxHandlers
    BY CommandsAssumption
  <2>2. QED
    BY <1>0, <1>12, <2>1, CounterType, Defaults DEF Reset, State
<1>13. CASE UNCHANGED vars
  BY <1>0, <1>13 DEF vars
<1>14. QED
  BY <1>1, <1>2, <1>3, <1>4, <1>5, <1>6, <1>7, <1>8, <1>9, <1>10, <1>11, <1>12, <1>13
     DEF Next

LEMMA TypeInvHolds == Spec => []TypeInv
<1>1. Init => TypeInv
  <2>1. <<>> \in Seq(CustomIds) /\ Len(<<>>) <= MaxHandlers /\ 0 \in 0..StatRange-1
    BY CommandsAssumption
  <2>2. QED
    BY <2>1, CounterType, Defaults, StoredCopyAssumption
       DEF Init, TypeInv, TypeOK, NoEmergency, State
<1>2. TypeInv /\ [Next]_vars => TypeInv'
  BY TypeInvStep
<1>3. QED
  BY <1>1, <1>2, PTL DEF Spec

(***************************************************************************)
(* Types: a command leaves only modes, intervals and states that the       *)
(* program knows, whatever bytes its payload holds.                        *)
(***************************************************************************)
THEOREM TypeCorrect == Spec => []TypeOK
<1>1. TypeInv => TypeOK
  BY DEF TypeInv
<1>2. QED
  BY <1>1, TypeInvHolds, PTL

(***************************************************************************)
(* What the run commands_emergency shows of one event, for all of them:    *)
(* the documented EMERGENCY is dead code.  No event in any state, no       *)
(* command and no stored copy leads there, because the rows of             *)
(* state_machine.c:86 stand after rows that match first.                   *)
(***************************************************************************)
THEOREM EmergencyNotEnteredHolds == Spec => []EmergencyNotEntered
<1>1. TypeInv => EmergencyNotEntered
  BY DEF TypeInv, NoEmergency, EmergencyNotEntered
<1>2. QED
  BY <1>1, TypeInvHolds, PTL

-----------------------------------------------------------------------------
(* Counting modulo StatRange: the two sides differ by whole turns. *)
Turns == {-2*StatRange, -StatRange, 0, StatRange}
Difference(r, d, e, j, a) == (r + d) - (e + j + a)
OneMore(x) == (x + 1) % StatRange
Value == 0..StatRange-1

LEMMA Wrapped ==
  /\ \A x \in Value : OneMore(x) \in Value /\ OneMore(x) \in {x + 1, x + 1 - StatRange}
  /\ \A x \in 0..3*StatRange-1 :
       x % StatRange = IF x < StatRange THEN x
                       ELSE IF x < 2*StatRange THEN x - StatRange ELSE x - 2*StatRange
<1> DEFINE n == StatRange
<1>0. n \in Nat \ {0}
  BY CommandsAssumption
<1> HIDE DEF n
<1>1. \A x \in 0..n-1 : (x + 1) % n \in 0..n-1 /\ (x + 1) % n \in {x + 1, x + 1 - n}
  <2>1. SUFFICES ASSUME NEW x \in 0..n-1
                 PROVE  (x + 1) % n = IF x = n - 1 THEN 0 ELSE x + 1
    BY <1>0
  <2>2. QED
    BY <1>0
<1>2. \A x \in 0..n-1 : x % n = x /\ (x + n) % n = x
  BY <1>0
<1>3. \A x \in 0..n-1 : (x + n + n) % n = x
  BY <1>0
<1>4. ASSUME NEW x \in 0..3*n-1
      PROVE  x % n = IF x < n THEN x ELSE IF x < 2*n THEN x - n ELSE x - 2*n
  <2>1. CASE x < n
    BY <1>0, <1>2, <2>1
  <2>2. CASE n <= x /\ x < 2*n
    <3>1. x - n \in 0..n-1 /\ (x - n) + n = x
      BY <1>0, <2>2
    <3>2. QED
      BY <1>0, <1>2, <2>2, <3>1
  <2>3. CASE 2*n <= x
    <3>1. x - 2*n \in 0..n-1 /\ (x - 2*n) + n + n = x
      BY <1>0, <2>3
    <3>2. QED
      BY <1>0, <1>3, <2>3, <3>1
  <2>4. QED
    BY <1>0, <2>1, <2>2, <2>3
<1>5. QED
  BY <1>1, <1>4 DEF n, Value, OneMore

LEMMA Balanced ==
  ASSUME NEW r \in Value, NEW d \in Value, NEW e \in Value, NEW j \in Value, NEW a \in Value
  PROVE  (r + d) % StatRange = (e + j + a) % StatRange <=> Difference(r, d, e, j, a) \in Turns
<1>1. StatRange \in Nat \ {0}
  BY CommandsAssumption
<1>2. r + d \in 0..3*StatRange-1 /\ e + j + a \in 0..3*StatRange-1
  BY <1>1 DEF Value
<1> DEFINE n == StatRange
           x == r + d
           y == e + j + a
<1>3. /\ x % n = IF x < n THEN x ELSE IF x < 2*n THEN x - n ELSE x - 2*n
      /\ y % n = IF y < n THEN y ELSE IF y < 2*n THEN y - n ELSE y - 2*n
  BY <1>2, Wrapped
<1>4. n \in Nat \ {0} /\ x \in 0..2*n-2 /\ y \in 0..3*n-3
  BY <1>1 DEF Value
<1>5. Difference(r, d, e, j, a) \in Turns <=> x - y \in {-2*n, -n, 0, n}
  BY DEF Difference, Turns
<1> HIDE DEF n, x, y
<1>6. x % n = y % n <=> x - y \in {-2*n, -n, 0, n}
  <2>1. CASE x < n
    BY <1>3, <1>4, <2>1
  <2>2. CASE ~(x < n)
    BY <1>3, <1>4, <2>2
  <2>3. QED
    BY <2>1, <2>2
<1>7. QED
  BY <1>5, <1>6 DEF n, x, y

(* Whichever counter of each side of the balance one command increments, the   *)
(* sides still agree up to a turn.                                            *)
StaysBalanced(r, d, e, j, a) ==
  \A u \in {<<OneMore(r), d>>, <<r, OneMore(d)>>},
     v \in {<<OneMore(e), j, a>>, <<e, OneMore(j), a>>, <<e, j, OneMore(a)>>} :
    Difference(u[1], u[2], v[1], v[2], v[3]) \in Turns

(* One more on both sides leaves whole turns. *)
LEMMA BothSides ==
  ASSUME NEW r \in Value, NEW d \in Value, NEW e \in Value, NEW j \in Value, NEW a \in Value,
         Difference(r, d, e, j, a) \in Turns
  PROVE  StaysBalanced(r, d, e, j, a)
<1>1. StatRange \in Nat \ {0}
  BY CommandsAssumption
<1>2. \A x \in Value : OneMore(x) \in Value /\ OneMore(x) \in {x + 1, x + 1 - StatRange}
  BY Wrapped
<1> DEFINE onLeft(u) == u[1] \in Value /\ u[2] \in Value
                        /\ u[1] + u[2] \in {r + d + 1, r + d + 1 - StatRange}
           onRight(v) == v[1] \in Value /\ v[2] \in Value /\ v[3] \in Value
                         /\ v[1] + v[2] + v[3] \in {e + j + a + 1, e + j + a + 1 - StatRange}
<1>3. \A u \in {<<OneMore(r), d>>, <<r, OneMore(d)>>} : onLeft(u)
  <2>1. onLeft(<<OneMore(r), d>>)
    BY <1>1, <1>2 DEF Value
  <2>2. onLeft(<<r, OneMore(d)>>)
    BY <1>1, <1>2 DEF Value
  <2>3. QED
    BY <2>1, <2>2
<1>4. \A v \in {<<OneMore(e), j, a>>, <<e, OneMore(j), a>>, <<e, j, OneMore(a)>>} : onRight(v)
  <2>1. onRight(<<OneMore(e), j, a>>)
    BY <1>1, <1>2 DEF Value
  <2>2. onRight(<<e, OneMore(j), a>>)
    BY <1>1, <1>2 DEF Value
  <2>3. onRight(<<e, j, OneMore(a)>>)
    BY <1>1, <1>2 DEF Value
  <2>4. QED
    BY <2>1, <2>2, <2>3
<1>5. ASSUME NEW u, NEW v, onLeft(u), onRight(v)
      PROVE  Difference(u[1], u[2], v[1], v[2], v[3]) \in Turns
  BY <1>1, <1>5 DEF Value, Difference, Turns
<1>6. QED
  BY <1>3, <1>4, <1>5 DEF StaysBalanced

LEMMA CountsStep ==
  ASSUME TypeInv, EveryCommandCounted, NEW f \in Counter \ {"received"},
         \/ stats' = Plus(stats, {"received", f}) /\ direct' = direct
         \/ stats' = Plus(stats, {f}) /\ direct' = OneMore(direct)
  PROVE  EveryCommandCounted'
<1> DEFINE diff(s, d) == Difference(s.received, d, s.executed, s.rejected, s.authFailures)
<1>1. stats \in [Counter -> Value] /\ direct \in Value
  BY CounterType DEF TypeInv, TypeOK, Value
<1>2. stats' \in [Counter -> Value] /\ direct' \in Value
  BY <1>1, PlusType, Wrapped DEF Value
<1>3. diff(stats, direct) \in Turns
  BY <1>1, Balanced DEF EveryCommandCounted, Counter
<1>4. diff(stats', direct') \in Turns
  <2> DEFINE u == <<stats'.received, direct'>>
             v == <<stats'.executed, stats'.rejected, stats'.authFailures>>
  <2>1. u \in {<<OneMore(stats.received), direct>>, <<stats.received, OneMore(direct)>>}
    BY <1>1 DEF Plus, OneMore, Counter
  <2>2. v \in {<<OneMore(stats.executed), stats.rejected, stats.authFailures>>,
               <<stats.executed, OneMore(stats.rejected), stats.authFailures>>,
               <<stats.executed, stats.rejected, OneMore(stats.authFailures)>>}
    BY <1>1 DEF Plus, OneMore, Counter
  <2>3. \A g \in Counter : stats[g] \in Value
    BY <1>1
  <2>4. stats.received \in Value /\ stats.executed \in Value /\ stats.rejected \in Value
        /\ stats.authFailures \in Value
    BY <2>3 DEF Counter
  <2> HIDE DEF u, v
  <2>5. Difference(u[1], u[2], v[1], v[2], v[3]) \in Turns
    <3>1. Difference(stats.received, direct, stats.executed, stats.rejected,
                     stats.authFailures) \in Turns
      BY <1>3
    <3> HIDE DEF diff
    <3>2. direct \in Value
      BY <1>1
    <3>3. StaysBalanced(stats.received, direct, stats.executed, stats.rejected,
                        stats.authFailures)
      BY <2>4, <3>1, <3>2, BothSides, Zenon
    <3>4. QED
      BY <2>1, <2>2, <3>3 DEF StaysBalanced
  <2>6. QED
    BY <2>5 DEF u, v
<1>5. QED
  BY <1>2, <1>4, Balanced DEF EveryCommandCounted, Counter

(***************************************************************************)
(* However cmd_process and cmd_execute share the counting, and wherever    *)
(* the 32-bit counters wrap or are cleared, the counters of cmd_handler.c  *)
(* balance.                                                                *)
(***************************************************************************)
THEOREM EveryCommandCountedHolds == Spec => []EveryCommandCounted
<1>1. Init => EveryCommandCounted
  BY DEF Init, NoStats, EveryCommandCounted
<1>2. ASSUME TypeInv, EveryCommandCounted, [Next]_vars
      PROVE  EveryCommandCounted'
  <2>1. ASSUME NEW id \in CmdId, NEW p \in Payloads, Frame(id, p)
        PROVE  EveryCommandCounted'
    <3>1. \E f \in Counter \ {"received"} : stats' = Plus(stats, {"received"} \union {f})
      BY <2>1, ExecuteCounts DEF Frame, Refuse, Counter
    <3>2. PICK f \in Counter \ {"received"} : stats' = Plus(stats, {"received", f})
      BY <3>1
    <3>3. QED
      BY <1>2, <2>1, <3>2, CountsStep DEF Frame
  <2>2. ASSUME NEW id \in CmdId, NEW p \in Payloads, DirectCommand(id, p)
        PROVE  EveryCommandCounted'
    <3>1. \E f \in Counter \ {"received"} : stats' = Plus(stats, {} \union {f})
      BY <2>2, ExecuteCounts DEF DirectCommand
    <3>2. PICK f \in Counter \ {"received"} : stats' = Plus(stats, {f})
      BY <3>1
    <3>3. QED
      BY <1>2, <2>2, <3>2, CountsStep DEF DirectCommand, OneMore
  <2>3. CASE MalformedFrame
    <3>1. "rejected" \in Counter \ {"received"}
      BY DEF Counter
    <3>2. stats' = Plus(stats, {"received", "rejected"}) /\ direct' = direct
      BY <2>3 DEF MalformedFrame, Refuse
    <3>3. QED
      BY <1>2, <3>1, <3>2, CountsStep
  <2>4. CASE stats' = NoStats /\ direct' = 0
    BY <2>4 DEF NoStats, EveryCommandCounted
  <2>5. CASE UNCHANGED <<stats, direct>>
    BY <1>2, <2>5 DEF EveryCommandCounted
  <2>6. QED
    BY <1>2, <2>1, <2>2, <2>3, <2>4, <2>5
       DEF Next, vars, state, RegisterHandler, ClearStats, OtherEvent, Measure, BeginSave,
           FinishSave, LoadState, InitHandler, Reset
<1>3. QED
  BY <1>1, <1>2, TypeInvHolds, PTL DEF Spec

-----------------------------------------------------------------------------
(* While a save is under way the state is still marked dirty, so that a    *)
(* failure of the second half leaves nothing behind.                       *)
SaveIsDirty == saving => smReady /\ dirty
SavedInv == SaveIsDirty /\ CleanMeansSaved

(* A command leaves the data alone, or leaves the state dirty. *)
LEMMA ExecuteDirties ==
  ASSUME NEW id, NEW p, NEW result, NEW before, Execute(id, p, result, before), dirty \in BOOLEAN
  PROVE  /\ UNCHANGED <<data, dirty>> \/ dirty'
         /\ smReady' = smReady
<1>1. UNCHANGED <<data, dirty>> \/ dirty'
  BY DEF Execute, Refuse
<1>2. smReady' = smReady
  <2>1. HandlerEffect(id, p) => smReady' = smReady
    BY DEF HandlerEffect, ForceState, ProcessEvent
  <2>2. QED
    BY <2>1 DEF Execute, Refuse
<1>3. QED
  BY <1>1, <1>2

(***************************************************************************)
(* The data of a clean state are those a restart finds, with resets inside *)
(* sys_state_save, provided that callers save dirty states only and that   *)
(* storage that fails says so: flash, or a disk that never fails.  Of a    *)
(* file on a disk that fills up it is false: fclose fails, and its result  *)
(* is ignored (system_state.c:163).                                        *)
(***************************************************************************)
THEOREM CleanMeansSavedHolds ==
  ASSUME ReportedFailures
  PROVE  Spec => []CleanMeansSaved
<1>1. Init => SavedInv
  BY DEF Init, SavedInv, SaveIsDirty, CleanMeansSaved
<1>2. ASSUME TypeInv, SavedInv, [Next]_vars
      PROVE  SavedInv'
  <2> USE DEF SavedInv, SaveIsDirty, CleanMeansSaved, Stored, ReportedFailures
  <2>0. dirty \in BOOLEAN /\ saving \in BOOLEAN /\ smReady \in BOOLEAN
    BY <1>2 DEF TypeInv, TypeOK
  <2>1. ASSUME NEW id \in CmdId, NEW p \in Payloads, Frame(id, p)
        PROVE  SavedInv'
    <3>1. \/ UNCHANGED <<data, dirty, smReady>>
          \/ dirty' /\ smReady' = smReady
      BY <2>0, <2>1, ExecuteDirties DEF Frame, Refuse
    <3>2. QED
      BY <1>2, <2>0, <2>1, <3>1 DEF Frame
  <2>2. ASSUME NEW id \in CmdId, NEW p \in Payloads, DirectCommand(id, p)
        PROVE  SavedInv'
    <3>1. \/ UNCHANGED <<data, dirty, smReady>>
          \/ dirty' /\ smReady' = smReady
      BY <2>0, <2>2, ExecuteDirties DEF DirectCommand
    <3>2. QED
      BY <1>2, <2>0, <2>2, <3>1 DEF DirectCommand
  <2>3. CASE BeginSave
    BY <1>2, <2>0, <2>3 DEF BeginSave, state
  <2>4. CASE FinishSave
    <3>1. [sm |-> sm, data |-> data] \notin {NoImage, Torn}
      <4>1. [sm |-> sm, data |-> data] \in Image
        BY <1>2 DEF Image, TypeInv, TypeOK
      <4>2. QED
        BY <4>1, StoredCopyAssumption
    <3>2. CASE image' = [sm |-> sm, data |-> data] /\ dirty' = FALSE
      <4>1. Stored' = [sm |-> sm, data |-> data] /\ data' = data /\ ~saving'
        BY <2>4, <3>1, <3>2 DEF FinishSave
      <4>2. QED
        BY <4>1
    <3>3. CASE StorageCanFail /\ UNCHANGED image /\ dirty' = (dirty /\ ~Buffered)
      BY <1>2, <2>0, <2>4, <3>3 DEF FinishSave
    <3>4. QED
      BY <2>4, <3>2, <3>3 DEF FinishSave
  <2>5. CASE LoadState
    BY <1>2, <2>0, <2>5 DEF LoadState, InitMachine
  <2>6. CASE Reset
    BY <2>6 DEF Reset
  <2>7. CASE Measure
    BY <1>2, <2>0, <2>7 DEF Measure
  <2>8. CASE UNCHANGED <<smReady, data, dirty, image, saving>>
    BY <1>2, <2>8
  <2>9. QED
    BY <1>2, <2>1, <2>2, <2>3, <2>4, <2>5, <2>6, <2>7, <2>8
       DEF Next, vars, state, MalformedFrame, Refuse, RegisterHandler, ClearStats,
           OtherEvent, ProcessEvent, InitHandler
<1>3. SavedInv => CleanMeansSaved
  BY DEF SavedInv
<1>4. QED
  BY <1>1, <1>2, <1>3, TypeInvHolds, PTL DEF Spec

(***************************************************************************)
(* The refinement.  Saves happen only in a loaded state, where a step      *)
(* leaves the stored copy as it is, destroys it or makes it the state in   *)
(* force; before that nothing is stored but what is to be loaded.          *)
(***************************************************************************)
SaveIsLoaded == saving => smReady

LEMMA CopyFollows ==
  ASSUME TypeInv, SaveIsLoaded, [Next]_vars
  PROVE  /\ SaveIsLoaded'
         /\ image' # image => smReady /\ smReady'
         /\ image' \in {image, Torn, [sm |-> sm, data |-> data]}
         /\ (smReady <=> smReady') \/ LoadState \/ Reset
<1> USE DEF SaveIsLoaded
<1>0. dirty \in BOOLEAN /\ saving \in BOOLEAN /\ smReady \in BOOLEAN
  BY DEF TypeInv, TypeOK
<1>1. ASSUME NEW id \in CmdId, NEW p \in Payloads, Frame(id, p) \/ DirectCommand(id, p)
      PROVE  UNCHANGED <<image, saving, smReady>>
  BY <1>0, <1>1, ExecuteDirties DEF Frame, DirectCommand, Refuse
<1>2. CASE UNCHANGED <<image, saving, smReady>>
  BY <1>0, <1>2
<1>3. CASE BeginSave \/ FinishSave
  BY <1>0, <1>3 DEF BeginSave, FinishSave, state
<1>4. CASE LoadState
  BY <1>0, <1>4 DEF LoadState, InitMachine
<1>5. CASE Reset
  BY <1>0, <1>5 DEF Reset
<1>6. QED
  BY <1>1, <1>2, <1>3, <1>4, <1>5
     DEF Next, vars, state, MalformedFrame, Refuse, RegisterHandler, ClearStats,
         OtherEvent, ProcessEvent, InitHandler, Measure

(* What a restart finds is a record with the fields of Image. *)
LEMMA StoredRecord ==
  ASSUME TypeInv, TypeInv'
  PROVE  /\ Stored = [sm |-> Stored.sm, data |-> Stored.data]
         /\ Stored' = [sm |-> Stored'.sm, data |-> Stored'.data]
<1>1. \A i \in Image : i = [sm |-> i.sm, data |-> i.data]
  BY DEF Image
<1>2. image \in Image \union {NoImage, Torn} /\ image' \in Image \union {NoImage, Torn}
  BY DEF TypeInv, TypeOK
<1>3. Stored \in Image \/ Stored = [sm |-> "BOOT", data |-> DefaultData]
  BY <1>2 DEF Stored
<1>4. Stored' \in Image \/ Stored' = [sm |-> "BOOT", data |-> DefaultData]
  BY <1>2 DEF Stored
<1>5. QED
  BY <1>1, <1>3, <1>4

LEMMA DurableStep ==
  ASSUME TypeInv, TypeInv', SaveIsLoaded, [Next]_vars, ReportedFailures => CleanMeansSaved'
  PROVE  [Durable!Next]_Durable!vars
<1>0. /\ dirty \in BOOLEAN /\ saving \in BOOLEAN /\ smReady \in BOOLEAN /\ smReady' \in BOOLEAN
      /\ saving' \in BOOLEAN /\ dirty' \in BOOLEAN
      /\ [sm |-> sm, data |-> data] \in Image /\ [sm |-> sm, data |-> data]' \in Image
  BY DEF TypeInv, TypeOK, Image
<1>1. image' = image => Stored' = Stored
  BY DEF Stored
<1>2. CASE ~smReady /\ ~smReady'
  <2>1. image' = image
    BY <1>2, CopyFollows
  <2>2. QED
    BY <1>0, <1>1, <1>2, <2>1 DEF Durable!vars
<1>3. CASE LoadState
  <2>1. /\ ~smReady /\ smReady' /\ image' = image
        /\ sm' = Stored.sm /\ data' = Stored.data
        /\ ~dirty' /\ ~saving'
    BY <1>0, <1>3 DEF LoadState, InitMachine, SaveIsLoaded
  <2>2. Stored' = Stored
    BY <1>1, <2>1
  <2>3. [sm |-> sm, data |-> data]' = Stored
    BY <2>1, StoredRecord
  <2>4. sm' = Stored'.sm
    BY <2>1, <2>2
  <2>5. QED
    BY <2>1, <2>2, <2>3, <2>4 DEF Durable!Next, Durable!Start
<1>4. CASE Reset
  <2>1. ~smReady' /\ image' = image
    BY <1>4 DEF Reset
  <2>2. QED
    BY <1>0, <1>1, <1>2, <2>1 DEF Durable!Next, Durable!Stop
<1>5. CASE smReady /\ smReady'
  <2>1. Stored' \in {Stored, [sm |-> "BOOT", data |-> DefaultData],
                     [sm |-> sm, data |-> data]}
    <3>1. CASE image' = image
      BY <1>1, <3>1
    <3>2. CASE image' = Torn
      <4>1. Stored' = [sm |-> "BOOT", data |-> DefaultData]
        BY <3>2 DEF Stored
      <4>2. QED
        BY <4>1
    <3>3. CASE image' = [sm |-> sm, data |-> data]
      <4>1. Stored' = [sm |-> sm, data |-> data]
        BY <1>0, <3>3, StoredCopyAssumption DEF Stored
      <4>2. QED
        BY <4>1
    <3>4. QED
      BY <3>1, <3>2, <3>3, CopyFollows
  <2>2. ReportedFailures /\ ~(saving' \/ dirty' \/ sm' # Stored'.sm)
          => Stored' = [sm |-> sm, data |-> data]'
    BY <1>5, StoredRecord DEF CleanMeansSaved
  <2>3. QED
    BY <1>0, <1>5, <2>1, <2>2 DEF Durable!Next, Durable!Work
<1>6. QED
  BY <1>0, <1>2, <1>3, <1>4, <1>5, CopyFollows

(* The record of the system state, the state machine's part included,      *)
(* implements the abstract durable value with its stored copy, resets and  *)
(* failing storage.  That a state with nothing pending is the stored one   *)
(* is claimed where storage reports its failures; the rest of it always.   *)
THEOREM StateIsDurableHolds == Spec => StateIsDurable
<1>1. Init => SaveIsLoaded /\ Durable!Init
  BY DEF Init, SaveIsLoaded, Durable!Init, Stored
<1>2. TypeInv /\ SaveIsLoaded /\ [Next]_vars => SaveIsLoaded'
  BY CopyFollows
<1>3. TypeInv /\ TypeInv' /\ SaveIsLoaded /\ [Next]_vars
        /\ (ReportedFailures => CleanMeansSaved') => [Durable!Next]_Durable!vars
  BY DurableStep
<1>4. CASE ~ReportedFailures
  BY <1>1, <1>2, <1>3, <1>4, TypeInvHolds, PTL DEF Spec, StateIsDurable, Durable!Spec
<1>5. CASE ReportedFailures
  <2>1. Spec => []CleanMeansSaved
    BY <1>5, CleanMeansSavedHolds
  <2>2. QED
    BY <1>1, <1>2, <1>3, <1>5, <2>1, TypeInvHolds, PTL DEF Spec, StateIsDurable, Durable!Spec
<1>6. QED
  BY <1>4, <1>5

(* In SAFE and EMERGENCY no command gets through that writes the modes. *)
LEMMA ShieldedCommands ==
  ASSUME TypeInv, sm \in {"SAFE", "EMERGENCY"}, NEW id \in CmdId, NEW p, NEW result, NEW before,
         Execute(id, p, result, before)
  PROVE  UNCHANGED <<data.mode, data.payload>>
<1>1. CASE data' = data
  BY <1>1
<1>2. CASE IsAllowed(id) /\ HandlerEffect(id, p)
  <2>1. id \notin {CMD_EPS_SET_MODE, CMD_PLD_ENABLE, CMD_PLD_DISABLE}
    BY <1>2 DEF IsAllowed, CMD_SYS_NOP, CMD_SYS_RESET, CMD_SYS_SET_MODE, CMD_SYS_GET_STATUS,
       CMD_EPS_SET_MODE, CMD_EPS_GET_TELEMETRY, CMD_ADCS_GET_ATTITUDE, CMD_COMM_SET_BEACON,
       CMD_PLD_ENABLE, CMD_PLD_DISABLE
  <2>2. data' \in {data, [data EXCEPT !.beacon = Word(p)]}
    BY <1>2, <2>1 DEF HandlerEffect
  <2>3. data \in Data
    BY DEF TypeInv, TypeOK
  <2>4. QED
    BY <2>2, <2>3 DEF Data
<1>3. QED
  BY <1>1, <1>2 DEF Execute, Refuse

(***************************************************************************)
(* SAFE and EMERGENCY shield the payload switch and the power mode from    *)
(* every command, of a frame or of the program itself.                     *)
(***************************************************************************)
THEOREM SafeStateShieldsHolds == Spec => SafeStateShields
<1> DEFINE Shield == smReady /\ smReady' /\ sm \in {"SAFE", "EMERGENCY"}
                       => UNCHANGED <<data.mode, data.payload>>
<1>1. ASSUME TypeInv, [Next]_vars
      PROVE  [Shield]_vars
  <2>1. SUFFICES ASSUME smReady, smReady', sm \in {"SAFE", "EMERGENCY"}
                 PROVE  UNCHANGED <<data.mode, data.payload>>
    OBVIOUS
  <2>2. ASSUME NEW id \in CmdId, NEW p \in Payloads, Frame(id, p) \/ DirectCommand(id, p)
        PROVE  UNCHANGED <<data.mode, data.payload>>
    BY <1>1, <2>1, <2>2, ShieldedCommands DEF Frame, DirectCommand, Refuse
  <2>3. CASE data' = data
    BY <2>3
  <2>4. QED
    BY <1>1, <2>1, <2>2, <2>3
       DEF Next, vars, state, MalformedFrame, Refuse, RegisterHandler, ClearStats, OtherEvent,
           Measure, BeginSave, FinishSave, LoadState, InitHandler, Reset
<1>2. QED
  BY <1>1, TypeInvHolds, PTL DEF Spec, SafeStateShields
=============================================================================
