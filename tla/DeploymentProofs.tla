-------------------------- MODULE DeploymentProofs --------------------------
(***************************************************************************)
(* Theorems about Deployment for all times, call periods, numbers of       *)
(* retries and forced retries.                                             *)
(***************************************************************************)
EXTENDS Deployment, TLAPS

LEMMA ElementNames ==
  /\ Element = {"antenna", "solar"}
  /\ Pending("antenna") = "ANTENNA_PENDING" /\ Pending("solar") = "SOLAR_PENDING"
  /\ Active("antenna") = "ANTENNA_ACTIVE" /\ Active("solar") = "SOLAR_ACTIVE"
  /\ Verify("antenna") = "ANTENNA_VERIFY" /\ Verify("solar") = "SOLAR_VERIFY"
  /\ NextAfter("antenna") = "SOLAR_PENDING" /\ NextAfter("solar") = "COMPLETE"
BY DEF Element, Pending, Active, Verify, NextAfter

LEMMA Numbers ==
  /\ WaitTime \in Nat \ {0} /\ AntennaBurn \in Nat \ {0} /\ SolarBurn \in Nat \ {0}
  /\ RetryDelay \in Nat \ {0} /\ MaxRetries \in Nat \ {0} /\ MaxGap \in Nat \ {0}
  /\ VerifyTimeout \in Nat \ {0}
  /\ SimSeparation \in Nat \ {0} /\ MaxForces \in Nat /\ TimeRange \in Nat
  /\ WaitTime + MaxGap < TimeRange /\ RetryDelay + MaxGap < TimeRange
  /\ AntennaBurn + MaxGap < TimeRange /\ SolarBurn + MaxGap < TimeRange
  /\ RetryDelay <= WaitTime
BY TimesAssumption

LEMMA SaturateType ==
  ASSUME NEW bound \in Nat, NEW t \in Nat
  PROVE  Saturate(t, bound) \in 0..bound
BY DEF Saturate

LEMMA StateNames ==
  DeploymentState =
    {"INHIBITED", "WAITING", "COMPLETE", "FAILED", "ANTENNA_PENDING", "SOLAR_PENDING",
     "ANTENNA_ACTIVE", "SOLAR_ACTIVE", "ANTENNA_VERIFY", "SOLAR_VERIFY"}
BY ElementNames DEF DeploymentState

-----------------------------------------------------------------------------
(* The types in two parts: numbers, and the rest. *)
NumbersOK ==
  /\ age \in 0..(TimeRange - 1)
  /\ attempts \in [Element -> 0..MaxRetries]
  /\ simCounter \in 0..SimSeparation
  /\ forces \in 0..MaxForces
  /\ sinceSep \in 0..WaitTime
  /\ burnFor \in 0..LongestBurn
  /\ cooled \in 0..RetryDelay

NamesOK ==
  /\ build \in Builds
  /\ {initialized, separated, enabled, wire, due} \subseteq BOOLEAN
  /\ state \in DeploymentState
  /\ deployed \in [Element -> BOOLEAN]
  /\ attempted \in [Element -> BOOLEAN]
  /\ lastBurn \in Element

LEMMA NamesStep ==
  ASSUME NamesOK, [Next]_vars
  PROVE  NamesOK'
<1> USE ElementNames, StateNames DEF NamesOK
<1>1. CASE AwaitSeparation \/ AwaitTimer
  BY <1>1 DEF AwaitSeparation, AwaitTimer, Called, EnterState, history
<1>2. ASSUME NEW e \in Element, Attempt(e)
      PROVE  NamesOK'
  <2>1. CASE Confirm(e)
    BY <1>2, <2>1 DEF Attempt, Called, Confirm, EnterState, history
  <2>2. CASE StartBurn(e)
    BY <1>2, <2>2 DEF Attempt, Called, StartBurn, EnterState
  <2>3. CASE GiveUp(e)
    BY <1>2, <2>3 DEF Attempt, Called, GiveUp, EnterState, history
  <2>4. QED
    BY <1>2, <2>1, <2>2, <2>3 DEF Attempt
<1>3. ASSUME NEW e \in Element, EndBurn(e)
      PROVE  NamesOK'
  BY <1>3 DEF EndBurn, Called, EnterState
<1>4. ASSUME NEW e \in Element, Check(e)
      PROVE  NamesOK'
  <2>1. CASE Confirm(e)
    BY <1>4, <2>1 DEF Check, Called, Confirm, EnterState, history
  <2>2. CASE UNCHANGED <<deployed, attempted, wire, history>>
             /\ (EnterState(Pending(e)) \/ UNCHANGED state)
    BY <1>4, <2>2 DEF Check, Called, EnterState, history
  <2>3. QED
    BY <1>4, <2>1, <2>2 DEF Check
<1>5. CASE NothingToDo
  BY <1>5 DEF NothingToDo, Called, status, history
<1>6. ASSUME NEW d \in 1..MaxGap, Tick(d)
      PROVE  NamesOK'
  BY <1>6 DEF Tick
<1>7. ASSUME NEW enable \in BOOLEAN, SetEnabled(enable)
      PROVE  NamesOK'
  BY <1>7 DEF SetEnabled, status, history
<1>8. ASSUME NEW e \in Element, ForceRetry(e)
      PROVE  NamesOK'
  BY <1>8 DEF ForceRetry, EnterState, history
<1>9. CASE Initialize \/ Reset
  BY <1>9 DEF Initialize, Reset, Fresh
<1>10. CASE UNCHANGED vars
  BY <1>10 DEF vars, status, history
<1>11. QED
  BY <1>1, <1>2, <1>3, <1>4, <1>5, <1>6, <1>7, <1>8, <1>9, <1>10 DEF Next, Process

LEMMA NumbersStep ==
  ASSUME NumbersOK, NamesOK, [Next]_vars
  PROVE  NumbersOK'
<1>0. 0 \in 0..(TimeRange - 1) /\ 0 \in 0..WaitTime /\ 0 \in 0..LongestBurn
      /\ 0 \in 0..RetryDelay /\ 0 \in 0..MaxRetries /\ 0 \in 0..SimSeparation
  BY Numbers DEF LongestBurn
<1>1. CASE AwaitSeparation
  <2>1. simCounter + 1 \in Nat /\ SimSeparation \in Nat
    BY Numbers DEF NumbersOK
  <2>2. simCounter' \in 0..SimSeparation
    BY <1>1, <2>1, SaturateType DEF AwaitSeparation
  <2>3. age' \in {0, age} /\ sinceSep' \in {0, sinceSep}
    BY <1>1 DEF AwaitSeparation, EnterState
  <2>4. UNCHANGED <<attempts, forces, burnFor, cooled>>
    BY <1>1 DEF AwaitSeparation, Called
  <2>5. QED
    BY <1>0, <2>2, <2>3, <2>4 DEF NumbersOK
<1>2. CASE AwaitTimer
  <2>1. age' \in {0, age} /\ UNCHANGED <<attempts, forces, simCounter, history>>
    BY <1>2 DEF AwaitTimer, Called, EnterState
  <2>2. QED
    BY <1>0, <2>1 DEF NumbersOK, history
<1>3. ASSUME NEW e \in Element, Attempt(e)
      PROVE  NumbersOK'
  <2>1. age' \in {0, age} /\ UNCHANGED <<simCounter, forces, sinceSep, cooled>>
    BY <1>3 DEF Attempt, Called, Confirm, StartBurn, GiveUp, EnterState, history
  <2>2. attempts' \in [Element -> 0..MaxRetries] /\ burnFor' \in {0, burnFor}
    <3>1. CASE StartBurn(e)
      <4>1. attempts[e] + 1 \in 0..MaxRetries
        BY <3>1, Numbers DEF StartBurn, MayAttempt, NumbersOK
      <4>2. QED
        BY <3>1, <4>1 DEF StartBurn, NumbersOK
    <3>2. CASE Confirm(e) \/ GiveUp(e)
      BY <3>2 DEF Confirm, GiveUp, NumbersOK, history
    <3>3. QED
      BY <1>3, <3>1, <3>2 DEF Attempt
  <2>3. QED
    BY <1>0, <2>1, <2>2 DEF NumbersOK
<1>4. ASSUME NEW e \in Element, EndBurn(e)
      PROVE  NumbersOK'
  <2>1. age' = 0 /\ cooled' = 0 /\ UNCHANGED <<attempts, forces, simCounter, sinceSep, burnFor>>
    BY <1>4 DEF EndBurn, Called, EnterState
  <2>2. QED
    BY <1>0, <2>1 DEF NumbersOK
<1>5. ASSUME NEW e \in Element, Check(e)
      PROVE  NumbersOK'
  <2>1. age' \in {0, age} /\ UNCHANGED <<attempts, forces, simCounter, history>>
    BY <1>5 DEF Check, Called, Confirm, EnterState
  <2>2. QED
    BY <1>0, <2>1 DEF NumbersOK, history
<1>6. CASE NothingToDo \/ (\E enable \in BOOLEAN : SetEnabled(enable)) \/ UNCHANGED vars
  <2>1. UNCHANGED <<age, attempts, forces, simCounter, history>>
    BY <1>6 DEF NothingToDo, Called, SetEnabled, vars, status
  <2>2. QED
    BY <2>1 DEF NumbersOK, history
<1>7. ASSUME NEW d \in 1..MaxGap, Tick(d)
      PROVE  NumbersOK'
  <2>1. d \in Nat /\ age \in Nat /\ sinceSep \in Nat /\ burnFor \in Nat /\ cooled \in Nat
        /\ LongestBurn \in Nat /\ RetryDelay \in Nat /\ WaitTime \in Nat
        /\ TimeRange \in Nat \ {0}
    BY Numbers DEF NumbersOK, LongestBurn
  <2>2. age' \in 0..(TimeRange - 1)
    <3>1. age' = (age + d) % TimeRange
      BY <1>7 DEF Tick
    <3>2. QED
      BY <2>1, <3>1
  <2>3. sinceSep' \in 0..WaitTime
    <3>1. sinceSep' = 0 \/ sinceSep' = Saturate(sinceSep + d, WaitTime)
      BY <1>7 DEF Tick
    <3>2. sinceSep + d \in Nat
      BY <2>1
    <3>3. QED
      BY <1>0, <2>1, <3>1, <3>2, SaturateType
  <2>4. burnFor' \in 0..LongestBurn
    <3>1. burnFor' = burnFor \/ burnFor' = Saturate(burnFor + d, LongestBurn)
      BY <1>7 DEF Tick
    <3>2. burnFor + d \in Nat
      BY <2>1
    <3>3. QED
      BY <2>1, <3>1, <3>2, SaturateType DEF NumbersOK
  <2>5. cooled' \in 0..RetryDelay
    <3>1. cooled' = cooled \/ cooled' = Saturate(cooled + d, RetryDelay)
      BY <1>7 DEF Tick
    <3>2. cooled + d \in Nat
      BY <2>1
    <3>3. QED
      BY <2>1, <3>1, <3>2, SaturateType DEF NumbersOK
  <2>6. UNCHANGED <<attempts, simCounter, forces>>
    BY <1>7 DEF Tick
  <2>7. QED
    BY <2>2, <2>3, <2>4, <2>5, <2>6 DEF NumbersOK
<1>8. ASSUME NEW e \in Element, ForceRetry(e)
      PROVE  NumbersOK'
  <2>1. forces' \in 0..MaxForces
    BY <1>8, Numbers DEF ForceRetry, NumbersOK
  <2>2. age' = 0 /\ attempts' = [attempts EXCEPT ![e] = 0] /\ UNCHANGED <<simCounter, history>>
    BY <1>8 DEF ForceRetry, EnterState
  <2>3. QED
    BY <1>0, <2>1, <2>2 DEF NumbersOK, history
<1>9. CASE Initialize \/ Reset
  <2>1. /\ age' = 0 /\ sinceSep' = 0 /\ attempts' = [e \in Element |-> 0]
        /\ simCounter' \in {0, simCounter} /\ cooled' \in {0, cooled}
        /\ UNCHANGED <<forces, burnFor>>
    BY <1>9 DEF Initialize, Reset, Fresh
  <2>2. QED
    BY <1>0, <2>1 DEF NumbersOK
<1>10. QED
  BY <1>1, <1>2, <1>3, <1>4, <1>5, <1>6, <1>7, <1>8, <1>9 DEF Next, Process

LEMMA TypesAreParts == TypeOK <=> NumbersOK /\ NamesOK
BY DEF TypeOK, NumbersOK, NamesOK

(***************************************************************************)
(* Types; deployment.c never counts more than MaxRetries attempts, and the *)
(* ages it computes stay in the range of its counter.                      *)
(***************************************************************************)
THEOREM TypeCorrect == Spec => []TypeOK
<1>1. Init => NamesOK
  BY ElementNames, StateNames DEF Init, NamesOK
<1>2. Init => NumbersOK
  BY Numbers DEF Init, NumbersOK, LongestBurn
<1>3. NamesOK /\ [Next]_vars => NamesOK'
  BY NamesStep
<1>4. NumbersOK /\ NamesOK /\ [Next]_vars => NumbersOK'
  BY NumbersStep
<1>5. NumbersOK /\ NamesOK => TypeOK
  BY TypesAreParts
<1>6. QED
  BY <1>1, <1>2, <1>3, <1>4, <1>5, PTL DEF Spec

-----------------------------------------------------------------------------
(***************************************************************************)
(* What states, flags and the wire have to do with each other, until a     *)
(* forced retry: the wire is hot in ACTIVE states only, for the element    *)
(* whose burn was the latest; the sequence passes every state.             *)
(***************************************************************************)
SequenceInv ==
  forces = 0 =>
    /\ \A e \in Element : state = Active(e) => wire /\ lastBurn = e
    /\ wire => \E e \in Element : state = Active(e)
    /\ \A e \in Element : state = Verify(e) => lastBurn = e
    /\ state # "INHIBITED" => separated
    /\ state \in {Pending("solar"), Active("solar"), Verify("solar"), "COMPLETE"}
         => deployed["antenna"]
    /\ state = "COMPLETE" => deployed["solar"]

(***************************************************************************)
(* What the times have to do with each other, until a forced retry.  age   *)
(* wraps, the times of the history do not.                                 *)
(***************************************************************************)
TimeInv ==
  forces = 0 =>
    /\ state = "WAITING" => sinceSep = WaitTime \/ sinceSep = age
    /\ state \notin {"INHIBITED", "WAITING"} => sinceSep = WaitTime
    /\ wire => burnFor = age /\ (~due => age < BurnTime(lastBurn))
    /\ burnFor < BurnTime(lastBurn) + MaxGap
    /\ state = "WAITING" => cooled = RetryDelay \/ cooled >= sinceSep
    /\ state = Pending("antenna") => cooled = RetryDelay
    /\ state = Pending("solar") /\ lastBurn = "solar" => cooled = RetryDelay
    /\ \A e \in Element : state = Verify(e) => cooled = RetryDelay \/ cooled >= age

(* After a forced retry nothing is promised any more. *)
LEMMA NoMoreForces ==
  ASSUME NumbersOK, [Next]_vars, forces' = 0
  PROVE  forces = 0 /\ ~(\E e \in Element : ForceRetry(e))
<1>1. ASSUME NEW e \in Element
      PROVE  ~ForceRetry(e)
  <2>1. forces \in Nat
    BY DEF NumbersOK
  <2>2. forces + 1 # 0
    BY <2>1
  <2>3. QED
    BY <2>2 DEF ForceRetry
<1>2. UNCHANGED forces
  BY <1>1
     DEF Next, Process, AwaitSeparation, AwaitTimer, Attempt, EndBurn, Check, NothingToDo,
         Called, Tick, SetEnabled, Initialize, Reset, vars
<1>3. QED
  BY <1>1, <1>2

LEMMA SequenceInvStep ==
  ASSUME NumbersOK, NamesOK, SequenceInv, [Next]_vars
  PROVE  SequenceInv'
<1> SUFFICES ASSUME forces' = 0
             PROVE  SequenceInv'
  BY DEF SequenceInv
<1>0. forces = 0 /\ ~(\E e \in Element : ForceRetry(e))
  BY NoMoreForces
<1> USE ElementNames DEF SequenceInv, NamesOK
<1>1. CASE AwaitSeparation
  BY <1>0, <1>1 DEF AwaitSeparation, Called, EnterState
<1>2. CASE AwaitTimer
  BY <1>0, <1>2 DEF AwaitTimer, Called, EnterState, history
<1>3. ASSUME NEW e \in Element, Called(Pending(e)) \/ Called(Verify(e)), Confirm(e),
             UNCHANGED separated
      PROVE  SequenceInv'
  <2>1. ~wire /\ separated /\ (e = "solar" => deployed["antenna"])
    BY <1>0, <1>3 DEF Called
  <2>2. /\ deployed' = [deployed EXCEPT ![e] = TRUE] /\ state' = NextAfter(e)
        /\ UNCHANGED <<wire, lastBurn, separated>>
    BY <1>3 DEF Confirm, EnterState, history
  <2>3. deployed'[e] /\ (e = "solar" => deployed'["antenna"])
    BY <2>1, <2>2
  <2>4. CASE e = "antenna"
    BY <2>1, <2>2, <2>3, <2>4
  <2>5. CASE e = "solar"
    BY <2>1, <2>2, <2>3, <2>5
  <2>6. QED
    BY <2>4, <2>5
<1>4. ASSUME NEW e \in Element, Attempt(e)
      PROVE  SequenceInv'
  <2>1. state = Pending(e) /\ separated' = separated /\ Called(Pending(e))
    BY <1>4 DEF Attempt, Called
  <2>2. CASE Confirm(e)
    BY <1>3, <2>1, <2>2
  <2>3. CASE StartBurn(e)
    <3>1. /\ wire' /\ lastBurn' = e /\ state' = Active(e) /\ deployed' = deployed
      BY <2>3 DEF StartBurn, EnterState
    <3>2. separated' /\ (e = "solar" => deployed'["antenna"])
      BY <1>0, <2>1, <3>1
    <3>3. CASE e = "antenna"
      BY <3>1, <3>2, <3>3
    <3>4. CASE e = "solar"
      BY <3>1, <3>2, <3>4
    <3>5. QED
      BY <3>3, <3>4
  <2>4. CASE GiveUp(e)
    BY <1>0, <2>1, <2>4 DEF GiveUp, EnterState, history
  <2>5. QED
    BY <1>4, <2>2, <2>3, <2>4 DEF Attempt
<1>5. ASSUME NEW e \in Element, EndBurn(e)
      PROVE  SequenceInv'
  <2>1. /\ state = Active(e) /\ state' = Verify(e) /\ ~wire'
        /\ UNCHANGED <<deployed, separated, lastBurn>>
    BY <1>5 DEF EndBurn, Called, EnterState
  <2>2. CASE e = "antenna"
    BY <1>0, <2>1, <2>2
  <2>3. CASE e = "solar"
    BY <1>0, <2>1, <2>3
  <2>4. QED
    BY <2>2, <2>3
<1>6. ASSUME NEW e \in Element, Check(e)
      PROVE  SequenceInv'
  <2>1. state = Verify(e) /\ separated' = separated /\ Called(Verify(e))
    BY <1>6 DEF Check, Called
  <2>2. CASE Confirm(e)
    BY <1>3, <2>1, <2>2
  <2>3. CASE EnterState(Pending(e)) /\ UNCHANGED <<deployed, wire, history>>
    <3>1. CASE e = "antenna"
      BY <1>0, <2>1, <2>3, <3>1 DEF EnterState, history
    <3>2. CASE e = "solar"
      BY <1>0, <2>1, <2>3, <3>2 DEF EnterState, history
    <3>3. QED
      BY <3>1, <3>2
  <2>4. CASE UNCHANGED <<state, deployed, wire, history>>
    BY <1>0, <2>1, <2>4 DEF history
  <2>5. QED
    BY <1>6, <2>2, <2>3, <2>4 DEF Check
<1>7. CASE NothingToDo \/ (\E d \in 1..MaxGap : Tick(d))
           \/ (\E enable \in BOOLEAN : SetEnabled(enable)) \/ UNCHANGED vars
  <2>1. UNCHANGED <<state, deployed, separated, wire, lastBurn>>
    BY <1>7 DEF NothingToDo, Tick, SetEnabled, vars, status, history
  <2>2. QED
    BY <1>0, <2>1
<1>8. CASE Initialize \/ Reset
  BY <1>8 DEF Initialize, Reset, Fresh
<1>9. QED
  BY <1>0, <1>1, <1>2, <1>4, <1>5, <1>6, <1>7, <1>8 DEF Next, Process

LEMMA BurnTimes ==
  ASSUME NEW e \in Element
  PROVE  /\ BurnTime(e) \in Nat \ {0}
         /\ BurnTime(e) + MaxGap < TimeRange
         /\ BurnTime(e) + MaxGap <= LongestBurn
<1>1. BurnTime(e) \in {AntennaBurn, SolarBurn}
  BY DEF BurnTime
<1>2. QED
  BY <1>1, Numbers DEF LongestBurn

(* Time passes: ages that matter do not wrap. *)
LEMMA TickTimes ==
  ASSUME NumbersOK, NamesOK, SequenceInv, TimeInv, forces = 0, NEW d \in 1..MaxGap, Tick(d)
  PROVE  TimeInv'
<1>1. /\ age \in Nat /\ sinceSep \in 0..WaitTime /\ cooled \in 0..RetryDelay /\ burnFor \in Nat
      /\ d \in Nat /\ d <= MaxGap /\ MaxGap \in Nat /\ TimeRange \in Nat /\ WaitTime \in Nat
      /\ RetryDelay \in Nat /\ LongestBurn \in Nat
  BY Numbers DEF NumbersOK, LongestBurn
<1>2. /\ age' = (age + d) % TimeRange
      /\ UNCHANGED <<state, wire, lastBurn, separated>>
      /\ due' /\ ~due
  BY DEF Tick
<1>3. ASSUME age + d < TimeRange
      PROVE  age' = age + d
  BY <1>1, <1>2, <1>3
<1>4. ASSUME separated
      PROVE  sinceSep' = Saturate(sinceSep + d, WaitTime)
  BY <1>4 DEF Tick
<1>5. state # "INHIBITED" => separated
  BY DEF SequenceInv
<1>6. state = "WAITING" => sinceSep' = WaitTime \/ sinceSep' = age'
  <2>1. SUFFICES ASSUME state = "WAITING"
                 PROVE  sinceSep' = WaitTime \/ sinceSep' = age'
    OBVIOUS
  <2>2. sinceSep' = Saturate(sinceSep + d, WaitTime)
    BY <1>4, <1>5, <2>1
  <2>3. sinceSep = WaitTime \/ sinceSep = age
    BY <2>1 DEF TimeInv
  <2>4. CASE sinceSep = WaitTime
    BY <1>1, <2>2, <2>4 DEF Saturate
  <2>5. CASE sinceSep = age
    <3>1. age + d < TimeRange
      BY <1>1, <2>5, Numbers
    <3>2. QED
      BY <1>1, <1>3, <2>2, <2>5, <3>1 DEF Saturate
  <2>6. QED
    BY <2>3, <2>4, <2>5
<1>7. state \notin {"INHIBITED", "WAITING"} => sinceSep' = WaitTime
  <2>1. SUFFICES ASSUME state \notin {"INHIBITED", "WAITING"}
                 PROVE  sinceSep' = WaitTime
    OBVIOUS
  <2>2. sinceSep' = Saturate(sinceSep + d, WaitTime) /\ sinceSep = WaitTime
    BY <1>4, <1>5, <2>1 DEF TimeInv
  <2>3. QED
    BY <1>1, <2>2 DEF Saturate
<1>8. BurnTime(lastBurn) \in Nat \ {0} /\ BurnTime(lastBurn) + MaxGap < TimeRange
      /\ BurnTime(lastBurn) + MaxGap <= LongestBurn
  BY BurnTimes DEF NamesOK
<1>9. ASSUME wire
      PROVE  burnFor' = age' /\ burnFor' < BurnTime(lastBurn) + MaxGap
  <2>1. burnFor = age /\ age < BurnTime(lastBurn)
    BY <1>2, <1>9 DEF TimeInv
  <2>2. burnFor' = Saturate(burnFor + d, LongestBurn)
    BY <1>9 DEF Tick
  <2>3. age + d < TimeRange /\ age + d < BurnTime(lastBurn) + MaxGap
    BY <1>1, <1>8, <2>1
  <2>4. QED
    BY <1>1, <1>3, <1>8, <2>1, <2>2, <2>3 DEF Saturate
<1>10. burnFor' < BurnTime(lastBurn) + MaxGap
  <2>1. CASE wire
    BY <1>9, <2>1
  <2>2. CASE ~wire
    <3>1. burnFor' = burnFor /\ burnFor < BurnTime(lastBurn) + MaxGap
      BY <2>2 DEF Tick, TimeInv
    <3>2. QED
      BY <3>1
  <2>3. QED
    BY <2>1, <2>2
<1>11. ASSUME ~wire
       PROVE  cooled' = Saturate(cooled + d, RetryDelay)
  BY <1>11 DEF Tick
<1>12. state \in {"WAITING", "ANTENNA_PENDING", "SOLAR_PENDING", "ANTENNA_VERIFY",
                  "SOLAR_VERIFY"} => ~wire
  BY ElementNames DEF SequenceInv
<1>13. state = "WAITING" => cooled' = RetryDelay \/ cooled' >= sinceSep'
  <2>1. SUFFICES ASSUME state = "WAITING"
                 PROVE  cooled' = RetryDelay \/ cooled' >= sinceSep'
    OBVIOUS
  <2>2. cooled' = Saturate(cooled + d, RetryDelay) /\ sinceSep' = Saturate(sinceSep + d, WaitTime)
    BY <1>4, <1>5, <1>11, <1>12, <2>1
  <2>3. cooled = RetryDelay \/ cooled >= sinceSep
    BY <2>1 DEF TimeInv
  <2>4. QED
    BY <1>1, <2>2, <2>3 DEF Saturate
<1>14. ASSUME ~wire, cooled = RetryDelay
       PROVE  cooled' = RetryDelay
  <2>1. cooled' = Saturate(cooled + d, RetryDelay)
    BY <1>11, <1>14
  <2>2. QED
    BY <1>1, <1>14, <2>1 DEF Saturate
<1>15. ASSUME NEW e \in Element, state = Verify(e)
       PROVE  cooled' = RetryDelay \/ cooled' >= age'
  <2>1. cooled' = Saturate(cooled + d, RetryDelay)
    BY <1>11, <1>12, <1>15, ElementNames
  <2>2. cooled = RetryDelay \/ cooled >= age
    BY <1>15 DEF TimeInv
  <2>3. CASE cooled = RetryDelay
    BY <1>1, <2>1, <2>3 DEF Saturate
  <2>4. CASE cooled >= age /\ cooled # RetryDelay
    <3>1. age + d < TimeRange
      BY <1>1, <2>4, Numbers
    <3>2. QED
      BY <1>1, <1>3, <2>1, <2>4, <3>1 DEF Saturate
  <2>5. QED
    BY <2>2, <2>3, <2>4
<1>16. /\ state = Pending("antenna") => cooled' = RetryDelay
       /\ state = Pending("solar") /\ lastBurn = "solar" => cooled' = RetryDelay
  <2>1. CASE state = Pending("antenna")
    BY <1>12, <1>14, <2>1, ElementNames DEF TimeInv
  <2>2. CASE state = Pending("solar") /\ lastBurn = "solar"
    BY <1>12, <1>14, <2>2, ElementNames DEF TimeInv
  <2>3. QED
    BY <2>1, <2>2
<1>17. state' = state /\ wire' = wire /\ lastBurn' = lastBurn
  BY <1>2
<1>18. /\ state' = "WAITING" => sinceSep' = WaitTime \/ sinceSep' = age'
       /\ state' \notin {"INHIBITED", "WAITING"} => sinceSep' = WaitTime
       /\ state' = "WAITING" => cooled' = RetryDelay \/ cooled' >= sinceSep'
  BY <1>6, <1>7, <1>13, <1>17
<1>19. /\ wire' => burnFor' = age' /\ (~due' => age' < BurnTime(lastBurn'))
       /\ burnFor' < BurnTime(lastBurn') + MaxGap
  BY <1>2, <1>9, <1>10, <1>17
<1>20. QED
  BY <1>15, <1>16, <1>17, <1>18, <1>19 DEF TimeInv

LEMMA TimeInvStep ==
  ASSUME NumbersOK, NamesOK, SequenceInv, TimeInv, [Next]_vars
  PROVE  TimeInv'
<1> SUFFICES ASSUME forces' = 0
             PROVE  TimeInv'
  BY DEF TimeInv
<1>0. forces = 0 /\ ~(\E e \in Element : ForceRetry(e))
  BY NoMoreForces
<1>1. CASE AwaitSeparation
  <2>1. /\ state = "INHIBITED" /\ ~wire /\ UNCHANGED <<wire, lastBurn, burnFor, cooled>>
        /\ \/ state' = "WAITING" /\ sinceSep' = 0 /\ age' = 0
           \/ state' = "INHIBITED"
    BY <1>0, <1>1, ElementNames DEF AwaitSeparation, Called, EnterState, SequenceInv
  <2>2. burnFor' < BurnTime(lastBurn') + MaxGap
    BY <1>0, <2>1 DEF TimeInv
  <2>3. cooled' \in Nat
    BY <2>1 DEF NumbersOK
  <2>4. state' = "WAITING" => cooled' >= sinceSep'
    BY <2>1, <2>3
  <2>5. QED
    BY <2>1, <2>2, <2>4, ElementNames DEF TimeInv
<1>2. CASE AwaitTimer
  <2>1. /\ state = "WAITING" /\ UNCHANGED <<wire, lastBurn, burnFor, cooled, sinceSep>>
    BY <1>2 DEF AwaitTimer, Called, history
  <2>2. ~wire
    BY <1>0, <2>1, ElementNames DEF SequenceInv
  <2>3. CASE UNCHANGED <<state, age>>
    BY <1>0, <2>1, <2>2, <2>3, ElementNames DEF TimeInv
  <2>4. CASE WaitOver /\ EnterState(Pending("antenna"))
    <3>1. age >= WaitTime /\ state' = "ANTENNA_PENDING"
      BY <2>4, ElementNames DEF WaitOver, EnterState
    <3>2. sinceSep = WaitTime
      <4>1. sinceSep = WaitTime \/ sinceSep = age
        BY <1>0, <2>1 DEF TimeInv
      <4>2. sinceSep \in 0..WaitTime /\ WaitTime \in Nat
        BY Numbers DEF NumbersOK
      <4>3. QED
        BY <3>1, <4>1, <4>2
    <3>3. cooled = RetryDelay
      <4>1. cooled = RetryDelay \/ cooled >= sinceSep
        BY <1>0, <2>1 DEF TimeInv
      <4>2. cooled \in 0..RetryDelay /\ RetryDelay <= WaitTime
            /\ RetryDelay \in Nat /\ WaitTime \in Nat
        BY Numbers DEF NumbersOK
      <4>3. QED
        BY <3>2, <4>1, <4>2
    <3>4. QED
      BY <1>0, <2>1, <2>2, <3>1, <3>2, <3>3, ElementNames DEF TimeInv
  <2>5. QED
    BY <1>2, <2>3, <2>4 DEF AwaitTimer
<1>3. ASSUME NEW e \in Element, Called(Pending(e)) \/ Called(Verify(e)), Confirm(e)
      PROVE  TimeInv'
  <2>1. /\ ~wire /\ UNCHANGED <<wire, lastBurn, burnFor, cooled, sinceSep>>
        /\ state' = NextAfter(e) /\ age' = 0
    BY <1>0, <1>3, ElementNames DEF Called, Confirm, EnterState, history, SequenceInv
  <2>2. state \in {Pending(e), Verify(e)} /\ sinceSep = WaitTime
    BY <1>0, <1>3, ElementNames DEF Called, TimeInv
  <2>3. e = "antenna" /\ lastBurn = "solar" => cooled = RetryDelay
    BY <1>0, <2>2, ElementNames DEF TimeInv, SequenceInv
  <2>4. CASE e = "antenna"
    BY <1>0, <2>1, <2>2, <2>3, <2>4, ElementNames DEF TimeInv
  <2>5. CASE e = "solar"
    BY <1>0, <2>1, <2>2, <2>5, ElementNames DEF TimeInv
  <2>6. QED
    BY <2>4, <2>5, ElementNames
<1>4. ASSUME NEW e \in Element, Attempt(e)
      PROVE  TimeInv'
  <2>1. state = Pending(e) /\ Called(Pending(e)) /\ sinceSep = WaitTime /\ ~wire
    BY <1>0, <1>4, ElementNames DEF Attempt, Called, TimeInv, SequenceInv
  <2>2. CASE Confirm(e)
    BY <1>3, <2>1, <2>2
  <2>3. CASE StartBurn(e)
    <3>1. /\ state' = Active(e) /\ age' = 0 /\ burnFor' = 0 /\ lastBurn' = e
          /\ sinceSep' = WaitTime
      BY <2>1, <2>3 DEF StartBurn, EnterState
    <3>2. 0 < BurnTime(e) /\ 0 < BurnTime(e) + MaxGap
      BY BurnTimes, Numbers
    <3>3. Active(e) \in {"ANTENNA_ACTIVE", "SOLAR_ACTIVE"}
      BY ElementNames
    <3>4. QED
      BY <3>1, <3>2, <3>3, ElementNames DEF TimeInv
  <2>4. CASE GiveUp(e)
    <3>1. /\ state' = "FAILED" /\ ~wire' /\ UNCHANGED <<lastBurn, burnFor, sinceSep>>
      BY <2>1, <2>4 DEF GiveUp, EnterState, history
    <3>2. QED
      BY <1>0, <2>1, <3>1, ElementNames DEF TimeInv
  <2>5. QED
    BY <1>4, <2>2, <2>3, <2>4 DEF Attempt
<1>5. ASSUME NEW e \in Element, EndBurn(e)
      PROVE  TimeInv'
  <2>1. /\ state = Active(e) /\ state' = Verify(e) /\ ~wire' /\ cooled' = 0 /\ age' = 0
        /\ UNCHANGED <<sinceSep, lastBurn, burnFor>>
    BY <1>5 DEF EndBurn, Called, EnterState
  <2>2. Active(e) \notin {"INHIBITED", "WAITING"}
        /\ Verify(e) \notin {"INHIBITED", "WAITING", Pending("antenna"), Pending("solar")}
    BY ElementNames
  <2>3. burnFor' < BurnTime(lastBurn') + MaxGap /\ sinceSep' = WaitTime
    BY <1>0, <2>1, <2>2 DEF TimeInv
  <2>4. cooled' >= age'
    BY <2>1
  <2>5. QED
    BY <2>1, <2>2, <2>3, <2>4 DEF TimeInv
<1>6. ASSUME NEW e \in Element, Check(e)
      PROVE  TimeInv'
  <2>1. state = Verify(e) /\ Called(Verify(e)) /\ sinceSep = WaitTime /\ ~wire
    BY <1>0, <1>6, ElementNames DEF Check, Called, TimeInv, SequenceInv
  <2>2. CASE Confirm(e)
    BY <1>3, <2>1, <2>2
  <2>3. CASE RetryDue /\ EnterState(Pending(e)) /\ UNCHANGED <<wire, history>>
    <3>1. /\ state' = Pending(e) /\ ~wire'
          /\ UNCHANGED <<sinceSep, lastBurn, burnFor, cooled>>
      BY <2>1, <2>3 DEF EnterState, history
    <3>2. cooled = RetryDelay
      <4>1. cooled = RetryDelay \/ cooled >= age
        BY <1>0, <2>1 DEF TimeInv
      <4>2. age >= RetryDelay
        BY <2>3 DEF RetryDue
      <4>3. cooled \in 0..RetryDelay /\ age \in Nat /\ RetryDelay \in Nat
        BY Numbers DEF NumbersOK
      <4>4. QED
        BY <4>1, <4>2, <4>3
    <3>3. Pending(e) \in {"ANTENNA_PENDING", "SOLAR_PENDING"}
      BY ElementNames
    <3>4. burnFor' < BurnTime(lastBurn') + MaxGap /\ sinceSep' = WaitTime /\ cooled' = RetryDelay
      BY <1>0, <2>1, <3>1, <3>2 DEF TimeInv
    <3>5. QED
      BY <3>1, <3>3, <3>4, ElementNames DEF TimeInv
  <2>4. CASE UNCHANGED <<state, age, wire, history>>
    <3>1. UNCHANGED <<sinceSep, lastBurn, burnFor, cooled>>
      BY <2>4 DEF history
    <3>2. QED
      BY <1>0, <2>1, <2>4, <3>1 DEF TimeInv
  <2>5. QED
    BY <1>6, <2>2, <2>3, <2>4 DEF Check
<1>7. CASE NothingToDo
  <2>1. UNCHANGED <<state, age, wire, sinceSep, lastBurn, burnFor, cooled>>
    BY <1>7 DEF NothingToDo, status, history
  <2>2. wire => age < BurnTime(lastBurn)
    <3>1. SUFFICES ASSUME wire
                   PROVE  age < BurnTime(lastBurn)
      OBVIOUS
    <3>2. PICK e \in Element : state = Active(e)
      BY <1>0, <3>1 DEF SequenceInv
    <3>3. lastBurn = e /\ ~BurnOver(e)
      BY <1>0, <1>7, <3>2, ElementNames DEF SequenceInv, NothingToDo, Called
    <3>4. ~(age >= BurnTime(e)) /\ age \in Nat /\ BurnTime(e) \in Nat
      BY <3>3, BurnTimes DEF BurnOver, NumbersOK
    <3>5. QED
      BY <3>3, <3>4
  <2>3. QED
    BY <1>0, <2>1, <2>2 DEF TimeInv
<1>8. CASE (\E enable \in BOOLEAN : SetEnabled(enable)) \/ UNCHANGED vars
  <2>1. UNCHANGED <<state, age, wire, due, sinceSep, lastBurn, burnFor, cooled>>
    BY <1>8 DEF SetEnabled, vars, status, history
  <2>2. QED
    BY <1>0, <2>1 DEF TimeInv
<1>9. CASE Initialize \/ Reset
  <2>1. state' = "INHIBITED" /\ ~wire' /\ UNCHANGED <<lastBurn, burnFor>>
    BY <1>9 DEF Initialize, Reset, Fresh
  <2>2. QED
    BY <1>0, <2>1, ElementNames DEF TimeInv
<1>10. QED
  BY <1>0, <1>1, <1>2, <1>4, <1>5, <1>6, <1>7, <1>8, <1>9, TickTimes DEF Next, Process

-----------------------------------------------------------------------------
LEMMA InvariantsHold == Spec => [](NumbersOK /\ NamesOK /\ SequenceInv /\ TimeInv)
<1>1. Init => NumbersOK /\ NamesOK
  <2>1. Init => NamesOK
    BY ElementNames, StateNames DEF Init, NamesOK
  <2>2. Init => NumbersOK
    BY Numbers DEF Init, NumbersOK, LongestBurn
  <2>3. QED
    BY <2>1, <2>2
<1>2. Init => SequenceInv
  BY ElementNames DEF Init, SequenceInv
<1>3. Init => TimeInv
  <2>1. 0 < BurnTime("antenna") + MaxGap
    BY BurnTimes, Numbers, ElementNames
  <2>2. QED
    BY <2>1, ElementNames DEF Init, TimeInv
<1>4. NumbersOK /\ NamesOK /\ SequenceInv /\ TimeInv /\ [Next]_vars
        => (NumbersOK /\ NamesOK /\ SequenceInv /\ TimeInv)'
  BY NamesStep, NumbersStep, SequenceInvStep, TimeInvStep
<1>5. QED
  BY <1>1, <1>2, <1>3, <1>4, PTL DEF Spec

(***************************************************************************)
(* No wire is hot before separation and the wait of deployment.c:119, over *)
(* all resets and inhibits, unless a retry was forced.                     *)
(***************************************************************************)
THEOREM NoEarlyBurnHolds == Spec => []NoEarlyBurn
<1>1. ASSUME SequenceInv, TimeInv, forces = 0, wire
      PROVE  separated /\ sinceSep >= WaitTime
  <2>1. PICK e \in Element : state = Active(e)
    BY <1>1 DEF SequenceInv
  <2>2. state \notin {"INHIBITED", "WAITING"}
    BY <2>1, ElementNames
  <2>3. separated /\ sinceSep = WaitTime
    BY <1>1, <2>2 DEF SequenceInv, TimeInv
  <2>4. WaitTime \in Nat
    BY Numbers
  <2>5. sinceSep >= WaitTime
    BY <2>3, <2>4
  <2>6. QED
    BY <2>3, <2>5
<1>2. SequenceInv /\ TimeInv => NoEarlyBurn
  BY <1>1 DEF NoEarlyBurn, WireWaits
<1>3. QED
  BY <1>2, InvariantsHold, PTL

(***************************************************************************)
(* deployment_process ends a burn at its first call after the burn time.   *)
(***************************************************************************)
THEOREM BurnBoundedHolds == Spec => []BurnBounded
<1>1. TimeInv => BurnBounded
  BY DEF TimeInv, BurnBounded, BurnEnds
<1>2. QED
  BY <1>1, InvariantsHold, PTL

(***************************************************************************)
(* COMPLETE is entered only past both elements, each seen deployed.        *)
(***************************************************************************)
THEOREM CompleteMeansDeployedHolds == Spec => []CompleteMeansDeployed
<1>1. SequenceInv => CompleteMeansDeployed
  BY ElementNames DEF SequenceInv, CompleteMeansDeployed
<1>2. QED
  BY <1>1, InvariantsHold, PTL

(***************************************************************************)
(* Two burns of one element are the retry delay apart, also across resets: *)
(* the wait after separation is longer than the delay.                     *)
(***************************************************************************)
THEOREM RetriesBackOffHolds == Spec => RetriesBackOff
<1> DEFINE Apart == forces = 0 /\ ~wire /\ wire' /\ lastBurn' = lastBurn => cooled' >= RetryDelay
<1>1. ASSUME NumbersOK, NamesOK, SequenceInv, TimeInv, [Next]_vars,
             forces = 0, ~wire, wire', lastBurn' = lastBurn
      PROVE  cooled' >= RetryDelay
  <2>1. PICK e \in Element : Attempt(e) /\ StartBurn(e)
    BY <1>1
       DEF Next, Process, AwaitSeparation, AwaitTimer, Attempt, Confirm, GiveUp, EndBurn,
           Check, NothingToDo, Tick, SetEnabled, ForceRetry, Initialize, Reset, Fresh, vars
  <2>2. state = Pending(e) /\ lastBurn = e /\ cooled' = cooled
    BY <1>1, <2>1 DEF Attempt, Called, StartBurn
  <2>3. cooled = RetryDelay
    BY <1>1, <2>2, ElementNames DEF TimeInv
  <2>4. QED
    BY <2>2, <2>3, Numbers
<1>2. NumbersOK /\ NamesOK /\ SequenceInv /\ TimeInv /\ [Next]_vars => [Apart]_vars
  BY <1>1
<1>3. QED
  BY <1>2, InvariantsHold, PTL DEF Spec, RetriesBackOff

-----------------------------------------------------------------------------
LEMMA FailedStep ==
  ASSUME NumbersOK, NamesOK, FailedMeansRetriesUsed, [Next]_vars
  PROVE  FailedMeansRetriesUsed'
<1>1. CASE UNCHANGED <<state, attempts>>
  BY <1>1 DEF FailedMeansRetriesUsed
<1>2. CASE state' # "FAILED"
  BY <1>2 DEF FailedMeansRetriesUsed
<1>3. ASSUME NEW e \in Element, GiveUp(e)
      PROVE  FailedMeansRetriesUsed'
  <2>1. attempts[e] \in 0..MaxRetries /\ ~(attempts[e] < MaxRetries) /\ MaxRetries \in Nat
    BY <1>3, Numbers DEF GiveUp, MayAttempt, NumbersOK
  <2>2. attempts' = attempts
    BY <1>3 DEF GiveUp
  <2>3. QED
    BY <2>1, <2>2 DEF FailedMeansRetriesUsed
<1>4. CASE AwaitSeparation \/ AwaitTimer
  BY <1>1, <1>2, <1>4, ElementNames DEF AwaitSeparation, AwaitTimer, EnterState
<1>5. ASSUME NEW e \in Element, Attempt(e) \/ EndBurn(e) \/ Check(e)
      PROVE  FailedMeansRetriesUsed'
  BY <1>1, <1>2, <1>3, <1>5, ElementNames
     DEF Attempt, EndBurn, Check, Confirm, StartBurn, EnterState
<1>6. CASE NothingToDo \/ (\E d \in 1..MaxGap : Tick(d))
           \/ (\E enable \in BOOLEAN : SetEnabled(enable)) \/ UNCHANGED vars
  BY <1>1, <1>6 DEF NothingToDo, Tick, SetEnabled, vars, status
<1>7. CASE (\E e \in Element : ForceRetry(e)) \/ Initialize \/ Reset
  BY <1>2, <1>7, ElementNames DEF ForceRetry, Initialize, Reset, Fresh, EnterState
<1>8. QED
  BY <1>4, <1>5, <1>6, <1>7 DEF Next, Process

(***************************************************************************)
(* FAILED is entered only on an element that used up its attempts, and no  *)
(* later operation of deployment.c takes them back without leaving FAILED. *)
(***************************************************************************)
THEOREM FailedMeansRetriesUsedHolds == Spec => []FailedMeansRetriesUsed
<1>1. Init => FailedMeansRetriesUsed
  BY DEF Init, FailedMeansRetriesUsed
<1>2. NumbersOK /\ NamesOK /\ FailedMeansRetriesUsed /\ [Next]_vars => FailedMeansRetriesUsed'
  BY FailedStep
<1>3. QED
  BY <1>1, <1>2, InvariantsHold, PTL DEF Spec
=============================================================================
