-------------------------- MODULE LibraryDataProofs --------------------------
(***************************************************************************)
(* Theorems about the data of the library modules: types, the rings that   *)
(* hold logs, and text.  What a loop computes is proved by induction on    *)
(* the number of its steps, from the fact that the order of the naturals   *)
(* is well-founded.                                                        *)
(***************************************************************************)
EXTENDS LibrariesProofs, FiniteSetTheorems, SequenceTheorems, WellFoundedInduction

-----------------------------------------------------------------------------
(* Induction and recursion. *)
(* A set of naturals that is not empty has a least element. *)
LEMMA LeastNumber ==
  ASSUME NEW T \in SUBSET Nat, T # {}
  PROVE  \E x \in T : \A y \in T : x <= y
<1>1. IsWellFoundedOn(OpToRel(<, Nat), Nat)
  BY NatLessThanWellFounded
<1>2. \E x \in T : \A y \in T : ~ (<<y, x>> \in OpToRel(<, Nat))
  BY <1>1, WFMin
<1>3. \A x, y \in Nat : x < y => <<x, y>> \in OpToRel(<, Nat)
  BY DEF OpToRel
<1> HIDE DEF OpToRel
<1>4. PICK x \in T : \A y \in T : ~ (<<y, x>> \in OpToRel(<, Nat))
  BY <1>2
<1>5. \A y \in T : ~(y < x)
  BY <1>3, <1>4
<1>6. QED
  BY <1>5

(* A property, given by the set of the numbers that have it. *)
LEMMA Induction ==
  ASSUME NEW n \in Nat, NEW T, 0 \in T, \A k \in 1..n : k - 1 \in T => k \in T
  PROVE  \A k \in 0..n : k \in T
<1> DEFINE Bad == {k \in 0..n : k \notin T}
<1>1. SUFFICES ASSUME Bad # {}
               PROVE  FALSE
  OBVIOUS
<1>2. Bad \in SUBSET Nat
  OBVIOUS
<1>3. PICK x \in Bad : \A y \in Bad : x <= y
  <2> HIDE DEF Bad
  <2>1. QED
    BY <1>1, <1>2, LeastNumber
<1>4. x \in 1..n /\ x \notin T
  BY <1>3
<1>5. x - 1 \in 0..n /\ x - 1 \notin Bad
  BY <1>3, <1>4
<1>6. QED
  BY <1>4, <1>5

(* A loop of n steps has a sequence of states. *)
IsRun(g, S, c, n, step) ==
  g \in [0..n -> S] /\ g[0] = c /\ \A k \in 1..n : g[k] = step[k][g[k-1]]

LEMMA Recursion ==
  ASSUME NEW S, NEW c \in S, NEW n \in Nat, NEW step \in [1..n -> [S -> S]]
  PROVE  \E g : IsRun(g, S, c, n, step)
<1> DEFINE Good(m) == \E g \in [0..m -> S] : g[0] = c /\ \A k \in 1..m : g[k] = step[k][g[k-1]]
<1>1. Good(0)
  <2> DEFINE g == [k \in 0..0 |-> c]
  <2>1. g \in [0..0 -> S] /\ g[0] = c /\ \A k \in 1..0 : g[k] = step[k][g[k-1]]
    OBVIOUS
  <2>2. QED
    BY <2>1
<1>2. ASSUME NEW m \in 0..(n-1), Good(m)
      PROVE  Good(m + 1)
  <2>1. PICK g \in [0..m -> S] : g[0] = c /\ \A k \in 1..m : g[k] = step[k][g[k-1]]
    BY <1>2
  <2> DEFINE h == [k \in 0..(m+1) |-> IF k <= m THEN g[k] ELSE step[m+1][g[m]]]
  <2>2. step[m+1][g[m]] \in S
    BY <2>1
  <2>3. h \in [0..(m+1) -> S]
    BY <2>1, <2>2
  <2>4. h[0] = c
    BY <2>1
  <2>5. \A k \in 1..(m+1) : h[k] = step[k][h[k-1]]
    <3>1. ASSUME NEW k \in 1..m
          PROVE  h[k] = step[k][h[k-1]]
      <4>1. k \in 0..(m+1) /\ k <= m /\ k - 1 \in 0..(m+1) /\ k - 1 <= m
        OBVIOUS
      <4>2. h[k] = g[k] /\ h[k-1] = g[k-1]
        BY <4>1
      <4>3. g[k] = step[k][g[k-1]]
        BY <2>1
      <4>4. QED
        BY <4>2, <4>3
    <3>2. h[m+1] = step[m+1][h[(m+1)-1]]
      OBVIOUS
    <3>3. \A k \in 1..(m+1) : k \in 1..m \/ k = m + 1
      OBVIOUS
    <3> HIDE DEF h
    <3>4. QED
      BY <3>1, <3>2, <3>3
  <2>6. QED
    BY <2>3, <2>4, <2>5
<1>3. Good(n)
  <2> DEFINE T == {m \in 0..n : Good(m)}
  <2> HIDE DEF Good
  <2>1. 0 \in T
    BY <1>1
  <2>2. ASSUME NEW k \in 1..n, k - 1 \in T
        PROVE  k \in T
    <3>1. k - 1 \in 0..(n-1) /\ Good(k - 1) /\ (k - 1) + 1 = k
      BY <2>2
    <3>2. Good((k - 1) + 1)
      BY <1>2, <3>1
    <3>3. QED
      BY <3>1, <3>2
  <2>3. n \in T
    <3> HIDE DEF T
    <3>1. \A k \in 0..n : k \in T
      BY <2>1, <2>2, Induction
    <3>2. QED
      BY <3>1
  <2>4. QED
    BY <2>3
<1>4. QED
  BY <1>3 DEF IsRun

-----------------------------------------------------------------------------
(* The fault log, as the libraries use it. *)
Logs == {log \in Seq(FaultLogEntry) : Len(log) <= FaultDepth}

LEMMA RoomMadeInLogs ==
  ASSUME NEW log \in Logs, NEW e \in FaultLogEntry
  PROVE  Append(RoomMade(log), e) \in Logs
<1>1. FaultDepth \in Nat \ {0}
  BY FaultLogAssumption
<1>2. log \in Seq(FaultLogEntry) /\ Len(log) \in Nat /\ Len(log) <= FaultDepth
  BY DEF Logs
<1>3. CASE Len(log) >= FaultDepth
  <2>1. Len(log) = FaultDepth /\ log # <<>>
    BY <1>1, <1>2, <1>3
  <2>2. Tail(log) \in Seq(FaultLogEntry) /\ Len(Tail(log)) = Len(log) - 1
    BY <1>2, <2>1
  <2>3. /\ Append(Tail(log), e) \in Seq(FaultLogEntry)
        /\ Len(Append(Tail(log), e)) = (Len(log) - 1) + 1
    BY <2>2
  <2>4. QED
    BY <1>1, <1>3, <2>1, <2>3 DEF Logs, RoomMade
<1>4. CASE ~(Len(log) >= FaultDepth)
  <2>1. Append(log, e) \in Seq(FaultLogEntry) /\ Len(Append(log, e)) = Len(log) + 1
    BY <1>2
  <2>2. QED
    BY <1>1, <1>2, <1>4, <2>1 DEF Logs, RoomMade
<1>5. QED
  BY <1>3, <1>4

(* What a save leaves that falls short. *)
LEMMA PrefixInLogs ==
  ASSUME NEW log \in Logs
  PROVE  Prefixes(log) \subseteq Logs
<1>1. log \in Seq(FaultLogEntry) /\ Len(log) \in Nat /\ Len(log) <= FaultDepth
  BY DEF Logs
<1>2. ASSUME NEW n \in 0..Len(log)
      PROVE  SubSeq(log, 1, n) \in Logs
  <2>1. n \in Nat /\ n <= Len(log) /\ \A i \in 1..n : log[i] \in FaultLogEntry
    BY <1>1
  <2>2. SubSeq(log, 1, n) = [i \in 1..n |-> log[i]]
    BY <1>1, <2>1
  <2>3. SubSeq(log, 1, n) \in Seq(FaultLogEntry) /\ Len(SubSeq(log, 1, n)) = n
    BY <2>1, <2>2
  <2>4. QED
    BY <1>1, <2>1, <2>3, FaultLogAssumption DEF Logs
<1>3. QED
  BY <1>2 DEF Prefixes

(* The loop of LogFaults passes through logs only. *)
LEMMA LogFaultsKeepsType ==
  ASSUME FaultTypeOK, NEW n \in Nat, LogFaults(n)
  PROVE  FaultTypeOK'
<1> DEFINE Entry(k) == [stamp |-> (stamp + k) % FaultStamps, recovered |-> FALSE]
           Body(g) == [k \in 0..n |-> IF k = 0 THEN faults
                                      ELSE Append(RoomMade(g[k - 1]), Entry(k - 1))]
           log == CHOOSE g : g = Body(g)
           step == [k \in 1..n |-> [l \in Logs |-> Append(RoomMade(l), Entry(k - 1))]]
<1>1. FaultStamps \in Nat \ {0} /\ stamp \in Nat
  BY FaultLogAssumption DEF FaultTypeOK, Stamp
<1>2. \A k \in Nat : (stamp + k) % FaultStamps \in Stamp
  BY <1>1 DEF Stamp
<1>3. \A k \in 1..n : Entry(k - 1) \in FaultLogEntry
  BY <1>2 DEF FaultLogEntry
<1>4. faults \in Logs
  BY DEF FaultTypeOK, Logs
<1> HIDE DEF Entry
<1>5. step \in [1..n -> [Logs -> Logs]]
  BY <1>3, RoomMadeInLogs
<1>6. PICK g \in [0..n -> Logs] : g[0] = faults /\ \A k \in 1..n : g[k] = step[k][g[k-1]]
  <2> HIDE DEF step
  <2>1. \E g : IsRun(g, Logs, faults, n, step)
    BY <1>4, <1>5, Recursion
  <2>2. QED
    BY <2>1 DEF IsRun
<1>7. g = Body(g)
  <2>1. \A k \in 1..n : g[k] = Append(RoomMade(g[k - 1]), Entry(k - 1))
    <3>1. \A k \in 1..n : g[k-1] \in Logs
      BY <1>6
    <3>2. QED
      BY <1>6, <3>1
  <2>2. \A k \in 0..n : k # 0 => k \in 1..n
    OBVIOUS
  <2>3. \A k \in 0..n : g[k] = IF k = 0 THEN faults ELSE Append(RoomMade(g[k - 1]), Entry(k - 1))
    BY <1>6, <2>1, <2>2
  <2>4. QED
    BY <1>6, <2>3
<1>8. log = Body(log)
  <2> HIDE DEF Body
  <2>1. QED
    BY <1>7
<1>9. \A k \in 0..n : log[k] \in Logs
  <2> DEFINE T == {k \in 0..n : log[k] \in Logs}
  <2>0. \A k \in 0..n : log[k] = IF k = 0 THEN faults
                                 ELSE Append(RoomMade(log[k - 1]), Entry(k - 1))
    <3> HIDE DEF log
    <3>1. QED
      BY <1>8
  <2> HIDE DEF log
  <2>1. 0 \in T
    BY <1>4, <2>0
  <2>2. ASSUME NEW k \in 1..n, k - 1 \in T
        PROVE  k \in T
    BY <1>3, <2>0, <2>2, RoomMadeInLogs
  <2>3. \A k \in 0..n : k \in T
    <3> HIDE DEF T
    <3>1. QED
      BY <2>1, <2>2, Induction
  <2>4. QED
    BY <2>3
<1>10. /\ faults' = log[n]
       /\ stamp' = (stamp + n) % FaultStamps
       /\ \/ n = 0 /\ UNCHANGED <<faultFile, faultCut>>
          \/ n > 0 /\ faultFile' = log[n] /\ faultCut' = FALSE
          \/ /\ DiskCanFill /\ n > 0 /\ faultCut' = TRUE
             /\ \/ UNCHANGED faultFile
                \/ \E k \in 1..n : faultFile' \in Prefixes(log[k])
       /\ UNCHANGED faultWriting
  BY DEF LogFaults, Entry
<1> HIDE DEF log
<1>11. faultFile' \in Logs /\ faultCut' \in BOOLEAN
  <2>1. \A k \in 1..n : Prefixes(log[k]) \subseteq Logs
    <3>1. \A k \in 1..n : log[k] \in Logs
      BY <1>9, n \in Nat
    <3>2. QED
      BY <3>1, PrefixInLogs
  <2>2. faultFile \in Logs /\ faultCut \in BOOLEAN
    BY DEF FaultTypeOK, Logs
  <2>3. log[n] \in Logs
    BY <1>9, n \in Nat
  <2>4. QED
    BY <1>10, <2>1, <2>2, <2>3
<1>12. QED
  <2>1. log[n] \in Logs /\ stamp' \in Stamp
    BY <1>2, <1>9, <1>10, n \in Nat
  <2>2. QED
    BY <1>10, <1>11, <2>1 DEF FaultTypeOK, Logs

(* No more tasks can begin to stall than there are tasks. *)
LEMMA StallingCount == Cardinality(Stalling) \in Nat
<1>1. Stalling \in SUBSET WdTask
  BY DEF Stalling
<1>2. IsFiniteSet(Stalling)
  BY <1>1, WatchdogAssumption, FS_Subset
<1>3. QED
  BY <1>2, FS_CardinalityType

-----------------------------------------------------------------------------
(* The watchdog manager. *)
LEMMA WatchdogConstants ==
  /\ WdMaxPeriod \in WdPeriods /\ WdMaxAge \in Nat /\ CheckInterval <= WdMaxAge
  /\ MissThreshold \in Nat \ {0} /\ HwTimeout \in Nat \ {0} /\ StallRange \in Nat \ {0}
<1>1. WdMaxPeriod \in WdPeriods
  BY WatchdogAssumption DEF WdMaxPeriod
<1>2. WdMaxPeriod \in Nat /\ CheckInterval \in Nat /\ MissThreshold \in Nat \ {0}
  BY <1>1, WatchdogAssumption
<1>3. CheckInterval * MissThreshold \in Nat
  BY <1>2
<1>4. WdMaxAge \in Nat
  BY <1>2, <1>3 DEF WdMaxAge
<1>5. QED
  BY <1>1, <1>4, WatchdogAssumption

LEMMA WatchdogValues ==
  /\ Cleared \in WdtTaskEntry
  /\ \A n \in Nat : \A a \in 0..n : Older(a, n) \in 0..n
  /\ 0 \in 0..WdMaxAge /\ WdMaxAge \in 0..WdMaxAge
  /\ 0 \in 0..(StallRange - 1) /\ 0 \in 0..HwTimeout /\ 0 \in 0..MissThreshold
<1>1. 0 \in 0..WdMaxAge /\ WdMaxAge \in 0..WdMaxAge /\ 0 \in 0..MissThreshold
  BY WatchdogConstants
<1>2. Cleared \in WdtTaskEntry
  BY <1>1, WatchdogConstants DEF Cleared, WdtTaskEntry
<1>3. \A n \in Nat : \A a \in 0..n : Older(a, n) \in 0..n
  BY DEF Older
<1>4. 0 \in 0..(StallRange - 1) /\ 0 \in 0..HwTimeout
  BY WatchdogConstants
<1>5. QED
  BY <1>1, <1>2, <1>3, <1>4

LEMMA CheckedType ==
  ASSUME WdTypeOK, NEW t \in WdTask
  PROVE  Checked(t) \in WdtTaskEntry
<1>1. wdEntry[t] \in WdtTaskEntry /\ MissThreshold \in Nat \ {0}
  BY WatchdogConstants DEF WdTypeOK
<1>2. wdEntry[t].misses \in 0..MissThreshold /\ 0 \in 0..MissThreshold
  BY <1>1 DEF WdtTaskEntry
<1>3. (IF wdEntry[t].misses < MissThreshold THEN wdEntry[t].misses + 1 ELSE MissThreshold)
        \in 0..MissThreshold
  BY <1>1, <1>2
<1> DEFINE misses == IF wdEntry[t].misses < MissThreshold THEN wdEntry[t].misses + 1
                     ELSE MissThreshold
<1>4. \/ Checked(t) = wdEntry[t]
      \/ Checked(t) = [wdEntry[t] EXCEPT !.misses = 0, !.stalled = FALSE]
      \/ Checked(t) = [wdEntry[t] EXCEPT !.misses = misses,
                                         !.stalled = (@ \/ misses = MissThreshold)]
  BY DEF Checked
<1>5. misses \in 0..MissThreshold
  BY <1>3
<1> HIDE DEF misses
<1>6. (wdEntry[t].stalled \/ misses = MissThreshold) \in BOOLEAN
  BY <1>1 DEF WdtTaskEntry
<1>7. QED
  BY <1>1, <1>2, <1>4, <1>5, <1>6 DEF WdtTaskEntry

LEMMA WdTypeStep ==
  ASSUME WdTypeOK, FaultTypeOK, WdNext
  PROVE  WdTypeOK' /\ FaultTypeOK'
<1> USE DEF WdTypeOK
<1>1. ASSUME UNCHANGED faultVars
      PROVE  FaultTypeOK'
  BY <1>1 DEF faultVars, FaultTypeOK
<1>2. CASE WdInitialize
  BY <1>1, <1>2, WatchdogValues DEF WdInitialize, HwInit
<1>3. CASE WdStart
  BY <1>1, <1>3, WatchdogValues DEF WdStart, HwStart
<1>4. CASE Kick
  <2>1. hwWdt' \in [ready : BOOLEAN, running : BOOLEAN, age : 0..HwTimeout] /\ wdReady' \in BOOLEAN
    BY <1>4, WatchdogValues DEF Kick, HwKick
  <2>2. CASE CheckTasks
    <3>1. Cardinality(Stalling) \in Nat
      BY StallingCount
    <3>2. FaultTypeOK'
      BY <2>2, <3>1, LogFaultsKeepsType DEF CheckTasks
    <3>3. wdEntry' \in [WdTask -> WdtTaskEntry]
      BY <2>2, CheckedType DEF CheckTasks
    <3>4. wdStalls' \in 0..(StallRange - 1)
      <4>1. wdStalls + Cardinality(Stalling) \in Nat /\ StallRange \in Nat \ {0}
        BY <3>1, WatchdogConstants
      <4>2. (wdStalls + Cardinality(Stalling)) % StallRange \in 0..(StallRange - 1)
        BY <4>1
      <4>3. QED
        BY <2>2, <4>2 DEF CheckTasks
    <3>5. wdCheckAge' \in 0..WdMaxAge
      BY <2>2, WatchdogValues DEF CheckTasks
    <3>6. QED
      BY <2>1, <3>2, <3>3, <3>4, <3>5
  <2>3. CASE UNCHANGED <<wdEntry, wdCheckAge, wdStalls, faultVars>>
    BY <1>1, <2>1, <2>3
  <2>4. QED
    BY <1>4, <2>2, <2>3 DEF Kick
<1>5. ASSUME NEW t \in WdTask, NEW p \in WdPeriods, RegisterTask(t, p)
      PROVE  WdTypeOK' /\ FaultTypeOK'
  BY <1>1, <1>5, WatchdogValues DEF RegisterTask, WdtTaskEntry
<1>6. ASSUME NEW t \in WdTask, UnregisterTask(t)
      PROVE  WdTypeOK' /\ FaultTypeOK'
  BY <1>1, <1>6 DEF UnregisterTask, WdtTaskEntry
<1>7. ASSUME NEW t \in WdTask, CheckIn(t)
      PROVE  WdTypeOK' /\ FaultTypeOK'
  BY <1>1, <1>7, WatchdogValues DEF CheckIn, WdtTaskEntry
<1>8. CASE ImminentReset
  <2>1. FaultTypeOK'
    BY <1>8, LogFaultsKeepsType DEF ImminentReset
  <2>2. QED
    BY <1>8, <2>1, WatchdogValues DEF ImminentReset
<1>9. CASE WdTick
  <2>1. \A t \in WdTask : [wdEntry[t] EXCEPT !.age = Older(@, WdMaxAge)] \in WdtTaskEntry
    <3>1. \A a \in 0..WdMaxAge : Older(a, WdMaxAge) \in 0..WdMaxAge
      BY WatchdogConstants, WatchdogValues
    <3>2. QED
      BY <3>1 DEF WdtTaskEntry
  <2>2. Older(wdCheckAge, WdMaxAge) \in 0..WdMaxAge
    BY WatchdogConstants, WatchdogValues
  <2>3. [hwWdt EXCEPT !.age = IF hwWdt.running THEN Older(@, HwTimeout) ELSE @]
          \in [ready : BOOLEAN, running : BOOLEAN, age : 0..HwTimeout]
    BY WatchdogConstants, WatchdogValues
  <2>4. QED
    BY <1>1, <1>9, <2>1, <2>2, <2>3 DEF WdTick
<1>10. QED
  BY <1>2, <1>3, <1>4, <1>5, <1>6, <1>7, <1>8, <1>9 DEF WdNext

-----------------------------------------------------------------------------
(* Attitude control. *)
LEMMA AdTypeStep ==
  ASSUME AdTypeOK, FaultTypeOK, AdNext
  PROVE  AdTypeOK' /\ FaultTypeOK'
<1>0. SettlingTime \in Nat \ {0} /\ DetumbleTimeout \in Nat \ {0}
  BY AdcsAssumption
<1>1. ASSUME UNCHANGED faultVars
      PROVE  FaultTypeOK'
  BY <1>1 DEF faultVars, FaultTypeOK
<1>2. 0 \in 0..(SettlingTime + 1) /\ 0 \in 0..(DetumbleTimeout + 1)
  BY <1>0
<1>3. \A n \in Nat : \A a \in 0..(n + 1) : Aged(a, n + 1) \in 0..(n + 1)
  BY DEF Aged
<1> USE DEF AdTypeOK, AdcsMode
<1>4. CASE AdcsInitialize
  BY <1>1, <1>4 DEF AdcsInitialize, AdcsReset
<1>5. ASSUME NEW mode \in AdcsMode, AdcsSetMode(mode)
      PROVE  AdTypeOK' /\ FaultTypeOK'
  BY <1>1, <1>2, <1>5 DEF AdcsSetMode
<1>6. ASSUME NEW rate \in Estimate, NEW sun \in BOOLEAN, AdcsUpdate(rate, sun)
      PROVE  AdTypeOK' /\ FaultTypeOK'
  <2>1. /\ adPrevious' \in BOOLEAN /\ adSlow' \in BOOLEAN /\ adFast' \in 0..(SettlingTime + 1)
        /\ adReady' \in BOOLEAN /\ adDetumble' \in 0..(DetumbleTimeout + 1)
    BY <1>2, <1>6 DEF AdcsUpdate, EstimateRate
  <2>2. adMtq' \in {"off", "zero", "control"}
    BY <1>6 DEF AdcsUpdate, ApplyDipole, ComputeSunpoint
  <2>3. CASE DetumbleTimedOut
    <3>1. FaultTypeOK'
      BY <2>3, LogFaultsKeepsType DEF DetumbleTimedOut
    <3>2. QED
      BY <2>1, <2>2, <2>3, <3>1 DEF DetumbleTimedOut
  <2>4. CASE Settle
    BY <1>1, <1>2, <2>1, <2>2, <2>4 DEF Settle
  <2>5. CASE Tumble
    BY <1>1, <2>1, <2>2, <2>5 DEF Tumble
  <2>6. CASE FollowSun(sun)
    BY <1>1, <2>1, <2>2, <2>6 DEF FollowSun
  <2>7. QED
    BY <1>6, <2>3, <2>4, <2>5, <2>6 DEF AdcsUpdate
<1>7. CASE AdcsTick
  <2>1. adSettling' \in {NotSettling} \union 0..(SettlingTime + 1)
    BY <1>0, <1>3, <1>7 DEF AdcsTick
  <2>2. adDetumble' \in 0..(DetumbleTimeout + 1) /\ adFast' \in 0..(SettlingTime + 1)
    BY <1>0, <1>3, <1>7 DEF AdcsTick
  <2>3. QED
    BY <1>1, <1>7, <2>1, <2>2 DEF AdcsTick
<1>8. QED
  BY <1>4, <1>5, <1>6, <1>7 DEF AdNext

-----------------------------------------------------------------------------
(* Rings.  The entries of a ring of n slots, from the slot first on.       *)
Entries(buffer, n, first, count) == [i \in 1..count |-> buffer[(first + i - 1) % n]]

LEMMA Remainders ==
  ASSUME NEW n \in Nat \ {0}
  PROVE  /\ \A x \in 0..(2*n - 1) : x % n = IF x < n THEN x ELSE x - n
         /\ \A x \in Int : x % n \in 0..(n - 1)
<1>1. \A x \in 0..n-1 : x % n = x
  OBVIOUS
<1>2. \A x \in 0..n-1 : (x + n) % n = x
  OBVIOUS
<1>3. ASSUME NEW x \in 0..(2*n - 1), ~(x < n)
      PROVE  x % n = x - n
  <2>1. x - n \in 0..n-1 /\ (x - n) + n = x
    BY <1>3
  <2>2. QED
    BY <1>2, <2>1
<1>4. \A x \in 0..(2*n - 1) : x < n => x \in 0..n-1
  OBVIOUS
<1>5. \A x \in Int : x % n \in 0..(n - 1)
  OBVIOUS
<1>6. QED
  BY <1>1, <1>3, <1>4, <1>5

(* Sequences as functions. *)
LEMMA AppendIs ==
  ASSUME NEW S, NEW s \in Seq(S), NEW e \in S
  PROVE  Append(s, e) = [i \in 1..(Len(s) + 1) |-> IF i = Len(s) + 1 THEN e ELSE s[i]]
<1> DEFINE a == Append(s, e)
<1>1. a \in Seq(S) /\ Len(a) = Len(s) + 1 /\ a[Len(s) + 1] = e
      /\ \A i \in 1..Len(s) : a[i] = s[i]
  BY AppendProperties
<1>2. \A i \in 1..(Len(s) + 1) : i = Len(s) + 1 \/ (i \in 1..Len(s) /\ i # Len(s) + 1)
  BY LenProperties
<1> HIDE DEF a
<1>3. \A i \in 1..(Len(s) + 1) : a[i] = IF i = Len(s) + 1 THEN e ELSE s[i]
  BY <1>1, <1>2
<1>4. a \in [1..(Len(s) + 1) -> S]
  BY <1>1, LenProperties
<1>5. a = [i \in 1..(Len(s) + 1) |-> a[i]]
  BY <1>4
<1>6. QED
  BY <1>3, <1>5 DEF a

LEMMA TailIs ==
  ASSUME NEW S, NEW s \in Seq(S), Len(s) # 0
  PROVE  Tail(s) = [i \in 1..(Len(s) - 1) |-> s[i + 1]]
<1> DEFINE t == Tail(s)
<1>1. s # <<>>
  BY EmptySeq
<1>2. t \in Seq(S) /\ Len(t) = Len(s) - 1 /\ \A i \in 1..Len(t) : t[i] = s[i + 1]
  BY <1>1, HeadTailProperties
<1> HIDE DEF t
<1>3. t \in [1..(Len(s) - 1) -> S]
  BY <1>2, LenProperties
<1>4. t = [i \in 1..(Len(s) - 1) |-> t[i]]
  BY <1>3
<1>5. QED
  BY <1>2, <1>4 DEF t

(* Adding at the write index adds at the end, and drops the oldest entry   *)
(* of a full ring; before the indices advance the rest is as it was.       *)
RingBefore(S, n, buffer, e, first, count, write, new) ==
  /\ n \in Nat \ {0} /\ e \in S /\ first \in 0..(n-1) /\ count \in 0..n
  /\ write = (first + count) % n
  /\ buffer \in [0..(n-1) -> S] /\ new \in [0..(n-1) -> S]
  /\ new[write] = e
  /\ \A i \in 0..(n-1) : i # write => new[i] = buffer[i]

RingAfter(S, n, buffer, e, first, count, write, new) ==
  LET old == Entries(buffer, n, first, count)
  IN  /\ write \in 0..(n-1)
      /\ old \in Seq(S) /\ Len(old) = count
      /\ count < n =>
           /\ Entries(new, n, first, count + 1) = Append(old, e)
           /\ Entries(new, n, first, count) = old
      /\ count = n =>
           /\ write = first
           /\ Entries(new, n, (first + 1) % n, count) = Append(Tail(old), e)
           /\ Tail(Entries(new, n, first, count)) = Tail(old)

LEMMA RingAdd ==
  ASSUME NEW S, NEW n, NEW buffer, NEW e, NEW first, NEW count, NEW write, NEW new,
         RingBefore(S, n, buffer, e, first, count, write, new)
  PROVE  RingAfter(S, n, buffer, e, first, count, write, new)
<1> SUFFICES ASSUME n \in Nat \ {0}, e \in S, NEW slots, slots = 0..(n-1),
                    first \in slots, count \in 0..n, write = (first + count) % n,
                    buffer \in [slots -> S], new \in [slots -> S], new[write] = e,
                    \A i \in slots : i # write => new[i] = buffer[i]
             PROVE  RingAfter(S, n, buffer, e, first, count, write, new)
  BY DEF RingBefore
<1> DEFINE old == Entries(buffer, n, first, count)
           slot(i) == IF first + i < n THEN first + i ELSE first + i - n
           rem(x) == x % n
<1>0. \A x \in 0..(2*n - 1) : rem(x) = IF x < n THEN x ELSE x - n
  BY Remainders
<1>1. \A i \in 0..n : (first + i) % n = slot(i)
  <2>1. \A i \in 0..n : first + i \in 0..(2*n - 1)
    OBVIOUS
  <2> HIDE DEF rem
  <2>2. \A i \in 0..n : rem(first + i) = slot(i)
    BY <1>0, <2>1
  <2>3. QED
    BY <2>2 DEF rem
<1>2. write = slot(count) /\ write \in slots
  BY <1>1
<1>3. \A i \in slots : slot(i) \in slots
  OBVIOUS
<1>4. \A i, j \in slots : slot(i) = slot(j) => i = j
  OBVIOUS
<1>5. \A b : \A c \in 0..n : Entries(b, n, first, c) = [i \in 1..c |-> b[slot(i - 1)]]
  <2>1. \A c \in 0..n : \A i \in 1..c : i - 1 \in 0..n /\ first + i - 1 = first + (i - 1)
    OBVIOUS
  <2>2. \A c \in 0..n : \A i \in 1..c : (first + i - 1) % n = slot(i - 1)
    BY <1>1, <2>1
  <2>3. QED
    BY <2>2 DEF Entries
<1>6. old = [i \in 1..count |-> buffer[slot(i - 1)]]
  BY <1>5
<1>7. \A i \in 1..count : i - 1 \in slots /\ slot(i - 1) \in slots
  OBVIOUS
<1>8. old \in Seq(S) /\ Len(old) = count /\ DOMAIN old = 1..count
  BY <1>6, <1>7
<1>9. new \in [slots -> S] /\ new[write] = e
      /\ \A i \in slots : i # write => new[i] = buffer[i]
  OBVIOUS
<1> HIDE DEF old
<1>10. ASSUME count < n
       PROVE  /\ Entries(new, n, first, count + 1) = Append(old, e)
              /\ Entries(new, n, first, count) = old
  <2>1. \A i \in 1..count : slot(i - 1) # write
    BY <1>2, <1>10
  <2>2. \A i \in 1..count : new[slot(i - 1)] = buffer[slot(i - 1)]
    <3> HIDE DEF slot
    <3>1. QED
      BY <1>7, <1>9, <2>1
  <2>3. Entries(new, n, first, count) = old
    <3> HIDE DEF slot, rem
    <3>1. Entries(new, n, first, count) = [i \in 1..count |-> new[slot(i - 1)]]
      BY <1>5
    <3>2. QED
      BY <1>6, <2>2, <3>1
  <2>4. Entries(new, n, first, count + 1) = Append(old, e)
    <3>1. count + 1 \in 0..n /\ (count + 1) - 1 = count
      BY <1>10
    <3>2. Entries(new, n, first, count + 1) = [i \in 1..(count + 1) |-> new[slot(i - 1)]]
      BY <1>5, <3>1
    <3> HIDE DEF slot
    <3>3. \A i \in 1..(count + 1) : new[slot(i - 1)] = IF i <= count THEN old[i] ELSE e
      <4>1. \A i \in 1..(count + 1) : i \in 1..count \/ i = count + 1
        OBVIOUS
      <4>2. \A i \in 1..count : old[i] = new[slot(i - 1)] /\ i <= count
        BY <1>6, <2>2
      <4>3. new[slot((count + 1) - 1)] = e /\ ~(count + 1 <= count)
        BY <1>2, <1>9, <3>1
      <4>4. QED
        BY <4>1, <4>2, <4>3
    <3>4. Append(old, e) = [i \in 1..(count + 1) |-> IF i <= count THEN old[i] ELSE e]
      <4>1. \A i \in 1..(count + 1) : i <= count <=> i # count + 1
        OBVIOUS
      <4>2. Append(old, e) = [i \in 1..(Len(old) + 1) |-> IF i = Len(old) + 1 THEN e ELSE old[i]]
        BY <1>8, AppendIs
      <4>3. QED
        BY <1>8, <4>1, <4>2
    <3>5. QED
      BY <3>2, <3>3, <3>4
  <2>5. QED
    BY <2>3, <2>4
<1>11. ASSUME count = n
       PROVE  /\ write = first
              /\ Entries(new, n, (first + 1) % n, count) = Append(Tail(old), e)
              /\ Tail(Entries(new, n, first, count)) = Tail(old)
  <2>1. write = first
    BY <1>2, <1>11
  <2>2. Tail(old) = [i \in 1..(n - 1) |-> buffer[slot(i)]]
    <3>1. Tail(old) = [i \in 1..(Len(old) - 1) |-> old[i + 1]]
      <4> HIDE DEF slot, rem
      <4>1. Len(old) # 0 /\ old \in Seq(S)
        BY <1>8, <1>11
      <4>2. QED
        BY <4>1, TailIs
    <3>2. \A i \in 1..(n - 1) : i + 1 \in 1..n /\ (i + 1) - 1 = i
      OBVIOUS
    <3> HIDE DEF slot
    <3>3. \A i \in 1..(n - 1) : old[i + 1] = buffer[slot(i)]
      BY <1>6, <1>11, <3>2
    <3>4. QED
      BY <1>8, <1>11, <3>1, <3>3
  <2>3. \A i \in 1..(n - 1) : i \in slots /\ slot(i) \in slots /\ slot(i) # write
    BY <2>1
  <2>4. \A i \in 1..(n - 1) : new[slot(i)] = buffer[slot(i)]
    <3> HIDE DEF slot
    <3>1. QED
      BY <1>9, <2>3
  <2>5. Tail(Entries(new, n, first, count)) = Tail(old)
    <3> DEFINE q == Entries(new, n, first, count)
    <3>1. q = [i \in 1..n |-> new[slot(i - 1)]]
      BY <1>5, <1>11
    <3>2. q \in Seq(S) /\ Len(q) = n
      <4>1. \A i \in 1..n : slot(i - 1) \in slots
        OBVIOUS
      <4> HIDE DEF slot, q
      <4>2. QED
        BY <1>9, <3>1, <4>1
    <3> HIDE DEF slot, q
    <3>3. Tail(q) = [i \in 1..(n - 1) |-> q[i + 1]]
      <4>1. Len(q) # 0 /\ Len(q) = n
        BY <3>2
      <4>2. QED
        BY <3>2, <4>1, TailIs
    <3>4. \A i \in 1..(n - 1) : i + 1 \in 1..n /\ (i + 1) - 1 = i
      OBVIOUS
    <3>5. \A i \in 1..(n - 1) : q[i + 1] = buffer[slot(i)]
      BY <2>4, <3>1, <3>4
    <3>6. QED
      BY <2>2, <3>3, <3>5 DEF q
  <2>6. Entries(new, n, (first + 1) % n, count) = Append(Tail(old), e)
    <3>1. \A i \in 1..n : (((first + 1) % n) + i - 1) % n = slot(i)
      <4> HIDE DEF rem
      <4>1. rem(first + 1) = IF first + 1 < n THEN first + 1 ELSE 0
        BY <1>0
      <4>2. \A i \in 1..n : rem(rem(first + 1) + i - 1) = slot(i)
        BY <1>0, <4>1
      <4>3. QED
        BY <4>2 DEF rem
    <3>2. Entries(new, n, (first + 1) % n, count) = [i \in 1..n |-> new[slot(i)]]
      <4> HIDE DEF slot
      <4>1. QED
        BY <1>11, <3>1 DEF Entries
    <3>3. new[slot(n)] = e
      BY <1>2, <1>9, <1>11
    <3>4. Tail(old) \in Seq(S) /\ Len(Tail(old)) = n - 1
      BY <1>8, <1>11
    <3> DEFINE t == Tail(old)
    <3> HIDE DEF slot, t
    <3>5. Append(t, e) = [i \in 1..n |-> IF i = n THEN e ELSE t[i]]
      <4>1. t \in Seq(S) /\ Len(t) = n - 1
        BY <3>4 DEF t
      <4>2. Append(t, e) = [i \in 1..(Len(t) + 1) |-> IF i = Len(t) + 1 THEN e ELSE t[i]]
        BY <4>1, AppendIs
      <4>3. Len(t) + 1 = n
        BY <4>1
      <4>4. QED
        BY <4>2, <4>3
    <3>6. \A i \in 1..n : i # n => i \in 1..(n-1)
      OBVIOUS
    <3>7. \A i \in 1..n : new[slot(i)] = IF i = n THEN e ELSE t[i]
      BY <2>2, <2>4, <3>3, <3>6 DEF t
    <3>8. QED
      BY <3>2, <3>5, <3>7 DEF t
  <2>7. QED
    BY <2>1, <2>5, <2>6
<1>12. QED
  BY <1>2, <1>8, <1>10, <1>11 DEF old, RingAfter

-----------------------------------------------------------------------------
(* The flight log. *)
LEMMA LogConstants ==
  /\ LogSize \in Nat \ {0} /\ SequenceRange \in Nat \ {0} /\ MaxCalls \in Nat
  /\ 0 \in FlSlot /\ 0 \in FlSequences
  /\ \A n \in Nat : (n + 1) % SequenceRange \in FlSequences
  /\ \A n \in Int : n % LogSize \in FlSlot
<1>1. LogSize \in Nat \ {0} /\ SequenceRange \in Nat \ {0} /\ MaxCalls \in Nat
  BY FlightLogAssumption
<1>2. \A n \in Int : n % LogSize \in 0..(LogSize - 1)
  BY <1>1, Remainders
<1>3. \A n \in Int : n % SequenceRange \in 0..(SequenceRange - 1)
  BY <1>1, Remainders
<1>4. \A n \in Nat : n + 1 \in Int
  OBVIOUS
<1>5. QED
  BY <1>1, <1>2, <1>3, <1>4 DEF FlSlot, FlSequences

(* Moving both indices of a full ring, or one of another, keeps them apart *)
(* by the number of the entries.                                           *)
LEMMA IndicesAgree ==
  ASSUME NEW n \in Nat \ {0}, NEW r \in 0..(n-1), NEW c \in 0..n,
         NEW w, w = (r + c) % n
  PROVE  /\ w \in 0..(n-1)
         /\ c < n => c + 1 \in 0..n /\ (w + 1) % n = (r + (c + 1)) % n
         /\ c = n => /\ (r + 1) % n \in 0..(n-1)
                     /\ (w + 1) % n = (((r + 1) % n) + c) % n
<1> DEFINE rem(x) == x % n
<1>1. \A x \in 0..(2*n - 1) : rem(x) = IF x < n THEN x ELSE x - n
  BY Remainders
<1>2. w = rem(r + c) /\ r + c \in 0..(2*n - 1)
  OBVIOUS
<1> HIDE DEF rem
<1>3. w = IF r + c < n THEN r + c ELSE r + c - n
  BY <1>1, <1>2
<1>4. w \in 0..(n-1)
  BY <1>3
<1>5. rem(w + 1) = IF w + 1 < n THEN w + 1 ELSE w + 1 - n
  BY <1>1, <1>4
<1>6. ASSUME c < n
      PROVE  c + 1 \in 0..n /\ rem(w + 1) = rem(r + (c + 1))
  <2>1. rem(r + (c + 1)) = IF r + c + 1 < n THEN r + c + 1 ELSE r + c + 1 - n
    BY <1>1, <1>6
  <2>2. QED
    BY <1>3, <1>5, <1>6, <2>1
<1>7. ASSUME c = n
      PROVE  rem(r + 1) \in 0..(n-1) /\ rem(w + 1) = rem(rem(r + 1) + c)
  <2>1. rem(r + 1) = IF r + 1 < n THEN r + 1 ELSE 0
    BY <1>1
  <2>2. rem(r + 1) \in 0..(n-1)
    BY <2>1
  <2>3. rem(rem(r + 1) + c) = rem(r + 1)
    BY <1>1, <1>7, <2>2
  <2>4. w = r
    BY <1>3, <1>7
  <2>5. QED
    BY <2>2, <2>3, <2>4
<1>8. QED
  BY <1>4, <1>6, <1>7 DEF rem

LEMMA AdvanceType ==
  ASSUME FlTypeOK, Advance
  PROVE  /\ flWrite' \in FlSlot /\ flRead' \in FlSlot /\ flCount' \in 0..LogSize
         /\ flWrite' = (flRead' + flCount') % LogSize
<1>1. LogSize \in Nat \ {0} /\ flRead \in 0..(LogSize-1) /\ flCount \in 0..LogSize
      /\ flWrite = (flRead + flCount) % LogSize
  BY LogConstants DEF FlTypeOK, FlSlot
<1>2. \/ flCount < LogSize \/ flCount = LogSize
  BY <1>1
<1>3. flWrite \in 0..(LogSize-1) /\ flWrite + 1 \in Int
  BY <1>1 DEF FlTypeOK, FlSlot
<1>4. flWrite' \in FlSlot
  BY <1>3, LogConstants DEF Advance
<1> DEFINE rem(x) == x % LogSize
<1>5. /\ flCount < LogSize => flCount + 1 \in 0..LogSize
                              /\ rem(flWrite + 1) = rem(flRead + (flCount + 1))
      /\ flCount = LogSize => /\ rem(flRead + 1) \in 0..(LogSize-1)
                              /\ rem(flWrite + 1) = rem(rem(flRead + 1) + flCount)
  BY <1>1, IndicesAgree
<1>6. /\ flWrite' = rem(flWrite + 1)
      /\ flCount' = IF flCount < LogSize THEN flCount + 1 ELSE flCount
      /\ flRead' = IF flCount < LogSize THEN flRead ELSE rem(flRead + 1)
  BY DEF Advance
<1> HIDE DEF rem
<1>7. flRead' \in FlSlot /\ flCount' \in 0..LogSize /\ flWrite' = rem(flRead' + flCount')
  BY <1>1, <1>2, <1>5, <1>6 DEF FlSlot
<1>8. QED
  BY <1>4, <1>7 DEF rem

Calls == {c \in Seq(-1..(LogSize - 1)) : Len(c) <= MaxCalls}

LEMMA CallsTypes ==
  ASSUME FlTypeOK
  PROVE  /\ flCalls \in Calls
         /\ \A call \in -1..(LogSize - 1) : Deeper(call) => flCalls' \in Calls
         /\ InCallback => /\ Outer \in Calls
                          /\ Innermost \in -1..(LogSize - 1)
                          /\ Len(Outer) = Len(flCalls) - 1
                          /\ \A i \in 1..(Len(flCalls) - 1) : Outer[i] = flCalls[i]
                          /\ \A call \in -1..(LogSize - 1) : Append(Outer, call) \in Calls
<1> DEFINE C == -1..(LogSize - 1)
<1>1. flCalls \in Seq(C) /\ Len(flCalls) \in Nat /\ Len(flCalls) <= MaxCalls /\ MaxCalls \in Nat
  BY LogConstants DEF FlTypeOK
<1> HIDE DEF C
<1>2. ASSUME NEW call \in C, Deeper(call)
      PROVE  flCalls' \in Seq(C) /\ Len(flCalls') <= MaxCalls
  BY <1>1, <1>2 DEF Deeper
<1>3. ASSUME InCallback
      PROVE  /\ Outer \in Seq(C) /\ Len(Outer) = Len(flCalls) - 1 /\ Innermost \in C
             /\ \A i \in 1..(Len(flCalls) - 1) : Outer[i] = flCalls[i]
             /\ \A call \in C : Append(Outer, call) \in Seq(C)
                                /\ Len(Append(Outer, call)) = Len(flCalls)
  <2>1. Len(flCalls) \in Nat \ {0}
    BY <1>1, <1>3 DEF InCallback
  <2>2. \A i \in 1..(Len(flCalls) - 1) : flCalls[i] \in C
    BY <1>1, <2>1
  <2>3. /\ Outer \in Seq(C) /\ Len(Outer) = Len(flCalls) - 1
        /\ \A i \in 1..(Len(flCalls) - 1) : Outer[i] = flCalls[i]
    <3>1. /\ Outer \in Seq(C)
          /\ Len(Outer) = IF 1 <= Len(flCalls) - 1 THEN (Len(flCalls) - 1) - 1 + 1 ELSE 0
          /\ \A i \in 1..((Len(flCalls) - 1) - 1 + 1) : Outer[i] = flCalls[1 + i - 1]
      BY <2>1, <2>2, SubSeqProperties DEF Outer
    <3>2. \A i \in 1..(Len(flCalls) - 1) : 1 + i - 1 = i
      OBVIOUS
    <3>3. (Len(flCalls) - 1) - 1 + 1 = Len(flCalls) - 1
      BY <2>1
    <3>4. Len(Outer) = Len(flCalls) - 1
      <4>1. CASE Len(flCalls) = 1
        BY <3>1, <4>1
      <4>2. CASE Len(flCalls) # 1
        <5>1. \A n \in Nat \ {0} : n # 1 => 1 <= n - 1
          OBVIOUS
        <5>2. Len(flCalls) \in Nat \ {0}
          BY <2>1
        <5>3. 1 <= Len(flCalls) - 1
          BY <4>2, <5>1, <5>2, Zenon
        <5>4. Len(Outer) = (Len(flCalls) - 1) - 1 + 1
          BY <3>1, <5>3, Zenon
        <5>5. QED
          BY <3>3, <5>4, Zenon
      <4>3. QED
        BY <4>1, <4>2
    <3>5. \A i \in 1..(Len(flCalls) - 1) : Outer[i] = flCalls[i]
      BY <3>1, <3>2, <3>3
    <3>6. QED
      BY <3>1, <3>4, <3>5
  <2>4. Innermost \in C
    BY <1>1, <2>1 DEF Innermost
  <2>5. \A call \in C : Append(Outer, call) \in Seq(C)
                        /\ Len(Append(Outer, call)) = (Len(flCalls) - 1) + 1
    BY <2>3
  <2>6. QED
    BY <2>1, <2>3, <2>4, <2>5
<1>4. QED
  BY <1>1, <1>2, <1>3 DEF Calls, C

LEMMA FlTypeStep ==
  ASSUME FlTypeOK, FlNext
  PROVE  FlTypeOK'
<1>0. /\ flCalls \in Calls => flCalls \in Seq(-1..(LogSize - 1)) /\ Len(flCalls) <= MaxCalls
      /\ flCalls' \in Calls => flCalls' \in Seq(-1..(LogSize - 1)) /\ Len(flCalls') <= MaxCalls
      /\ -1 \in -1..(LogSize - 1) /\ 0 \in -1..(LogSize - 1)
  BY LogConstants DEF Calls
<1>1. 0 % LogSize = 0 /\ 0 + 0 = 0 /\ 0 \in 0..LogSize
  BY LogConstants
<1>2. CASE FlInitialize
  BY <1>1, <1>2, LogConstants DEF FlInitialize, FlTypeOK
<1>3. CASE RegisterCallback
  BY <1>3 DEF RegisterCallback, FlTypeOK, flIndices
<1>4. ASSUME NEW l \in LogLevel, FlSetLevel(l)
      PROVE  FlTypeOK'
  BY <1>4 DEF FlSetLevel, FlTypeOK, flIndices
<1>5. ASSUME NEW l \in LogLevel, FlWrite(l)
      PROVE  FlTypeOK'
  <2>1. /\ flBuffer' \in [FlSlot -> FlSequences] /\ flSequence' \in FlSequences
        /\ flLevel' \in LogLevel /\ {flCallback', flReentered'} \subseteq BOOLEAN
    <3>1. flSequence \in Nat
      BY LogConstants DEF FlTypeOK, FlSequences
    <3>2. (flSequence + 1) % SequenceRange \in FlSequences
      BY <3>1, LogConstants
    <3>3. QED
      BY <1>5, <3>2 DEF FlWrite, FlTypeOK, InCallback
  <2>2. CASE flCallback
    <3>1. flCalls' \in Calls
      BY <1>0, <1>5, <2>2, CallsTypes DEF FlWrite
    <3>2. UNCHANGED flIndices
      BY <1>5, <2>2 DEF FlWrite
    <3>3. QED
      BY <1>0, <2>1, <3>1, <3>2 DEF FlTypeOK, flIndices
  <2>3. CASE ~flCallback
    <3>1. Advance /\ UNCHANGED flCalls
      BY <1>5, <2>3 DEF FlWrite
    <3>2. QED
      BY <2>1, <3>1, AdvanceType DEF FlTypeOK
  <2>4. QED
    BY <2>2, <2>3
<1>6. CASE FlClear
  BY <1>1, <1>6, LogConstants DEF FlClear, FlTypeOK, InCallback
<1>7. CASE Flush
  <2>1. flCalls' \in Calls
    BY <1>0, <1>7, CallsTypes DEF Flush
  <2>2. QED
    BY <1>0, <1>7, <2>1 DEF Flush, FlTypeOK, flIndices
<1>8. CASE CallbackReturns
  <2>1. /\ flBuffer' = flBuffer /\ flSequence' = flSequence /\ flLevel' = flLevel
        /\ flCallback' = flCallback /\ flReentered' = flReentered
    BY <1>8 DEF CallbackReturns
  <2>2. CASE Innermost = -1
    <3>1. Advance /\ flCalls' \in Calls
      BY <1>8, <2>2, CallsTypes DEF CallbackReturns
    <3>2. QED
      BY <1>0, <2>1, <3>1, AdvanceType DEF FlTypeOK
  <2>3. CASE Innermost # -1
    <3>1. UNCHANGED flIndices
      BY <1>8, <2>3 DEF CallbackReturns
    <3>2. flCalls' \in Calls
      <4>1. InCallback /\ Innermost \in -1..(LogSize - 1) /\ Outer \in Calls
        BY <1>8, CallsTypes DEF CallbackReturns
      <4>2. Innermost + 1 < flCount => Innermost + 1 \in -1..(LogSize - 1)
        BY <4>1, LogConstants DEF FlTypeOK
      <4>3. \A call \in -1..(LogSize - 1) : Append(Outer, call) \in Calls
        BY <4>1, CallsTypes
      <4>4. flCalls' = IF Innermost + 1 < flCount THEN Append(Outer, Innermost + 1) ELSE Outer
        BY <1>8, <2>3 DEF CallbackReturns
      <4>5. QED
        BY <4>1, <4>2, <4>3, <4>4
    <3>3. QED
      BY <1>0, <2>1, <3>1, <3>2 DEF FlTypeOK, flIndices
  <2>4. QED
    BY <2>2, <2>3
<1>9. QED
  BY <1>2, <1>3, <1>4, <1>5, <1>6, <1>7, <1>8 DEF FlNext

(* As long as no callback has logged or cleared, a record can be shown     *)
(* only by the outermost call.                                             *)
ShownFirst == ~flReentered => \A i \in DOMAIN flCalls : flCalls[i] = -1 => i = 1

FlInv == FlTypeOK /\ ShownFirst

(* What the log keeps of its entries, for the abstract log. *)
FlKept == IF flReentered THEN <<>>
          ELSE IF FlShown
          THEN Append(IF flCount = LogSize THEN Tail(FlEntries) ELSE FlEntries,
                      flBuffer[flWrite])
          ELSE FlEntries

LEMMA CallsAppended ==
  ASSUME NEW c \in Calls, NEW call \in -1..(LogSize - 1)
  PROVE  /\ Len(Append(c, call)) = Len(c) + 1
         /\ DOMAIN Append(c, call) = 1..(Len(c) + 1)
         /\ DOMAIN c = 1..Len(c) /\ Len(c) \in Nat
         /\ \A i \in 1..Len(c) : Append(c, call)[i] = c[i]
         /\ Append(c, call)[Len(c) + 1] = call
<1>1. c \in Seq(-1..(LogSize - 1))
  BY DEF Calls
<1> DEFINE C == -1..(LogSize - 1)
<1> HIDE DEF C
<1>2. c \in Seq(C) /\ call \in C
  BY <1>1 DEF C
<1>3. QED
  BY <1>2

LEMMA ShownFirstStep ==
  ASSUME FlInv, FlNext
  PROVE  ShownFirst'
<1>0. SUFFICES ASSUME ~flReentered', NEW i \in DOMAIN flCalls', flCalls'[i] = -1
               PROVE  i = 1
  BY DEF ShownFirst
<1>1. CASE flCalls' = flCalls /\ ~flReentered
  BY <1>0, <1>1 DEF FlInv, ShownFirst
<1>2. ASSUME NEW l \in LogLevel, FlWrite(l)
      PROVE  i = 1
  <2>1. ~flReentered /\ flCalls = <<>>
    BY <1>0, <1>2 DEF FlWrite, InCallback
  <2>2. flCalls' = flCalls \/ flCalls' = Append(flCalls, -1)
    BY <1>2 DEF FlWrite, Deeper
  <2>3. CASE flCalls' = Append(flCalls, -1)
    <3>1. DOMAIN flCalls' = 1..1
      BY <2>1, <2>3
    <3>2. QED
      BY <1>0, <3>1
  <2>4. QED
    BY <1>1, <2>1, <2>2, <2>3
<1>3. CASE Flush
  <2>1. flCalls' = Append(flCalls, 0) /\ ~flReentered /\ 0 \in -1..(LogSize - 1)
    BY <1>0, <1>3, LogConstants DEF Flush, Deeper
  <2>2. flCalls \in Calls
    BY CallsTypes DEF FlInv
  <2>3. i \in 1..Len(flCalls) \/ i = Len(flCalls) + 1
    BY <1>0, <2>1, <2>2, CallsAppended
  <2>4. i \in 1..Len(flCalls)
    BY <1>0, <2>1, <2>2, <2>3, CallsAppended
  <2>5. QED
    BY <1>0, <2>1, <2>2, <2>4, CallsAppended DEF FlInv, ShownFirst
<1>4. CASE CallbackReturns
  <2>1. /\ ~flReentered /\ InCallback /\ Innermost \in -1..(LogSize - 1) /\ Outer \in Calls
        /\ Len(Outer) = Len(flCalls) - 1 /\ Len(flCalls) \in Nat
        /\ DOMAIN flCalls = 1..Len(flCalls) /\ DOMAIN Outer = 1..Len(Outer)
        /\ \A j \in 1..(Len(flCalls) - 1) : Outer[j] = flCalls[j]
    BY <1>0, <1>4, CallsTypes DEF FlInv, CallbackReturns, Calls
  <2>2. \A j \in 1..(Len(flCalls) - 1) : j \in DOMAIN flCalls
    BY <2>1
  <2>3. i \in 1..Len(Outer) => flCalls[i] = Outer[i] /\ i \in DOMAIN flCalls
    BY <2>1, <2>2
  <2>4. CASE flCalls' = Outer
    BY <1>0, <2>1, <2>3, <2>4 DEF FlInv, ShownFirst
  <2>5. CASE Innermost # -1 /\ Innermost + 1 < flCount /\ flCalls' = Append(Outer, Innermost + 1)
    <3>1. Innermost + 1 \in -1..(LogSize - 1) /\ Innermost + 1 # -1
      BY <2>1, <2>5, LogConstants DEF FlInv, FlTypeOK
    <3>2. i \in 1..Len(Outer) \/ i = Len(Outer) + 1
      BY <1>0, <2>1, <2>5, <3>1, CallsAppended
    <3>3. i \in 1..Len(Outer) /\ flCalls'[i] = Outer[i]
      BY <1>0, <2>1, <2>5, <3>1, <3>2, CallsAppended
    <3>4. QED
      BY <1>0, <2>1, <2>3, <3>3 DEF FlInv, ShownFirst
  <2>6. QED
    BY <1>4, <2>4, <2>5 DEF CallbackReturns
<1>5. CASE FlInitialize \/ RegisterCallback \/ FlClear
  BY <1>0, <1>1, <1>5 DEF FlInitialize, RegisterCallback, FlClear
<1>6. ASSUME NEW l \in LogLevel, FlSetLevel(l)
      PROVE  i = 1
  BY <1>0, <1>1, <1>6 DEF FlSetLevel
<1>7. QED
  BY <1>2, <1>3, <1>4, <1>5, <1>6 DEF FlNext

(* The ring of the flight log, as RingAdd sees it. *)
LEMMA FlEntriesAre ==
  /\ FlEntries = Entries(flBuffer, LogSize, flRead, flCount)
  /\ flCount = 0 => FlEntries = <<>>
  /\ FlEntries' = Entries(flBuffer', LogSize, flRead', flCount')
  /\ flCount' = 0 => FlEntries' = <<>>
  BY DEF FlEntries, Entries

LEMMA FlRingAdd ==
  ASSUME FlTypeOK, NEW e \in FlSequences
  PROVE  LET new == [flBuffer EXCEPT ![flWrite] = e]
         IN  /\ FlEntries \in Seq(FlSequences) /\ Len(FlEntries) = flCount
             /\ new[flWrite] = e
             /\ flCount < LogSize =>
                  /\ Entries(new, LogSize, flRead, flCount + 1) = Append(FlEntries, e)
                  /\ Entries(new, LogSize, flRead, flCount) = FlEntries
             /\ flCount = LogSize =>
                  /\ Entries(new, LogSize, (flRead + 1) % LogSize, flCount)
                       = Append(Tail(FlEntries), e)
                  /\ Tail(Entries(new, LogSize, flRead, flCount)) = Tail(FlEntries)
             /\ FlBounded!Added(FlEntries, e) =
                  Append(IF flCount = LogSize THEN Tail(FlEntries) ELSE FlEntries, e)
<1>1. /\ LogSize \in Nat \ {0} /\ FlSlot = 0..(LogSize-1)
      /\ flBuffer \in [FlSlot -> FlSequences]
      /\ flRead \in FlSlot /\ flCount \in 0..LogSize
      /\ flWrite = (flRead + flCount) % LogSize
  BY LogConstants DEF FlTypeOK, FlSlot
<1> DEFINE new == [flBuffer EXCEPT ![flWrite] = e]
           old == Entries(flBuffer, LogSize, flRead, flCount)
<1>2. /\ new \in [FlSlot -> FlSequences] /\ new[flWrite] = e
      /\ \A i \in FlSlot : i # flWrite => new[i] = flBuffer[i]
  <2>1. flWrite \in FlSlot
    BY DEF FlTypeOK
  <2>2. QED
    BY <1>1, <2>1
<1> HIDE DEF new
<1>7. /\ old \in Seq(FlSequences) /\ Len(old) = flCount
      /\ flCount < LogSize =>
           /\ Entries(new, LogSize, flRead, flCount + 1) = Append(old, e)
           /\ Entries(new, LogSize, flRead, flCount) = old
      /\ flCount = LogSize =>
           /\ Entries(new, LogSize, (flRead + 1) % LogSize, flCount) = Append(Tail(old), e)
           /\ Tail(Entries(new, LogSize, flRead, flCount)) = Tail(old)
  <2>1. RingBefore(FlSequences, LogSize, flBuffer, e, flRead, flCount, flWrite, new)
    BY <1>1, <1>2 DEF RingBefore
  <2>2. RingAfter(FlSequences, LogSize, flBuffer, e, flRead, flCount, flWrite, new)
    BY <2>1, RingAdd
  <2>3. QED
    BY <2>2 DEF RingAfter
<1>3. old = FlEntries
  BY FlEntriesAre
<1> HIDE DEF old
<1>4. flCount < LogSize <=> ~(flCount = LogSize)
  BY <1>1
<1>5. FlBounded!Added(FlEntries, e) =
        Append(IF flCount = LogSize THEN Tail(FlEntries) ELSE FlEntries, e)
  BY <1>7, <1>3, <1>4 DEF FlBounded!Added
<1>6. QED
  BY <1>2, <1>3, <1>5, <1>7 DEF new

(* The record of the write index joins the entries when the indices        *)
(* advance.                                                                *)
LEMMA FlAdvanced ==
  ASSUME FlTypeOK, Advance, NEW e \in FlSequences,
         flBuffer' = [flBuffer EXCEPT ![flWrite] = e]
  PROVE  FlEntries' = Append(IF flCount = LogSize THEN Tail(FlEntries) ELSE FlEntries, e)
<1> DEFINE new == [flBuffer EXCEPT ![flWrite] = e]
<1>1. flCount < LogSize \/ flCount = LogSize
  BY LogConstants DEF FlTypeOK
<1>2. flCount < LogSize => flCount # LogSize
  BY LogConstants DEF FlTypeOK
<1>3. FlEntries' = Entries(new, LogSize, flRead', flCount')
  BY FlEntriesAre
<1>4. /\ flCount < LogSize => flCount' = flCount + 1 /\ flRead' = flRead
      /\ ~(flCount < LogSize) => flCount' = flCount /\ flRead' = (flRead + 1) % LogSize
  BY DEF Advance
<1>5. /\ flCount < LogSize =>
           Entries(new, LogSize, flRead, flCount + 1) = Append(FlEntries, e)
      /\ flCount = LogSize =>
           Entries(new, LogSize, (flRead + 1) % LogSize, flCount) = Append(Tail(FlEntries), e)
  BY FlRingAdd
<1> HIDE DEF new
<1>6. flCount = LogSize => ~(flCount < LogSize)
  BY LogConstants DEF FlTypeOK
<1>7. QED
  BY <1>1, <1>2, <1>3, <1>4, <1>5, <1>6

(* Calls come and go above a record that is shown. *)
LEMMA ShownBelow ==
  ASSUME FlTypeOK, Flush \/ (CallbackReturns /\ Innermost # -1)
  PROVE  FlShown' = FlShown
<1>1. flCalls \in Calls /\ 0 \in -1..(LogSize - 1)
  BY CallsTypes, LogConstants
<1>2. CASE Flush
  <2>1. flCalls' = Append(flCalls, 0)
    BY <1>2 DEF Flush, Deeper
  <2>2. /\ DOMAIN flCalls' = 1..(Len(flCalls) + 1) /\ DOMAIN flCalls = 1..Len(flCalls)
        /\ flCalls'[Len(flCalls) + 1] = 0 /\ Len(flCalls) \in Nat
        /\ \A i \in 1..Len(flCalls) : flCalls'[i] = flCalls[i]
    BY <1>1, <2>1, CallsAppended
  <2>3. \A i \in 1..(Len(flCalls) + 1) : i \in 1..Len(flCalls) \/ i = Len(flCalls) + 1
    BY <2>2
  <2>4. \A i \in 1..Len(flCalls) : i \in 1..(Len(flCalls) + 1)
    BY <2>2
  <2>5. (\E i \in DOMAIN flCalls' : flCalls'[i] = -1) <=> (\E i \in DOMAIN flCalls : flCalls[i] = -1)
    BY <2>2, <2>3, <2>4
  <2>6. (\E i \in DOMAIN flCalls : flCalls[i] = -1) => flCalls # <<>>
    OBVIOUS
  <2>7. (\E i \in DOMAIN flCalls' : flCalls'[i] = -1) => flCalls' # <<>>
    OBVIOUS
  <2>8. QED
    BY <2>5, <2>6, <2>7 DEF FlShown, InCallback
<1>3. CASE CallbackReturns /\ Innermost # -1
  <2>1. /\ InCallback /\ Innermost \in -1..(LogSize - 1) /\ Outer \in Calls
        /\ Len(Outer) = Len(flCalls) - 1 /\ Len(flCalls) \in Nat
        /\ DOMAIN flCalls = 1..Len(flCalls) /\ DOMAIN Outer = 1..Len(Outer)
        /\ \A j \in 1..(Len(flCalls) - 1) : Outer[j] = flCalls[j]
    BY <1>3, CallsTypes DEF CallbackReturns, Calls
  <2>2. Innermost = flCalls[Len(flCalls)]
    BY DEF Innermost
  <2> DEFINE below == \E i \in 1..(Len(flCalls) - 1) : flCalls[i] = -1
  <2>3. (\E i \in DOMAIN flCalls : flCalls[i] = -1) <=> below
    <3>1. \A i \in 1..Len(flCalls) : i \in 1..(Len(flCalls) - 1) \/ i = Len(flCalls)
      BY <2>1
    <3>2. \A i \in 1..(Len(flCalls) - 1) : i \in 1..Len(flCalls)
      BY <2>1
    <3>3. QED
      BY <1>3, <2>1, <2>2, <3>1, <3>2
  <2> HIDE DEF below
  <2>4. CASE flCalls' = Outer
    BY <2>1, <2>3, <2>4, SMTT(30) DEF below, FlShown, InCallback
  <2>5. CASE Innermost + 1 < flCount /\ flCalls' = Append(Outer, Innermost + 1)
    <3>1. Innermost + 1 \in -1..(LogSize - 1) /\ Innermost + 1 # -1
      BY <1>3, <2>1, <2>5, LogConstants DEF FlTypeOK
    <3>2. /\ DOMAIN flCalls' = 1..(Len(Outer) + 1)
          /\ flCalls'[Len(Outer) + 1] # -1
          /\ \A i \in 1..Len(Outer) : flCalls'[i] = Outer[i]
      BY <2>1, <2>5, <3>1, CallsAppended
    <3>3. \A i \in 1..(Len(Outer) + 1) : i \in 1..Len(Outer) \/ i = Len(Outer) + 1
      BY <2>1
    <3>4. \A i \in 1..Len(Outer) : i \in 1..(Len(Outer) + 1)
      BY <2>1
    <3>5. (\E i \in DOMAIN flCalls' : flCalls'[i] = -1) <=> below
      BY <2>1, <3>2, <3>3, <3>4 DEF below
    <3>6. QED
      BY <2>3, <3>5 DEF FlShown, InCallback
  <2>6. QED
    BY <1>3, <2>4, <2>5 DEF CallbackReturns
<1>4. QED
  BY <1>2, <1>3

(* When the callback returns to log_vwrite, the log has what it showed.    *)
LEMMA ShownReturns ==
  ASSUME FlInv, CallbackReturns, Innermost = -1
  PROVE  FlKept' = FlKept
<1> USE DEF FlInv
<1>1. flReentered' = flReentered /\ flBuffer' = flBuffer /\ Advance /\ flCalls' = Outer
  BY DEF CallbackReturns
<1>2. CASE flReentered
  BY <1>1, <1>2 DEF FlKept
<1>3. CASE ~flReentered
  <2>1. /\ InCallback /\ Outer \in Calls /\ Len(flCalls) \in Nat
        /\ Len(Outer) = Len(flCalls) - 1 /\ DOMAIN flCalls = 1..Len(flCalls)
    BY CallsTypes DEF CallbackReturns, Calls
  <2>2. Len(flCalls) = 1
    <3>1. Len(flCalls) \in DOMAIN flCalls
      BY <2>1 DEF Calls, InCallback
    <3>2. QED
      BY <1>3, <3>1 DEF ShownFirst, Innermost
  <2>3. FlShown /\ ~FlShown'
    <3>1. Outer = <<>>
      BY <2>1, <2>2 DEF Calls
    <3>2. FlShown
      BY <2>1, <2>2 DEF FlShown, Innermost
    <3>3. QED
      BY <1>1, <3>1, <3>2 DEF FlShown, InCallback
  <2>4. flBuffer[flWrite] \in FlSequences /\ flBuffer' = [flBuffer EXCEPT ![flWrite] = flBuffer[flWrite]]
    BY <1>1 DEF FlTypeOK
  <2>5. FlEntries' = Append(IF flCount = LogSize THEN Tail(FlEntries) ELSE FlEntries,
                            flBuffer[flWrite])
    BY <1>1, <2>4, FlAdvanced
  <2>6. QED
    BY <1>1, <1>3, <2>3, <2>5 DEF FlKept
<1>4. QED
  BY <1>2, <1>3

(* Every step of the flight log is one of the abstract log. *)
LEMMA FlightLogRefines ==
  ASSUME FlInv, FlNext
  PROVE  \/ \E e \in FlSequences : FlKept' = FlBounded!Added(FlKept, e)
         \/ FlKept' = <<>>
         \/ FlKept' = FlKept
<1> USE DEF FlInv
<1>1. CASE flReentered'
  BY <1>1 DEF FlKept
<1>2. CASE flCount' = 0 /\ flCalls' = <<>>
  BY <1>2, FlEntriesAre DEF FlKept, FlShown, InCallback
<1>3. ASSUME FlShown' = FlShown, flReentered' = flReentered,
             UNCHANGED <<flBuffer, flIndices>>
      PROVE  FlKept' = FlKept
  BY <1>3, FlEntriesAre DEF FlKept, flIndices
<1>4. ASSUME UNCHANGED flCalls
      PROVE  FlShown' = FlShown
  BY <1>4 DEF FlShown, InCallback
<1>5. CASE FlInitialize
  BY <1>2, <1>5 DEF FlInitialize, InCallback
<1>6. CASE FlClear
  BY <1>1, <1>2, <1>6 DEF FlClear, InCallback
<1>7. CASE RegisterCallback
  BY <1>1, <1>3, <1>4, <1>7 DEF RegisterCallback
<1>8. ASSUME NEW l \in LogLevel, FlSetLevel(l)
      PROVE  flReentered' \/ FlKept' = FlKept
  BY <1>3, <1>4, <1>8 DEF FlSetLevel
<1>9. ASSUME NEW l \in LogLevel, FlWrite(l)
      PROVE  \/ \E e \in FlSequences : FlKept' = FlBounded!Added(FlKept, e)
             \/ FlKept' = <<>>
  <2>1. CASE InCallback
    BY <1>9, <2>1 DEF FlWrite, FlKept
  <2>2. CASE ~InCallback /\ ~flReentered
    <3>1. /\ flSequence \in FlSequences /\ flCount \in 0..LogSize /\ LogSize \in Nat \ {0}
          /\ FlKept = FlEntries /\ ~flReentered'
      BY <1>9, <2>2, LogConstants DEF FlTypeOK, FlKept, FlShown, FlWrite
    <3> DEFINE e == flSequence
               new == [flBuffer EXCEPT ![flWrite] = e]
    <3>2. flBuffer' = new
      BY <1>9 DEF FlWrite
    <3> HIDE DEF new
    <3>3. CASE flCallback
      <4>1. /\ flCalls' = Append(flCalls, -1) /\ flCalls = <<>>
            /\ flWrite' = flWrite /\ flRead' = flRead /\ flCount' = flCount
        BY <1>9, <2>2, <3>3 DEF FlWrite, Deeper, InCallback, flIndices
      <4>2. FlShown'
        <5>1. flCalls' = <<-1>>
          BY <4>1
        <5>2. QED
          BY <5>1 DEF FlShown, InCallback
      <4>3. FlKept' = Append(IF flCount = LogSize THEN Tail(FlEntries') ELSE FlEntries', new[flWrite])
        BY <3>1, <3>2, <4>1, <4>2 DEF FlKept
      <4>4. FlEntries' = Entries(new, LogSize, flRead, flCount)
        BY <3>2, <4>1, FlEntriesAre
      <4>5. FlKept' = Append(IF flCount = LogSize THEN Tail(FlEntries) ELSE FlEntries, e)
        <5>1. flCount < LogSize \/ flCount = LogSize
          BY <3>1
        <5>2. /\ new[flWrite] = e
              /\ flCount < LogSize => FlEntries' = FlEntries
              /\ flCount = LogSize => Tail(FlEntries') = Tail(FlEntries)
          BY <3>1, <4>4, FlRingAdd DEF new
        <5>3. flCount < LogSize => flCount # LogSize
          BY <3>1
        <5>4. QED
          BY <4>3, <5>1, <5>2, <5>3
      <4>6. QED
        BY <3>1, <4>5, FlRingAdd
    <3>4. CASE ~flCallback
      <4>1. Advance /\ flCalls' = <<>>
        BY <1>9, <2>2, <3>4 DEF FlWrite, InCallback
      <4>2. FlKept' = FlEntries'
        BY <3>1, <4>1 DEF FlKept, FlShown, InCallback
      <4>3. FlEntries' = Append(IF flCount = LogSize THEN Tail(FlEntries) ELSE FlEntries, e)
        BY <3>1, <3>2, <4>1, FlAdvanced DEF new
      <4>4. QED
        BY <3>1, <4>2, <4>3, FlRingAdd
    <3>5. QED
      BY <3>3, <3>4
  <2>3. CASE flReentered
    BY <1>9, <2>3 DEF FlWrite, FlKept
  <2>4. QED
    BY <2>1, <2>2, <2>3
<1>10. CASE Flush
  <2>1. FlShown' = FlShown
    BY <1>10, ShownBelow DEF Flush
  <2>2. QED
    BY <1>3, <1>10, <2>1 DEF Flush
<1>11. CASE CallbackReturns
  <2>1. CASE Innermost = -1
    BY <1>11, <2>1, ShownReturns
  <2>2. CASE Innermost # -1
    BY <1>3, <1>11, <2>2, ShownBelow DEF CallbackReturns
  <2>3. QED
    BY <2>1, <2>2
<1>12. QED
  BY <1>1, <1>5, <1>6, <1>7, <1>8, <1>9, <1>10, <1>11 DEF FlNext, FlKept

-----------------------------------------------------------------------------
(* The assertion handler.  The slots below the count hold different        *)
(* places; until the ring is full the next slot is the one after them.     *)
Oldest == IF asCount >= FailureLog THEN asIndex ELSE 0

AsInv ==
  /\ asLog \in [AsSlot -> Site \union {Nowhere}]
  /\ asIndex \in AsSlot
  /\ asCount \in 0..FailureLog
  /\ asCritical \in BOOLEAN
  /\ asTriggers \in 0..(CountRange - 1)
  /\ asCount < FailureLog => asIndex = asCount
  /\ \A s \in AsSlot : s < asCount => asLog[s] \in Site
  /\ \A s, t \in AsSlot : s < asCount /\ t < asCount /\ asLog[s] = asLog[t] => s = t

LEMMA AsConstants ==
  /\ FailureLog \in Nat \ {0} /\ CountRange \in Nat \ {0} /\ 0 \in AsSlot
  /\ AsSlot = 0..(FailureLog - 1)
  /\ \A x \in 0..(2*FailureLog - 1) :
       x % FailureLog = IF x < FailureLog THEN x ELSE x - FailureLog
  /\ \A n \in Nat : (n + 1) % CountRange \in 0..(CountRange - 1)
<1>1. FailureLog \in Nat \ {0} /\ CountRange \in Nat \ {0}
  BY AssertAssumption
<1>2. \A x \in Int : x % CountRange \in 0..(CountRange - 1)
  BY <1>1, Remainders
<1>3. \A n \in Nat : n + 1 \in Int
  OBVIOUS
<1>4. \A x \in 0..(2*FailureLog - 1) :
        x % FailureLog = IF x < FailureLog THEN x ELSE x - FailureLog
  BY <1>1, Remainders
<1>5. QED
  BY <1>1, <1>2, <1>3, <1>4 DEF AsSlot

(* GetLog reads different slots below the count. *)
LEMMA GetLogSlots ==
  ASSUME AsInv
  PROVE  /\ GetLog = Entries(asLog, FailureLog, Oldest, asCount)
         /\ Oldest \in AsSlot
         /\ asIndex = (Oldest + asCount) % FailureLog
         /\ \A i, j \in DOMAIN GetLog : GetLog[i] = GetLog[j] => i = j
<1> DEFINE rem(x) == x % FailureLog
<1>1. \A x \in 0..(2*FailureLog - 1) : rem(x) = IF x < FailureLog THEN x ELSE x - FailureLog
  BY AsConstants
<1>2. /\ FailureLog \in Nat \ {0} /\ asIndex \in 0..(FailureLog - 1) /\ asCount \in 0..FailureLog
      /\ asCount < FailureLog => asIndex = asCount
  BY AsConstants DEF AsInv
<1>3. GetLog = [i \in 1..asCount |-> asLog[rem(Oldest + i - 1)]]
  BY DEF GetLog, Oldest
<1> HIDE DEF rem
<1>4. asIndex = rem(Oldest + asCount) /\ Oldest \in 0..(FailureLog - 1)
  BY <1>1, <1>2 DEF Oldest
<1>5. \A i \in 1..asCount : rem(Oldest + i - 1) \in 0..(FailureLog - 1)
                            /\ rem(Oldest + i - 1) < asCount
  BY <1>1, <1>2 DEF Oldest
<1>6. \A i, j \in 1..asCount : rem(Oldest + i - 1) = rem(Oldest + j - 1) => i = j
  BY <1>1, <1>2 DEF Oldest
<1>7. \A i, j \in 1..asCount : asLog[rem(Oldest + i - 1)] = asLog[rem(Oldest + j - 1)] => i = j
  BY <1>5, <1>6, AsConstants DEF AsInv
<1>8. \A i, j \in DOMAIN GetLog : GetLog[i] = GetLog[j] => i = j
  BY <1>3, <1>7
<1>9. QED
  BY <1>3, <1>4, <1>8, AsConstants DEF Entries, rem

LEMMA LogFailureInv ==
  ASSUME AsInv, NEW site \in Site, LogFailure(site),
         asCritical' \in BOOLEAN, asTriggers' \in 0..(CountRange - 1)
  PROVE  AsInv'
<1>1. CASE Known(site)
  BY <1>1 DEF LogFailure, AsInv
<1>2. CASE ~Known(site)
  <2>1. /\ FailureLog \in Nat \ {0} /\ AsSlot = 0..(FailureLog - 1)
        /\ asIndex \in 0..(FailureLog - 1) /\ asCount \in 0..FailureLog
        /\ asCount < FailureLog => asIndex = asCount
    BY AsConstants DEF AsInv
  <2> DEFINE rem(x) == x % FailureLog
  <2>2. /\ asLog' = [asLog EXCEPT ![asIndex] = site]
        /\ asIndex' = rem(asIndex + 1)
        /\ asCount' = IF asCount < FailureLog THEN asCount + 1 ELSE asCount
    BY <1>2 DEF LogFailure
  <2>3. \A x \in 0..(2*FailureLog - 1) : rem(x) = IF x < FailureLog THEN x ELSE x - FailureLog
    BY AsConstants
  <2> HIDE DEF rem
  <2>4. asIndex' = IF asIndex + 1 < FailureLog THEN asIndex + 1 ELSE 0
    BY <2>1, <2>2, <2>3
  <2>5. asIndex' \in AsSlot /\ asCount' \in 0..FailureLog
        /\ (asCount' < FailureLog => asIndex' = asCount')
    BY <2>1, <2>2, <2>4
  <2>6. /\ asLog' \in [AsSlot -> Site \union {Nowhere}]
        /\ asLog'[asIndex] = site
        /\ \A s \in AsSlot : s # asIndex => asLog'[s] = asLog[s]
    BY <2>1, <2>2 DEF AsInv
  <2>7. \A s \in AsSlot : s < asCount' /\ s # asIndex => s < asCount
    BY <2>1, <2>2
  <2>8. \A s \in AsSlot : s < asCount => asLog[s] # site
    BY <1>2 DEF Known
  <2>9. \A s \in AsSlot : s < asCount' => asLog'[s] \in Site
    BY <2>6, <2>7 DEF AsInv
  <2>10. \A s, t \in AsSlot : s < asCount' /\ t < asCount' /\ asLog'[s] = asLog'[t] => s = t
    BY <2>6, <2>7, <2>8 DEF AsInv
  <2>11. QED
    BY <2>5, <2>6, <2>9, <2>10 DEF AsInv
<1>3. QED
  BY <1>1, <1>2

LEMMA AsInvStep ==
  ASSUME AsInv, FaultTypeOK, AsNext
  PROVE  AsInv' /\ FaultTypeOK'
<1>1. ASSUME UNCHANGED faultVars
      PROVE  FaultTypeOK'
  BY <1>1 DEF faultVars, FaultTypeOK
<1>2. ASSUME EmptyFailureLog, asCritical' \in BOOLEAN, asTriggers' \in 0..(CountRange - 1)
      PROVE  AsInv'
  <2>1. \A s \in AsSlot : ~(s < 0)
    BY AsConstants
  <2>2. 0 \in 0..FailureLog /\ 0 \in AsSlot
    BY AsConstants
  <2>3. asLog' = [s \in AsSlot |-> Nowhere] /\ asIndex' = 0 /\ asCount' = 0
    BY <1>2 DEF EmptyFailureLog
  <2>4. asLog' \in [AsSlot -> Site \union {Nowhere}]
    BY <2>3
  <2>5. /\ \A s \in AsSlot : s < asCount' => asLog'[s] \in Site
        /\ \A s, t \in AsSlot : s < asCount' /\ t < asCount' /\ asLog'[s] = asLog'[t] => s = t
    BY <2>1, <2>3
  <2>6. asIndex' \in AsSlot /\ asCount' \in 0..FailureLog
        /\ (asCount' < FailureLog => asIndex' = asCount')
    BY <2>2, <2>3
  <2>7. QED
    BY <1>2, <2>4, <2>5, <2>6 DEF AsInv
<1>3. CASE AsInitialize
  <2>1. 0 \in 0..(CountRange - 1)
    BY AsConstants
  <2>2. QED
    BY <1>1, <1>2, <1>3, <2>1 DEF AsInitialize
<1>4. CASE ClearStats
  BY <1>1, <1>2, <1>4 DEF ClearStats, AsInv
<1>5. ASSUME NEW site \in Site, NEW severity \in Severity, HandleFailure(site, severity)
      PROVE  AsInv' /\ FaultTypeOK'
  <2>1. LogFailure(site) /\ (Trigger \/ UNCHANGED <<asCritical, asTriggers, faultVars>>)
    BY <1>5 DEF HandleFailure
  <2>2. CASE Trigger
    <3>1. asTriggers \in Nat
      BY AsConstants DEF AsInv
    <3>2. asCritical' \in BOOLEAN /\ asTriggers' \in 0..(CountRange - 1)
      BY <2>2, <3>1, AsConstants DEF Trigger
    <3>3. FaultTypeOK'
      BY <2>2, LogFaultsKeepsType DEF Trigger
    <3>4. QED
      BY <2>1, <3>2, <3>3, LogFailureInv
  <2>3. CASE UNCHANGED <<asCritical, asTriggers, faultVars>>
    BY <1>1, <2>1, <2>3, LogFailureInv DEF AsInv
  <2>4. QED
    BY <2>1, <2>2, <2>3
<1>6. QED
  BY <1>3, <1>4, <1>5 DEF AsNext

(* Every step of the assertion log is one of the abstract log. *)
LEMMA AssertLogRefines ==
  ASSUME AsInv, AsInv', AsNext
  PROVE  \/ \E e \in Site : GetLog' = AsBounded!Added(GetLog, e)
         \/ GetLog' = <<>>
         \/ GetLog' = GetLog
<1>1. CASE asCount' = 0
  BY <1>1 DEF GetLog
<1>2. CASE UNCHANGED <<asLog, asIndex, asCount>>
  BY <1>2 DEF GetLog
<1>3. ASSUME NEW site \in Site, LogFailure(site), ~Known(site)
      PROVE  GetLog' = AsBounded!Added(GetLog, site)
  <2> DEFINE S == Site \union {Nowhere}
             rem(x) == x % FailureLog
  <2>1. /\ FailureLog \in Nat \ {0} /\ AsSlot = 0..(FailureLog - 1)
        /\ asIndex \in 0..(FailureLog - 1) /\ asCount \in 0..FailureLog
        /\ asCount < FailureLog => asIndex = asCount
    BY AsConstants DEF AsInv
  <2>2. /\ asLog' = [asLog EXCEPT ![asIndex] = site]
        /\ asIndex' = rem(asIndex + 1)
        /\ asCount' = IF asCount < FailureLog THEN asCount + 1 ELSE asCount
    BY <1>3 DEF LogFailure
  <2>3. \A x \in 0..(2*FailureLog - 1) : rem(x) = IF x < FailureLog THEN x ELSE x - FailureLog
    BY AsConstants
  <2>4. RingBefore(S, FailureLog, asLog, site, Oldest, asCount, asIndex, asLog')
    <3>1. /\ asLog' \in [AsSlot -> S] /\ asLog'[asIndex] = site
          /\ \A s \in AsSlot : s # asIndex => asLog'[s] = asLog[s]
      BY <2>1, <2>2 DEF AsInv
    <3>2. /\ Oldest \in AsSlot /\ asIndex = (Oldest + asCount) % FailureLog
          /\ asLog \in [AsSlot -> S] /\ site \in S
      BY GetLogSlots DEF AsInv
    <3>3. QED
      BY <2>1, <3>1, <3>2 DEF RingBefore
  <2> DEFINE old == Entries(asLog, FailureLog, Oldest, asCount)
  <2>5. /\ old \in Seq(S) /\ Len(old) = asCount
        /\ asCount < FailureLog =>
             Entries(asLog', FailureLog, Oldest, asCount + 1) = Append(old, site)
        /\ asCount = FailureLog =>
             Entries(asLog', FailureLog, rem(Oldest + 1), asCount) = Append(Tail(old), site)
    <3>1. RingAfter(S, FailureLog, asLog, site, Oldest, asCount, asIndex, asLog')
      BY <2>4, RingAdd
    <3>2. QED
      BY <3>1 DEF RingAfter
  <2>6. GetLog = old
    BY GetLogSlots
  <2>7. GetLog' = Entries(asLog', FailureLog, Oldest', asCount')
    BY DEF GetLog, Oldest, Entries
  <2> HIDE DEF old, rem
  <2>8. CASE asCount < FailureLog
    <3>1. Oldest = 0 /\ Oldest' = 0 /\ asCount' = asCount + 1
      BY <2>1, <2>2, <2>3, <2>8 DEF Oldest
    <3>2. GetLog' = Append(old, site)
      BY <2>5, <2>7, <2>8, <3>1
    <3>3. QED
      BY <2>5, <2>6, <2>8, <3>2 DEF AsBounded!Added
  <2>9. CASE asCount = FailureLog
    <3>1. Oldest = asIndex /\ Oldest' = rem(Oldest + 1) /\ asCount' = asCount
      BY <2>1, <2>2, <2>9 DEF Oldest
    <3>2. GetLog' = Append(Tail(old), site)
      BY <2>5, <2>7, <2>9, <3>1
    <3>3. ~(Len(old) < FailureLog)
      BY <2>1, <2>5, <2>9
    <3>4. QED
      BY <2>6, <3>2, <3>3 DEF AsBounded!Added
  <2>10. QED
    BY <2>1, <2>8, <2>9
<1>4. CASE AsInitialize \/ ClearStats
  BY <1>1, <1>4 DEF AsInitialize, ClearStats, EmptyFailureLog
<1>5. ASSUME NEW site \in Site, NEW severity \in Severity, HandleFailure(site, severity)
      PROVE  \/ GetLog' = AsBounded!Added(GetLog, site)
             \/ GetLog' = GetLog
  <2>1. LogFailure(site)
    BY <1>5 DEF HandleFailure
  <2>2. CASE Known(site)
    BY <1>2, <2>1, <2>2 DEF LogFailure, GetLog
  <2>3. CASE ~Known(site)
    BY <1>3, <2>1, <2>3
  <2>4. QED
    BY <2>2, <2>3
<1>6. QED
  BY <1>4, <1>5 DEF AsNext

-----------------------------------------------------------------------------
(* The beacon. *)
LEMMA BcTypeStep ==
  ASSUME BcTypeOK, BcNext
  PROVE  BcTypeOK'
<1>1. /\ \A x \in Int : x % TimeWrap \in 0..(TimeWrap - 1)
      /\ \A x \in Int : x % BeaconRange \in 0..(BeaconRange - 1)
      /\ \A x \in Int : x % TemplateCount \in 0..(TemplateCount - 1)
      /\ Horizon \in Nat \ {0}
      /\ 0 \in 0..(TimeWrap - 1) /\ 0 \in 0..(BeaconRange - 1) /\ 0 \in 0..(TemplateCount - 1)
      /\ "ACTIVE" \in DOMAIN BeaconInterval
  <2>1. TimeWrap \in Nat \ {0} /\ BeaconRange \in Nat \ {0} /\ TemplateCount \in Nat \ {0}
        /\ Horizon \in Nat \ {0} /\ "ACTIVE" \in DOMAIN BeaconInterval
    BY BeaconAssumption
  <2>2. \A x \in Int : x % TimeWrap \in 0..(TimeWrap - 1)
    BY <2>1, Remainders
  <2>3. \A x \in Int : x % BeaconRange \in 0..(BeaconRange - 1)
    BY <2>1, Remainders
  <2>4. \A x \in Int : x % TemplateCount \in 0..(TemplateCount - 1)
    BY <2>1, Remainders
  <2>5. QED
    BY <2>1, <2>2, <2>3, <2>4
<1> DEFINE Stats == [sequence : 0..(BeaconRange - 1), ai : 0..(BeaconRange - 1),
                     template : 0..(BeaconRange - 1)]
<1>2. \A field \in {"sequence", "ai", "template"} :
        bcStats \in Stats => OneMore(bcStats, field) \in Stats
  <2>1. \A n \in 0..(BeaconRange - 1) : (n + 1) % BeaconRange \in 0..(BeaconRange - 1)
    <3>1. \A n \in 0..(BeaconRange - 1) : n + 1 \in Int
      OBVIOUS
    <3>2. QED
      BY <1>1, <3>1
  <2>2. QED
    BY <2>1 DEF OneMore
<1>3. NoStats \in Stats
  BY <1>1 DEF NoStats
<1>4. CASE BeaconInitialize
  BY <1>1, <1>3, <1>4 DEF BeaconInitialize, BcTypeOK, BeaconText
<1>5. CASE FindDue
  BY <1>5 DEF FindDue, BcTypeOK
<1>6. ASSUME NEW mode \in DOMAIN BeaconInterval, UpdateInterval(mode)
      PROVE  BcTypeOK'
  BY <1>6 DEF UpdateInterval, BcTypeOK
<1>7. ASSUME NEW text \in BeaconText, GenerateBeacon(text)
      PROVE  BcTypeOK'
  <2>1. bcContent' \in BeaconContent
    BY <1>7 DEF GenerateBeacon, GenerateContent, BcTypeOK, BeaconContent
  <2>2. bcStats' \in Stats
    BY <1>2, <1>7 DEF GenerateBeacon, GenerateContent, BcTypeOK
  <2>3. bcTemplate' \in 0..(TemplateCount - 1)
    <3>1. bcTemplate + 1 \in Int
      BY DEF BcTypeOK
    <3>2. (bcTemplate + 1) % TemplateCount \in 0..(TemplateCount - 1)
      BY <1>1, <3>1
    <3>3. QED
      BY <1>7, <3>2 DEF GenerateBeacon, GenerateContent, BcTypeOK
  <2>4. QED
    BY <1>7, <2>1, <2>2, <2>3 DEF GenerateBeacon, BcTypeOK
<1>8. ASSUME NEW text \in BeaconText, StoreAiText(text)
      PROVE  BcTypeOK'
  BY <1>8 DEF StoreAiText, BcTypeOK
<1>9. CASE TransmitBeacon
  <2>1. bcStats' \in Stats
    BY <1>2, <1>9 DEF TransmitBeacon, BcTypeOK
  <2>2. QED
    BY <1>9, <2>1 DEF TransmitBeacon, BcTypeOK
<1>10. CASE MarkTransmitted
  <2>1. bcLast' \in 0..(TimeWrap - 1)
    <3>1. bcNow \in Int
      BY DEF BcTypeOK
    <3>2. bcNow % TimeWrap \in 0..(TimeWrap - 1)
      BY <1>1, <3>1
    <3>3. QED
      BY <1>10, <3>2 DEF MarkTransmitted
  <2>2. QED
    BY <1>10, <2>1 DEF MarkTransmitted, BcTypeOK
<1>11. ASSUME NEW available \in BOOLEAN, SetAiAvailable(available)
       PROVE  BcTypeOK'
  BY <1>11 DEF SetAiAvailable, BcTypeOK
<1>12. CASE ResetBeaconStats
  BY <1>3, <1>12 DEF ResetBeaconStats, BcTypeOK
<1>13. CASE BcTick
  BY <1>1, <1>13 DEF BcTick, BcTypeOK
<1>14. QED
  BY <1>4, <1>5, <1>6, <1>7, <1>8, <1>9, <1>10, <1>11, <1>12, <1>13 DEF BcNext

-----------------------------------------------------------------------------
(* Telemetry: a counter that wraps changes the sum by a whole turn, and    *)
(* the sum is less than three turns.                                       *)
Unaccounted == tmStats.transmitted + tmStats.failed + tmOpen - tmStats.generated

TmInv == TmTypeOK /\ Unaccounted \in {0, FrameRange, 2*FrameRange}

LEMMA WholeTurns ==
  ASSUME NEW n \in Nat \ {0}
  PROVE  0 % n = 0 /\ n % n = 0 /\ (2*n) % n = 0
<1>1. \A x \in 0..n-1 : (x + n) % n = x /\ (x + n + n) % n = x
  OBVIOUS
<1>2. 0 \in 0..n-1 /\ 0 + n = n /\ 0 + n + n = 2*n
  OBVIOUS
<1>3. QED
  BY <1>1, <1>2

LEMMA TmInvStep ==
  ASSUME TmInv, TmNext
  PROVE  TmInv'
<1> DEFINE R == FrameRange
           Frame == 0..(R - 1)
           sum == Unaccounted
           rem(x) == x % R
<1>1. R \in Nat \ {0} /\ 0 \in Frame /\ {MinRate, MaxRate, DefaultRate} \subseteq Nat
      /\ MinRate <= DefaultRate /\ DefaultRate <= MaxRate
  BY TelemetryAssumption
<1>2. \A x \in Frame : Bumped(x) \in Frame /\ (Bumped(x) = x + 1 \/ Bumped(x) = x + 1 - R)
  <2>1. \A x \in 0..(2*R - 1) : rem(x) = IF x < R THEN x ELSE x - R
    BY <1>1, Remainders
  <2>2. \A x \in Frame : Bumped(x) = rem(x + 1)
    BY DEF Bumped
  <2> HIDE DEF rem
  <2>3. QED
    BY <1>1, <2>1, <2>2
<1>3. tmStats \in [generated : Frame, transmitted : Frame, failed : Frame]
      /\ tmSystem \in [beacons : Frame, packets : Frame] /\ tmOpen \in Frame
      /\ sum \in {0, R, 2*R}
  BY DEF TmTypeOK, TmInv
<1>4. ASSUME tmStats' \in [generated : Frame, transmitted : Frame, failed : Frame],
             tmOpen' \in Frame, sum' \in {sum, sum + R, sum - R}
      PROVE  sum' \in {0, R, 2*R} /\ rem(sum') = 0
  <2>1. -R < sum' /\ sum' < 3*R
    BY <1>1, <1>4 DEF Unaccounted
  <2>2. sum' \in {0, R, 2*R}
    BY <1>1, <1>3, <1>4, <2>1
  <2>3. QED
    BY <1>1, <2>2, WholeTurns
<1> HIDE DEF rem
<1>5. CASE TelemetryInitialize
  <2>1. rem(0) = 0
    BY <1>1, WholeTurns DEF rem
  <2>2. sum' = 0
    BY <1>5 DEF TelemetryInitialize, NoFrames, Unaccounted
  <2>3. rem(sum') = 0
    BY <2>1, <2>2
  <2>4. QED
    BY <1>1, <1>5, <2>2, <2>3
       DEF TelemetryInitialize, TmInv, TmTypeOK, NoFrames, Unaccounted, rem
<1>6. ASSUME NEW rate \in RequestedRates, SetRate(rate)
      PROVE  TmInv'
  <2>1. Within(rate) \in MinRate..MaxRate
    BY <1>1, TelemetryAssumption DEF Within
  <2>2. QED
    BY <1>6, <2>1 DEF SetRate, TmInv, TmTypeOK, Unaccounted
<1>7. ASSUME NEW type \in FrameType, GenerateFrame(type)
      PROVE  TmInv'
  <2>1. /\ tmStats' = [tmStats EXCEPT !.generated = Bumped(tmStats.generated)]
        /\ tmOpen' = tmOpen + 1 /\ tmOpen < R - 1
    BY <1>7 DEF GenerateFrame
  <2>2. tmStats' \in [generated : Frame, transmitted : Frame, failed : Frame] /\ tmOpen' \in Frame
    BY <1>1, <1>2, <1>3, <2>1
  <2>3. tmSystem' \in [beacons : Frame, packets : Frame]
    BY <1>2, <1>3, <1>7 DEF GenerateFrame
  <2>4. \/ sum' = sum
        \/ sum' = sum + R
    BY <1>1, <1>2, <1>3, <2>1 DEF Unaccounted
  <2>5. sum' \in {0, R, 2*R} /\ rem(sum') = 0
    BY <1>4, <2>2, <2>4
  <2>6. QED
    BY <1>7, <2>2, <2>3, <2>5 DEF GenerateFrame, TmInv, TmTypeOK, Unaccounted, rem
<1>8. ASSUME NEW success \in BOOLEAN, ReportFrame(success)
      PROVE  TmInv'
  <2>1. /\ tmStats' = IF success THEN [tmStats EXCEPT !.transmitted = Bumped(tmStats.transmitted)]
                      ELSE [tmStats EXCEPT !.failed = Bumped(tmStats.failed)]
        /\ tmOpen' = tmOpen - 1 /\ tmOpen > 0
    BY <1>8 DEF ReportFrame
  <2>2. tmStats' \in [generated : Frame, transmitted : Frame, failed : Frame] /\ tmOpen' \in Frame
    BY <1>1, <1>2, <1>3, <2>1
  <2>3. tmSystem' \in [beacons : Frame, packets : Frame]
    BY <1>2, <1>3, <1>8 DEF ReportFrame
  <2>4. \/ sum' = sum
        \/ sum' = sum - R
    BY <1>1, <1>2, <1>3, <2>1 DEF Unaccounted
  <2>5. sum' \in {0, R, 2*R} /\ rem(sum') = 0
    BY <1>4, <2>2, <2>4
  <2>6. tmAge' \in 0..MaxRate
    BY <1>1, <1>8 DEF ReportFrame
  <2>7. QED
    BY <1>8, <2>2, <2>3, <2>5, <2>6 DEF ReportFrame, TmInv, TmTypeOK, Unaccounted, rem
<1>9. CASE TelemetryTick
  <2>1. tmAge' \in 0..MaxRate
    BY <1>1, <1>9 DEF TelemetryTick, TmInv, TmTypeOK, Unaccounted
  <2>2. QED
    BY <1>9, <2>1 DEF TelemetryTick, TmInv, TmTypeOK, Unaccounted
<1>10. QED
  BY <1>5, <1>6, <1>7, <1>8, <1>9 DEF TmNext

-----------------------------------------------------------------------------
(* System initialisation. *)
LEMMA SiTypeStep ==
  ASSUME SiTypeOK, InitInv, InitInv', SiNext
  PROVE  SiTypeOK'
<1>1. Len(Stages) = 7
  BY DEF Stages
<1>2. siStage' \in 0..Len(Stages) /\ siTests' \in [cpu : BOOLEAN, ram : BOOLEAN]
  BY <1>1 DEF InitInv
<1>3. SUFFICES ASSUME TRUE
               PROVE  /\ siStatus' \in InitStatus
                      /\ {siMagic', siClock', siRamSeen', siCpuSeen'} \subseteq BOOLEAN
                      /\ siBoots' \in {0, 1}
                      /\ siReason' \in {"POWER_ON", "UNKNOWN"}
  BY <1>2 DEF SiTypeOK
<1> USE DEF SiTypeOK
<1>4. CASE BeginInit
  BY <1>4 DEF BeginInit, InitStatus
<1>5. CASE ConfigureStage
  <2>1. siClock' \in BOOLEAN
    <3>1. AtStage("Clocks") \in BOOLEAN
      BY DEF AtStage
    <3>2. QED
      BY <1>5, <3>1 DEF ConfigureStage
  <2>2. siReason' \in {"POWER_ON", "UNKNOWN"}
    BY <1>5 DEF ConfigureStage
  <2>3. UNCHANGED <<siStatus, siMagic, siBoots, siRamSeen, siCpuSeen>>
    BY <1>5 DEF ConfigureStage, StagePasses
  <2>4. QED
    BY <2>1, <2>2, <2>3
<1>6. ASSUME NEW passed \in BOOLEAN, MemoryStage(passed)
      PROVE  /\ siStatus' \in InitStatus
             /\ {siMagic', siClock', siRamSeen', siCpuSeen'} \subseteq BOOLEAN
             /\ siBoots' \in {0, 1}
             /\ siReason' \in {"POWER_ON", "UNKNOWN"}
  <2>1. siStatus' \in InitStatus /\ UNCHANGED <<siMagic, siBoots>>
    BY <1>6 DEF MemoryStage, StagePasses, StageFails, InitStatus
  <2>2. siRamSeen' \in BOOLEAN /\ UNCHANGED <<siCpuSeen, siReason, siClock>>
    BY <1>6 DEF MemoryStage, MemoryTest
  <2>3. QED
    BY <2>1, <2>2
<1>7. ASSUME NEW cpu \in BOOLEAN, SelfTestStage(cpu)
      PROVE  /\ siStatus' \in InitStatus
             /\ {siMagic', siClock', siRamSeen', siCpuSeen'} \subseteq BOOLEAN
             /\ siBoots' \in {0, 1}
             /\ siReason' \in {"POWER_ON", "UNKNOWN"}
  <2>1. siBoots = 0
    <3>1. AtStage("Self-Test") /\ siStage \in 0..7
      BY <1>7 DEF SelfTestStage, InitInv
    <3>2. siStage = 7
      BY <3>1, StageNumbers
    <3>3. QED
      BY <3>2 DEF InitInv
  <2>2. siStatus' \in InitStatus /\ siMagic' \in BOOLEAN /\ siBoots' \in {0, 1}
    <3>1. InitEnds \/ StageFails("SELFTEST")
      BY <1>7 DEF SelfTestStage
    <3>2. CASE InitEnds
      BY <2>1, <3>2 DEF InitEnds, InitStatus
    <3>3. CASE StageFails("SELFTEST")
      BY <3>3 DEF StageFails, InitStatus
    <3>4. QED
      BY <3>1, <3>2, <3>3
  <2>3. siCpuSeen' \in BOOLEAN /\ UNCHANGED <<siRamSeen, siReason, siClock>>
    BY <1>7 DEF SelfTestStage, SelfTests
  <2>4. QED
    BY <2>2, <2>3
<1>8. ASSUME NEW passed \in BOOLEAN, TestMemory(passed) \/ RunSelfTests(passed)
      PROVE  /\ siStatus' \in InitStatus
             /\ {siMagic', siClock', siRamSeen', siCpuSeen'} \subseteq BOOLEAN
             /\ siBoots' \in {0, 1}
             /\ siReason' \in {"POWER_ON", "UNKNOWN"}
  BY <1>8 DEF TestMemory, RunSelfTests, MemoryTest, SelfTests
<1>9. QED
  BY <1>4, <1>5, <1>6, <1>7, <1>8 DEF SiNext

-----------------------------------------------------------------------------
(* The parser: paths hold numbers of lines. *)
LEMMA YmTypeStep ==
  ASSUME YmTypeOK, YmNext
  PROVE  YmTypeOK'
<1>1. {MaxLines, MaxIndent} \subseteq Nat
  BY YamlAssumption
<1>2. CASE BeginParse
  <2>1. /\ ymDocument' = <<>> /\ ymPath' = <<>> /\ ymReported' = <<>>
        /\ ymLevel' = 0 /\ ymError' = FALSE
    BY <1>2 DEF BeginParse, NoPath
  <2>2. <<>> \in Seq(Line) /\ Len(<<>>) = 0 /\ <<>> \in Seq(1..MaxLines)
    BY EmptySeq
  <2>3. 0 \in 0..MaxIndent /\ 0 <= MaxLines
    BY <1>1
  <2>4. QED
    BY <2>1, <2>2, <2>3 DEF YmTypeOK
<1>3. ASSUME NEW line \in Line, ParseLine(line)
      PROVE  YmTypeOK'
  <2> DEFINE K == 1..MaxLines
             path == UpdatedPath(line.indent)
             full == Append(path, Len(ymDocument) + 1)
  <2>1. Len(ymDocument) \in Nat /\ Len(ymDocument) < MaxLines
    BY <1>3, LenProperties DEF ParseLine, YmTypeOK
  <2>2. Len(ymDocument) + 1 \in K
    BY <1>1, <2>1
  <2> HIDE DEF K
  <2>3. ymPath \in Seq(K) /\ Len(ymPath) \in Nat
    BY LenProperties DEF YmTypeOK, K
  <2>4. line.indent \in 0..MaxIndent /\ ymLevel \in 0..MaxIndent
    BY DEF Line, YmTypeOK
  <2>5. path \in Seq(K)
    <3>1. \A up \in Nat : up < Len(ymPath) => SubSeq(ymPath, 1, Len(ymPath) - up) \in Seq(K)
      <4>1. ASSUME NEW up \in Nat, up < Len(ymPath)
            PROVE  SubSeq(ymPath, 1, Len(ymPath) - up) \in Seq(K)
        <5>1. \A i \in 1..(Len(ymPath) - up) : i \in 1..Len(ymPath)
          BY <2>3, <4>1
        <5>2. \A i \in 1..(Len(ymPath) - up) : ymPath[i] \in K
          BY <2>3, <5>1, ElementOfSeq
        <5>3. Len(ymPath) - up \in Int
          BY <2>3
        <5>4. QED
          BY <5>2, <5>3, SubSeqProperties
      <4>2. QED
        BY <4>1
    <3>2. NoPath \in Seq(K)
      BY EmptySeq DEF NoPath
    <3>3. ~(ymLevel - line.indent <= 0) => ymLevel - line.indent \in Nat
      BY <1>1, <2>4
    <3>4. QED
      BY <2>3, <3>1, <3>2, <3>3 DEF UpdatedPath
  <2>6. full \in Seq(K)
    BY <2>2, <2>5, AppendProperties
  <2>7. ymPath' \in Seq(K) /\ ymReported' \in Seq(K)
    <3>1. NoPath \in Seq(K)
      BY EmptySeq DEF NoPath
    <3>2. /\ ymPath' \in {ymPath, path, full}
          /\ ymReported' \in {full, NoPath}
      BY <1>3 DEF ParseLine
    <3> HIDE DEF path, full
    <3>3. QED
      BY <2>3, <2>5, <2>6, <3>1, <3>2
  <2>8. ymDocument' \in Seq(Line) /\ Len(ymDocument') = Len(ymDocument) + 1
    BY <1>3, AppendProperties DEF ParseLine, YmTypeOK
  <2>9. ymLevel' \in 0..MaxIndent /\ ymError' \in BOOLEAN
    BY <1>3, <2>4 DEF ParseLine, YmTypeOK
  <2>10. Len(ymDocument') <= MaxLines
    BY <1>1, <2>1, <2>8
  <2>11. QED
    BY <2>7, <2>8, <2>9, <2>10 DEF YmTypeOK, K
<1>4. QED
  BY <1>2, <1>3 DEF YmNext

-----------------------------------------------------------------------------
(* No key after i is as far out as i. *)
Open(i) ==
  \A k \in Keys : k > i => ymDocument[k].indent > ymDocument[i].indent

IsLast(i) == \A k \in Keys : k <= i

(***************************************************************************)
(* The path while the document is well indented: the a-th key of it is an  *)
(* open key of level a - 1, and every open key is in it but a value of the *)
(* last line, as deep as the last key and its kind say.                    *)
(***************************************************************************)
PathShape ==
  /\ Keys = {} => ymPath = NoPath /\ ymLevel = 0
  /\ Keys # {} => \E i \in Keys : IsLast(i)
  /\ \A i \in Keys : IsLast(i) =>
       /\ ymLevel = ymDocument[i].indent
       /\ Len(ymPath) = IF ymDocument[i].kind = "section" THEN ymLevel + 1 ELSE ymLevel
  /\ \A a, b \in DOMAIN ymPath : a < b => ymPath[a] < ymPath[b]
  /\ \A a \in DOMAIN ymPath :
       /\ ymPath[a] \in Keys
       /\ ymDocument[ymPath[a]].indent = a - 1
       /\ Open(ymPath[a])
  /\ \A i \in Keys :
       Open(i) /\ ~(IsLast(i) /\ ymDocument[i].kind = "value") =>
         \E a \in DOMAIN ymPath : ymPath[a] = i

PathInv ==
  /\ PathsAreParents
  /\ WellIndented /\ ~ymError => PathShape
(* What a line adds to the document: itself, and a key if it has one. *)
LEMMA LineAdded ==
  ASSUME YmTypeOK, NEW line \in Line, ParseLine(line)
  PROVE  /\ Len(ymDocument) \in Nat
         /\ Keys \subseteq 1..Len(ymDocument)
         /\ Len(ymDocument') = Len(ymDocument) + 1
         /\ ymDocument'[Len(ymDocument) + 1] = line
         /\ \A i \in Keys : ymDocument'[i] = ymDocument[i] /\ ymDocument[i] \in Line
         /\ Keys' = IF line.kind \in {"section", "value"}
                    THEN Keys \union {Len(ymDocument) + 1} ELSE Keys
<1> DEFINE n == Len(ymDocument)
<1>1. ymDocument \in Seq(Line) /\ ymDocument' = Append(ymDocument, line)
  BY DEF YmTypeOK, ParseLine
<1>2. n \in Nat /\ DOMAIN ymDocument = 1..n
  BY <1>1, LenProperties
<1>3. /\ ymDocument' \in Seq(Line)
      /\ Len(ymDocument') = n + 1
      /\ \A i \in 1..n : ymDocument'[i] = ymDocument[i]
      /\ ymDocument'[n + 1] = line
  BY <1>1, AppendProperties
<1>4. DOMAIN ymDocument' = 1..(n + 1)
  BY <1>3, LenProperties
<1>5. 1..(n + 1) = 1..n \union {n + 1}
  BY <1>2
<1>6. \A i \in 1..n : ymDocument[i] \in Line
  BY <1>1, ElementOfSeq
<1> HIDE DEF n
<1>7. Keys \subseteq 1..n
  BY <1>2 DEF Keys
<1>8. Keys' = {i \in DOMAIN ymDocument' : ymDocument'[i].kind \in {"section", "value"}}
  BY DEF Keys
<1> DEFINE Holds(doc, i) == doc[i].kind \in {"section", "value"}
<1>9. /\ \A i \in 1..n : Holds(ymDocument', i) <=> Holds(ymDocument, i)
      /\ Holds(ymDocument', n + 1) <=> line.kind \in {"section", "value"}
      /\ Keys' = {i \in 1..n \union {n + 1} : Holds(ymDocument', i)}
      /\ Keys = {i \in 1..n : Holds(ymDocument, i)}
  BY <1>2, <1>3, <1>4, <1>5, <1>8 DEF Keys
<1> HIDE DEF Holds
<1>10. Keys' = IF line.kind \in {"section", "value"}
               THEN Keys \union {n + 1} ELSE Keys
  BY <1>9, Zenon
<1>11. QED
  BY <1>2, <1>3, <1>6, <1>7, <1>10 DEF n

(* A document that is well indented was so before its last line. *)
LEMMA PrefixWellIndented ==
  ASSUME YmTypeOK, NEW line \in Line, ParseLine(line), WellIndented'
  PROVE  WellIndented
<1> DEFINE n == Len(ymDocument)
<1>1. /\ n \in Nat
      /\ Keys \subseteq 1..n
      /\ \A i \in Keys : ymDocument'[i] = ymDocument[i]
      /\ \A i : i \in Keys => i \in Keys'
      /\ \A i : i \in Keys' => i \in Keys \/ i = n + 1
  BY LineAdded
<1> HIDE DEF n
<1>2. \A i \in Keys : i \in Int /\ i < n + 1 /\ i <= n + 1
  BY <1>1
<1>3. ASSUME NEW i \in Keys, \A j \in Keys : i <= j
      PROVE  ymDocument[i].indent = 0
  <2>1. i \in Keys' /\ \A j \in Keys' : i <= j
    <3>1. ASSUME NEW j \in Keys'
          PROVE  i <= j
      BY <1>1, <1>2, <1>3, <3>1
    <3>2. QED
      BY <1>1, <3>1
  <2>2. QED
    BY <1>1, <2>1 DEF WellIndented
<1>4. ASSUME NEW i \in Keys, NEW j \in Following(i)
      PROVE  IF ymDocument[i].kind = "section"
             THEN ymDocument[j].indent = ymDocument[i].indent + 1
             ELSE ymDocument[j].indent <= ymDocument[i].indent
  <2>1. j \in Keys /\ j > i /\ \A k \in Keys : k > i => j <= k
    BY DEF Following
  <2>2. j \in Keys' /\ \A k \in Keys' : k > i => j <= k
    <3>1. ASSUME NEW k \in Keys', k > i
          PROVE  j <= k
      BY <1>1, <1>2, <2>1, <3>1
    <3>2. QED
      BY <1>1, <2>1, <3>1
  <2>3. j \in Following(i)'
    BY <2>1, <2>2 DEF Following
  <2>4. i \in Keys' /\ ymDocument'[i] = ymDocument[i] /\ ymDocument'[j] = ymDocument[j]
    BY <1>1, <2>1
  <2>5. QED
    BY <2>3, <2>4 DEF WellIndented
<1>5. QED
  BY <1>3, <1>4 DEF WellIndented

(* The path for a key: the part of the old one that is further out. *)
LEMMA PathForKey ==
  ASSUME YmTypeOK, PathShape, NEW line \in Line, ParseLine(line), WellIndented',
         line.kind \in {"section", "value"}
  PROVE  /\ line.indent \in Nat
         /\ UpdatedPath(line.indent) \in Seq(Nat)
         /\ Len(UpdatedPath(line.indent)) = line.indent
         /\ line.indent <= Len(ymPath)
         /\ \A a \in 1..line.indent : UpdatedPath(line.indent)[a] = ymPath[a]
<1> DEFINE n == Len(ymDocument)
           d == line.indent
           path == UpdatedPath(d)
<1>1. /\ n \in Nat
      /\ Keys \subseteq 1..n
      /\ \A i \in Keys : ymDocument'[i] = ymDocument[i] /\ ymDocument[i] \in Line
      /\ ymDocument'[n + 1] = line
      /\ Keys' = Keys \union {n + 1}
  BY LineAdded
<1>2. \A i \in Keys : i \in Int /\ i < n + 1
  BY <1>1
<1>3. d \in Nat /\ ymLevel \in Nat
  BY YamlAssumption DEF Line, YmTypeOK
<1>4. ymPath \in Seq(Nat) /\ Len(ymPath) \in Nat
  <2>1. ymPath \in Seq(1..MaxLines)
    BY DEF YmTypeOK
  <2>2. Len(ymPath) \in Nat /\ DOMAIN ymPath = 1..Len(ymPath)
        /\ ymPath \in [1..Len(ymPath) -> 1..MaxLines]
    BY <2>1, LenProperties
  <2>3. 1..MaxLines \subseteq Nat
    BY YamlAssumption
  <2>4. QED
    BY <2>2, <2>3, SeqDef
<1> HIDE DEF n, d, path
<1>5. CASE Keys = {}
  <2>1. ymPath = <<>> /\ ymLevel = 0
    BY <1>5 DEF PathShape, NoPath
  <2>2. n + 1 \in Keys' /\ \A j \in Keys' : n + 1 <= j
    BY <1>1, <1>5
  <2>3. d = 0
    BY <1>1, <2>2 DEF WellIndented, d
  <2>4. path = <<>>
    BY <2>1, <2>3 DEF UpdatedPath, path
  <2>5. <<>> \in Seq(Nat) /\ Len(<<>>) = 0 /\ 0 <= 0 /\ \A a \in 1..0 : FALSE
    BY EmptySeq
  <2>6. /\ path \in Seq(Nat) /\ Len(path) = 0 /\ Len(ymPath) = 0
        /\ \A a \in 1..0 : path[a] = ymPath[a]
    BY <2>1, <2>4, <2>5
  <2>7. 0 \in Nat /\ 0 <= 0
    OBVIOUS
  <2>8. QED
    BY <2>3, <2>6, <2>7 DEF d, path
<1>6. CASE Keys # {}
  <2>1. PICK i \in Keys : IsLast(i)
    BY <1>6 DEF PathShape
  <2>2. /\ ymLevel = ymDocument[i].indent
        /\ Len(ymPath) = IF ymDocument[i].kind = "section" THEN ymLevel + 1 ELSE ymLevel
    BY <2>1 DEF PathShape
  <2>3. n + 1 \in Following(i)'
    <3>1. n + 1 > i /\ n + 1 \in Keys'
      BY <1>1, <1>2
    <3>2. \A k \in Keys' : k > i => n + 1 <= k
      BY <1>1, <1>2, <2>1 DEF IsLast
    <3>3. QED
      BY <3>1, <3>2 DEF Following
  <2>4. IF ymDocument[i].kind = "section" THEN d = ymLevel + 1 ELSE d <= ymLevel
    BY <1>1, <2>2, <2>3 DEF WellIndented, d
  <2>5. CASE d = Len(ymPath) /\ ymLevel - d <= 0
    BY <1>3, <1>4, <2>5 DEF UpdatedPath, d, path
  <2>6. CASE Len(ymPath) = ymLevel /\ 0 < d /\ d < ymLevel
    <3>1. path = SubSeq(ymPath, 1, d)
      <4>1. ~(ymLevel - d <= 0) /\ ymLevel - d < Len(ymPath) /\ Len(ymPath) - (ymLevel - d) = d
        BY <1>3, <2>6
      <4>2. QED
        BY <4>1 DEF UpdatedPath, path
    <3>2. \A a \in 1..d : ymPath[a] \in Nat
      BY <1>3, <1>4, <2>6, ElementOfSeq
    <3>3. /\ path \in Seq(Nat) /\ Len(path) = d
          /\ \A a \in 1..d : path[a] = ymPath[a]
      <4>1. d \in Int /\ 1 \in Int /\ (IF 1 <= d THEN (d - 1) + 1 ELSE 0) = d
        BY <1>3
      <4>2. \A a \in 1..d : a \in 1..((d - 1) + 1) /\ (1 + a) - 1 = a
        BY <1>3
      <4>3. QED
        BY <1>3, <2>6, <3>1, <3>2, <4>1, <4>2, SubSeqProperties
    <3>4. QED
      BY <1>3, <1>4, <2>6, <3>3 DEF d, path
  <2>7. CASE Len(ymPath) = ymLevel /\ d = 0 /\ d < ymLevel
    <3>1. path = <<>>
      <4>1. ~(ymLevel - d <= 0) /\ ~(ymLevel - d < Len(ymPath))
        BY <1>3, <2>7
      <4>2. QED
        BY <4>1 DEF UpdatedPath, path, NoPath
    <3>2. <<>> \in Seq(Nat) /\ Len(<<>>) = 0 /\ \A a \in 1..0 : FALSE
      BY EmptySeq
    <3>3. 0 <= Len(ymPath)
      BY <1>4
    <3>4. QED
      BY <1>3, <2>7, <3>1, <3>2, <3>3 DEF d, path
  <2>8. \/ d = Len(ymPath) /\ ymLevel - d <= 0
        \/ Len(ymPath) = ymLevel /\ 0 < d /\ d < ymLevel
        \/ Len(ymPath) = ymLevel /\ d = 0 /\ d < ymLevel
    <3> DEFINE section == ymDocument[i].kind = "section"
    <3>1. Len(ymPath) = (IF section THEN ymLevel + 1 ELSE ymLevel)
      BY <2>2
    <3>2. IF section THEN d = ymLevel + 1 ELSE d <= ymLevel
      BY <2>4
    <3> HIDE DEF d, section
    <3>3. CASE section
      BY <1>3, <1>4, <3>1, <3>2, <3>3
    <3>4. CASE ~section
      BY <1>3, <1>4, <3>1, <3>2, <3>4
    <3>5. QED
      BY <3>3, <3>4
  <2> HIDE DEF d, path
  <2>9. QED
    BY <2>5, <2>6, <2>7, <2>8
<1>7. QED
  BY <1>5, <1>6

(* What a key is reported under, and what a section leaves as the path. *)
FullPath(line) == Append(UpdatedPath(line.indent), Len(ymDocument) + 1)

(* A key is reported under the open keys that are further out. *)
LEMMA FullPathHolds ==
  ASSUME YmTypeOK, PathShape, NEW line \in Line, ParseLine(line), WellIndented',
         line.kind \in {"section", "value"}
  PROVE  /\ FullPath(line) \in Seq(Nat)
         /\ Len(FullPath(line)) = line.indent + 1
         /\ FullPath(line)[line.indent + 1] = Len(ymDocument) + 1
         /\ \A a \in 1..line.indent : /\ a \in DOMAIN ymPath
                                      /\ FullPath(line)[a] = ymPath[a]
         /\ \A i \in Keys :
              Open(i) /\ line.indent > ymDocument[i].indent =>
                \E a \in 1..line.indent : FullPath(line)[a] = i
<1> DEFINE n == Len(ymDocument)
           d == line.indent
           path == UpdatedPath(d)
           full == FullPath(line)
<1>1. /\ n \in Nat
      /\ Keys \subseteq 1..n
      /\ \A i \in Keys : ymDocument'[i] = ymDocument[i] /\ ymDocument[i] \in Line
      /\ ymDocument'[n + 1] = line
      /\ Keys' = Keys \union {n + 1}
  BY LineAdded
<1>2. /\ d \in Nat /\ path \in Seq(Nat) /\ Len(path) = d /\ d <= Len(ymPath)
      /\ \A a \in 1..d : path[a] = ymPath[a]
  BY PathForKey
<1>3. ymPath \in Seq(1..MaxLines)
  BY DEF YmTypeOK
<1>4. Len(ymPath) \in Nat /\ DOMAIN ymPath = 1..Len(ymPath)
  BY <1>3, LenProperties
<1> HIDE DEF n, d, path, full
<1>5. full = Append(path, n + 1)
  BY DEF FullPath, n, d, path, full
<1>6. n + 1 \in Nat
  BY <1>1
<1>7. /\ full \in Seq(Nat)
      /\ Len(full) = d + 1
      /\ full[d + 1] = n + 1
      /\ \A a \in 1..d : full[a] = path[a]
  <2>1. /\ Append(path, n + 1) \in Seq(Nat)
        /\ Len(Append(path, n + 1)) = Len(path) + 1
        /\ \A a \in 1..Len(path) : Append(path, n + 1)[a] = path[a]
        /\ Append(path, n + 1)[Len(path) + 1] = n + 1
    BY <1>2, <1>6, AppendProperties
  <2>2. QED
    BY <1>2, <1>5, <2>1
<1>8. \A a \in 1..d : a \in DOMAIN ymPath
  BY <1>2, <1>4
<1>9. ASSUME NEW i \in Keys, Open(i), d > ymDocument[i].indent
      PROVE  \E a \in 1..d : full[a] = i
  <2>1. ~(IsLast(i) /\ ymDocument[i].kind = "value")
    <3>1. ASSUME IsLast(i), ymDocument[i].kind = "value"
          PROVE  FALSE
      <4>1. n + 1 > i /\ i \in Int
        BY <1>1
      <4>2. \A k \in Keys' : k > i => n + 1 <= k
        <5>1. ASSUME NEW k \in Keys', k > i
              PROVE  n + 1 <= k
          <6>1. CASE k \in Keys
            BY <1>1, <3>1, <5>1, <6>1 DEF IsLast
          <6>2. CASE k = n + 1
            BY <1>6, <6>2
          <6>3. QED
            BY <1>1, <6>1, <6>2
        <5>2. QED
          BY <5>1
      <4>3. n + 1 \in Following(i)'
        BY <1>1, <4>1, <4>2 DEF Following
      <4>4. i \in Keys' /\ ymDocument'[i] = ymDocument[i]
        BY <1>1
      <4>5. ymDocument'[i].kind # "section"
        BY <3>1, <4>4
      <4>6. ymDocument'[n + 1].indent <= ymDocument'[i].indent
        BY <4>3, <4>4, <4>5 DEF WellIndented
      <4>7. d <= ymDocument[i].indent
        BY <1>1, <4>4, <4>6 DEF d
      <4>8. ymDocument[i].indent \in Nat
        BY <1>1, YamlAssumption DEF Line
      <4>9. QED
        BY <1>2, <1>9, <4>7, <4>8
    <3>2. QED
      BY <3>1
  <2>2. PICK a \in DOMAIN ymPath : ymPath[a] = i
    BY <1>9, <2>1 DEF PathShape
  <2>3. ymDocument[i].indent = a - 1
    BY <2>2 DEF PathShape
  <2>4. a \in 1..d
    BY <1>2, <1>4, <1>9, <2>3
  <2>5. full[a] = i
    BY <1>2, <1>7, <2>2, <2>4
  <2>6. QED
    BY <2>4, <2>5
<1>10. QED
  BY <1>2, <1>7, <1>8, <1>9 DEF n, d, path, full

(* The same once the next line is parsed. *)
OpenNext(i) ==
  \A k \in Keys' : k > i => ymDocument'[k].indent > ymDocument'[i].indent

LastNext(i) == \A k \in Keys' : k <= i

EnclosesNext(i, j) ==
  i < j /\ \A k \in Keys' : i < k /\ k <= j => ymDocument'[k].indent > ymDocument'[i].indent

(* The keys that enclose a new key: the open ones further out. *)
LEMMA StaysOpen ==
  ASSUME YmTypeOK, NEW line \in Line, ParseLine(line),
         line.kind \in {"section", "value"}, NEW i \in Keys
  PROVE  /\ OpenNext(i) <=> Open(i) /\ line.indent > ymDocument[i].indent
         /\ EnclosesNext(i, Len(ymDocument')) <=> OpenNext(i)
<1> DEFINE n == Len(ymDocument)
           d == line.indent
<1>1. /\ n \in Nat
      /\ Keys \subseteq 1..n
      /\ Len(ymDocument') = n + 1
      /\ \A k \in Keys : ymDocument'[k] = ymDocument[k] /\ ymDocument[k] \in Line
      /\ ymDocument'[n + 1] = line
      /\ Keys' = Keys \union {n + 1}
  BY LineAdded
<1> HIDE DEF n
<1>2. \A k \in Keys : k \in Int /\ k <= n /\ k < n + 1 /\ k <= n + 1 /\ n + 1 > k
  BY <1>1
<1>3. OpenNext(i) <=> \A k \in Keys' : k > i => ymDocument'[k].indent > ymDocument'[i].indent
  BY DEF OpenNext
<1>4. EnclosesNext(i, Len(ymDocument')) <=>
        /\ i < n + 1
        /\ \A k \in Keys' : i < k /\ k <= n + 1 => ymDocument'[k].indent > ymDocument'[i].indent
  BY <1>1 DEF EnclosesNext
<1>5. \A k \in Keys' : k \in Int /\ k <= n + 1 /\ (i < k <=> k > i)
  <2>1. n + 1 \in Int /\ n + 1 <= n + 1 /\ i \in Int
    BY <1>1
  <2>2. \A k \in Int : i < k <=> k > i
    BY <2>1
  <2>3. QED
    BY <1>1, <1>2, <2>1, <2>2
<1>6. EnclosesNext(i, Len(ymDocument')) <=> OpenNext(i)
  BY <1>2, <1>3, <1>4, <1>5
<1>7. OpenNext(i) <=> Open(i) /\ d > ymDocument[i].indent
  BY <1>1, <1>2, <1>3 DEF Open
<1>8. QED
  BY <1>6, <1>7

(* A key line keeps the shape of the path. *)
LEMMA ShapeAfterKey ==
  ASSUME YmTypeOK, PathShape, NEW line \in Line, ParseLine(line), WellIndented',
         line.kind \in {"section", "value"}
  PROVE  PathShape'
<1> DEFINE n == Len(ymDocument)
           d == line.indent
           path == UpdatedPath(d)
           full == FullPath(line)
           p == ymPath'
<1>1. /\ n \in Nat
      /\ Keys \subseteq 1..n
      /\ \A i \in Keys : ymDocument'[i] = ymDocument[i] /\ ymDocument[i] \in Line
      /\ ymDocument'[n + 1] = line
      /\ Keys' = Keys \union {n + 1}
  BY LineAdded
<1>2. /\ d \in Nat /\ path \in Seq(Nat) /\ Len(path) = d
      /\ \A a \in 1..d : path[a] = ymPath[a]
  BY PathForKey
<1>3. /\ full \in Seq(Nat) /\ Len(full) = d + 1
      /\ full[d + 1] = n + 1
      /\ \A a \in 1..d : a \in DOMAIN ymPath /\ full[a] = ymPath[a]
      /\ \A i \in Keys : Open(i) /\ d > ymDocument[i].indent => \E a \in 1..d : full[a] = i
  BY FullPathHolds
<1>4. /\ p = IF line.kind = "section" THEN full ELSE path
      /\ ymLevel' = d
  BY DEF ParseLine, FullPath
<1>5. \A i \in Keys : OpenNext(i) <=> Open(i) /\ d > ymDocument[i].indent
  BY StaysOpen
<1> HIDE DEF n, d, path, full
<1>6. DOMAIN path = 1..d /\ DOMAIN full = 1..(d + 1)
  BY <1>2, <1>3, LenProperties
<1>7. \A a \in 1..d : a \in DOMAIN p /\ p[a] = ymPath[a] /\ a \in DOMAIN ymPath /\ p[a] = full[a]
  <2>1. \A a \in 1..d : a \in 1..(d + 1)
    BY <1>2
  <2>2. QED
    BY <1>2, <1>3, <1>4, <1>6, <2>1
<1>8. \A a \in DOMAIN p :
        \/ a \in 1..d
        \/ a = d + 1 /\ p[a] = n + 1 /\ line.kind = "section"
  <2>1. \A a \in 1..(d + 1) : a \in 1..d \/ a = d + 1
    BY <1>2
  <2>2. QED
    BY <1>3, <1>4, <1>6, <2>1
<1>9. \A i \in Keys : i \in Int /\ i < n + 1 /\ i <= n + 1 /\ i # n + 1
  BY <1>1
<1>10. OpenNext(n + 1) /\ LastNext(n + 1)
  <2>1. \A k \in Keys' : k <= n + 1 /\ ~(k > n + 1)
    BY <1>1, <1>9
  <2>2. QED
    BY <2>1 DEF OpenNext, LastNext
<1>11. \A i \in Keys' : LastNext(i) => i = n + 1
  <2>1. \A i \in Keys : ~(n + 1 <= i)
    BY <1>1, <1>9
  <2>2. QED
    BY <1>1, <2>1 DEF LastNext
<1>12. ASSUME NEW i \in Keys', LastNext(i)
       PROVE  /\ ymLevel' = ymDocument'[i].indent
              /\ Len(p) = IF ymDocument'[i].kind = "section" THEN ymLevel' + 1 ELSE ymLevel'
  <2>1. ymDocument'[i] = line
    BY <1>1, <1>11, <1>12
  <2>2. QED
    BY <1>2, <1>3, <1>4, <2>1 DEF d
<1>13. ASSUME NEW a \in DOMAIN p, NEW b \in DOMAIN p, a < b
       PROVE  p[a] < p[b]
  <2>1. a \in Int /\ b \in Int /\ a <= d + 1 /\ b <= d + 1
    BY <1>2, <1>8
  <2>2. a \in 1..d
    BY <1>2, <1>8, <1>13, <2>1
  <2>3. CASE b \in 1..d
    BY <1>7, <1>13, <2>2, <2>3 DEF PathShape
  <2>4. CASE p[b] = n + 1
    <3>1. p[a] \in Keys
      BY <1>7, <2>2 DEF PathShape
    <3>2. QED
      BY <1>9, <2>4, <3>1
  <2>5. QED
    BY <1>8, <2>3, <2>4
<1>14. ASSUME NEW a \in DOMAIN p
       PROVE  /\ p[a] \in Keys'
              /\ ymDocument'[p[a]].indent = a - 1
              /\ OpenNext(p[a])
  <2>1. CASE a \in 1..d
    <3>1. p[a] \in Keys /\ ymDocument[p[a]].indent = a - 1 /\ Open(p[a])
      BY <1>7, <2>1 DEF PathShape
    <3>2. d > a - 1
      BY <1>2, <2>1
    <3>3. OpenNext(p[a])
      BY <1>5, <3>1, <3>2
    <3>4. QED
      BY <1>1, <3>1, <3>3
  <2>2. CASE a = d + 1 /\ p[a] = n + 1
    <3>1. d = (d + 1) - 1
      BY <1>2
    <3>2. QED
      BY <1>1, <1>10, <2>2, <3>1 DEF d
  <2>3. QED
    BY <1>8, <2>1, <2>2
<1>15. ASSUME NEW i \in Keys', OpenNext(i), ~(LastNext(i) /\ ymDocument'[i].kind = "value")
       PROVE  \E a \in DOMAIN p : p[a] = i
  <2>1. CASE i \in Keys
    BY <1>3, <1>5, <1>7, <1>15, <2>1
  <2>2. CASE i = n + 1
    <3>1. line.kind = "section"
      BY <1>1, <1>10, <1>15, <2>2
    <3>2. d + 1 \in DOMAIN full
      BY <1>2, <1>6
    <3>3. QED
      BY <1>3, <1>4, <2>2, <3>1, <3>2
  <2>3. QED
    BY <1>1, <2>1, <2>2
<1>16. Keys' # {} /\ \E i \in Keys' : LastNext(i)
  BY <1>1, <1>10
<1>17. QED
  BY <1>12, <1>13, <1>14, <1>15, <1>16 DEF PathShape, Open, IsLast, OpenNext, LastNext

(* What a value is reported under. *)
LEMMA ReportedRightly ==
  ASSUME YmTypeOK, PathShape, NEW line \in Line, ParseLine(line), WellIndented',
         line.kind = "value"
  PROVE  IsPathOf(ymReported, Len(ymDocument))'
<1> DEFINE n == Len(ymDocument)
           d == line.indent
           full == FullPath(line)
<1>0. line.kind \in {"section", "value"} /\ d \in Nat
  BY YamlAssumption DEF Line
<1>1. /\ n \in Nat
      /\ Keys \subseteq 1..n
      /\ Len(ymDocument') = n + 1
      /\ Keys' = Keys \union {n + 1}
      /\ \A i \in Keys : ymDocument'[i] = ymDocument[i] /\ ymDocument[i] \in Line
  BY <1>0, LineAdded
<1>2. /\ full \in Seq(Nat) /\ Len(full) = d + 1
      /\ full[d + 1] = n + 1
      /\ \A a \in 1..d : a \in DOMAIN ymPath /\ full[a] = ymPath[a]
      /\ \A i \in Keys : Open(i) /\ d > ymDocument[i].indent => \E a \in 1..d : full[a] = i
  BY <1>0, FullPathHolds
<1>3. ymReported' = full
  BY DEF ParseLine, FullPath
<1>4. \A i \in Keys :
        EnclosesNext(i, Len(ymDocument')) <=> Open(i) /\ d > ymDocument[i].indent
  BY <1>0, StaysOpen
<1> HIDE DEF n, d, full
<1>5. DOMAIN full = 1..(d + 1)
  BY <1>2, LenProperties
<1>6. \A a \in DOMAIN full : a \in Nat /\ (a \in 1..d \/ a = d + 1)
  BY <1>0, <1>5
<1>7. \A a \in 1..d : a \in DOMAIN full
  BY <1>0, <1>5
<1>8. \A i \in Keys : i \in Int /\ i < n + 1
  BY <1>1
<1>9. ASSUME NEW a \in DOMAIN full, NEW b \in DOMAIN full, a < b
      PROVE  full[a] < full[b]
  <2>1. a \in 1..d
    BY <1>0, <1>5, <1>9
  <2>2. CASE b \in 1..d
    BY <1>2, <1>9, <2>1, <2>2 DEF PathShape
  <2>3. CASE b = d + 1
    <3>1. full[a] \in Keys
      BY <1>2, <2>1 DEF PathShape
    <3>2. QED
      BY <1>2, <1>8, <2>3, <3>1
  <2>4. QED
    BY <1>6, <2>2, <2>3
<1>10. ASSUME NEW a \in DOMAIN full
       PROVE  full[a] \in Keys' /\ (full[a] = n + 1 \/ EnclosesNext(full[a], Len(ymDocument')))
  <2>1. CASE a \in 1..d
    <3>1. full[a] \in Keys /\ ymDocument[full[a]].indent = a - 1 /\ Open(full[a])
      BY <1>2, <2>1 DEF PathShape
    <3>2. d > a - 1
      BY <1>0, <2>1
    <3>3. QED
      BY <1>1, <1>4, <3>1, <3>2
  <2>2. CASE a = d + 1
    BY <1>1, <1>2, <2>2
  <2>3. QED
    BY <1>6, <2>1, <2>2
<1>11. ASSUME NEW i \in Keys', i = n + 1 \/ EnclosesNext(i, Len(ymDocument'))
       PROVE  \E a \in DOMAIN full : full[a] = i
  <2>1. CASE i = n + 1
    <3>1. d + 1 \in DOMAIN full
      BY <1>0, <1>5
    <3>2. QED
      BY <1>2, <2>1, <3>1
  <2>2. CASE i \in Keys /\ EnclosesNext(i, Len(ymDocument'))
    BY <1>2, <1>4, <1>7, <2>2
  <2>3. QED
    BY <1>1, <1>11, <2>1, <2>2
<1>12. {full[a] : a \in DOMAIN full}
         = {i \in Keys' : i = n + 1 \/ EnclosesNext(i, Len(ymDocument'))}
  BY <1>10, <1>11
<1>13. QED
  BY <1>1, <1>3, <1>9, <1>12 DEF IsPathOf, Encloses, EnclosesNext

LEMMA PathInvStep ==
  ASSUME YmTypeOK, PathInv, YmNext
  PROVE  PathInv'
<1>1. CASE BeginParse
  <2>1. /\ ymReported' = NoPath /\ ymPath' = NoPath /\ ymLevel' = 0
        /\ ymDocument' = <<>> /\ NoPath = <<>>
    BY <1>1 DEF BeginParse, NoPath
  <2>2. Keys' = {} /\ DOMAIN ymPath' = {}
    BY <2>1 DEF Keys
  <2>3. PathShape'
    BY <2>1, <2>2 DEF PathShape
  <2>4. QED
    BY <2>1, <2>3 DEF PathInv, PathsAreParents
<1>2. ASSUME NEW line \in Line, ParseLine(line)
      PROVE  PathInv'
  <2>1. WellIndented' => PathShape
    BY <1>2, PrefixWellIndented DEF PathInv, ParseLine
  <2>2. PathsAreParents'
    <3>1. ymReported' # NoPath => line.kind = "value"
      BY <1>2 DEF ParseLine
    <3>2. QED
      BY <1>2, <2>1, <3>1, ReportedRightly DEF PathsAreParents
  <2>3. ASSUME WellIndented', ~ymError'
        PROVE  PathShape'
    <3>1. CASE line.kind \in {"section", "value"}
      BY <1>2, <2>1, <2>3, <3>1, ShapeAfterKey
    <3>2. CASE line.kind = "comment"
      <4>1. Keys' = Keys /\ \A i \in Keys : ymDocument'[i] = ymDocument[i]
        BY <1>2, <3>2, LineAdded
      <4>2. ymPath' = ymPath /\ ymLevel' = ymLevel
        BY <1>2, <3>2 DEF ParseLine
      <4>3. \A i \in Keys : (OpenNext(i) <=> Open(i)) /\ (LastNext(i) <=> IsLast(i))
        BY <4>1 DEF Open, IsLast, OpenNext, LastNext
      <4>4. QED
        BY <2>1, <2>3, <4>1, <4>2, <4>3 DEF PathShape, Open, IsLast
    <3>3. QED
      BY <1>2, <2>3, <3>1, <3>2 DEF ParseLine, Line
  <2>4. QED
    BY <2>2, <2>3 DEF PathInv
<1>3. QED
  BY <1>1, <1>2 DEF YmNext

-----------------------------------------------------------------------------
(* The table of sensors.  What is loaded waits for nothing; the items of a *)
(* file fit, and after a failure the defaults come on top of them.         *)
Periods == FilePeriods \union {DefaultPeriods[i] : i \in DOMAIN DefaultPeriods}
TableEntry == [named : BOOLEAN, period : Periods, wait : 0..MaxWait]
FreshEntry == [named : BOOLEAN, period : Periods, wait : {0}]
TableMax == SensorMax + Len(DefaultPeriods)
Tables == {t \in Seq(TableEntry) : Len(t) <= TableMax}
FreshTables == {t \in Seq(FreshEntry) : Len(t) <= SensorMax}
LoadedTables == {t \in Seq(FreshEntry) : Len(t) <= TableMax}

SnInv ==
  /\ SnTypeOK
  /\ snSensors \in Tables
  /\ snRead \in [DOMAIN snSensors -> 0..MaxWait]
  /\ snStep \in {"off", "empty"} => snSensors = <<>>
  /\ snStep = "failed" => snSensors \in FreshTables

LEMMA SensorConstants ==
  /\ SensorMax \in Nat \ {0} /\ FileMax \in Nat
  /\ TableMax \in Nat /\ SensorMax <= TableMax
  /\ Len(DefaultPeriods) \in Nat /\ Len(DefaultPeriods) <= SensorMax
  /\ DOMAIN DefaultPeriods = 1..Len(DefaultPeriods)
  /\ MaxWait \in Nat
  /\ Periods \subseteq Nat
  /\ \A p \in Periods : PeriodOf(p) \in 1..MaxWait
  /\ FilePeriods \subseteq Periods
  /\ \A i \in DOMAIN DefaultPeriods : DefaultPeriods[i] \in Periods
<1>1. /\ SensorMax \in Nat \ {0} /\ FileMax \in Nat /\ FilePeriods \subseteq Nat
      /\ NoPeriod \in Nat \ {0} /\ DefaultPeriods \in Seq(Nat \ {0})
      /\ Len(DefaultPeriods) <= SensorMax
  BY SensorAssumption
<1>2. Len(DefaultPeriods) \in Nat /\ DOMAIN DefaultPeriods = 1..Len(DefaultPeriods)
  BY <1>1, LenProperties
<1>3. \A i \in DOMAIN DefaultPeriods : DefaultPeriods[i] \in Nat \ {0}
  BY <1>1, <1>2, ElementOfSeq
<1>4. \A p \in FilePeriods : PeriodOf(p) \in Nat \ {0}
  BY <1>1 DEF PeriodOf
<1>5. \A i \in DOMAIN DefaultPeriods : PeriodOf(DefaultPeriods[i]) = DefaultPeriods[i]
  BY <1>3 DEF PeriodOf
<1>6. PeriodsUsed \subseteq Nat \ {0}
  BY <1>3, <1>4 DEF PeriodsUsed
<1>7. MaxWait \in PeriodsUsed /\ \A q \in PeriodsUsed : q <= MaxWait
  BY PeriodsAssumption DEF MaxWait
<1>8. \A p \in Periods : PeriodOf(p) \in PeriodsUsed
  BY <1>5 DEF Periods, PeriodsUsed
<1>9. \A p \in Periods : PeriodOf(p) \in 1..MaxWait
  <2>1. \A q \in PeriodsUsed : q \in Nat \ {0} /\ q <= MaxWait
    BY <1>6, <1>7
  <2>2. MaxWait \in Nat
    BY <1>6, <1>7
  <2>3. \A q \in PeriodsUsed : q \in 1..MaxWait
    BY <2>1, <2>2
  <2>4. QED
    BY <1>8, <2>3
<1>10. Periods \subseteq Nat
  BY <1>1, <1>3 DEF Periods
<1>11. TableMax \in Nat /\ SensorMax <= TableMax
  BY <1>1, <1>2 DEF TableMax
<1>12. QED
  BY <1>1, <1>2, <1>6, <1>7, <1>9, <1>10, <1>11 DEF Periods

(* The loop over the items of a file fills the table up to its size. *)
LEMMA ItemsKeepTable ==
  ASSUME snSensors \in FreshTables, NEW n \in Nat, NEW items \in [1..n -> Item]
  PROVE  WithItems(items) \in FreshTables
<1> DEFINE Skipped(k, t) == ~items[k].known \/ Len(t) >= SensorMax
           Added(k, t) == Append(t, Sensor(~items[k].onDash, items[k].period))
           Body(g) == [k \in 0..n |-> IF k = 0 THEN snSensors
                                      ELSE IF Skipped(k, g[k - 1]) THEN g[k - 1]
                                      ELSE Added(k, g[k - 1])]
           table == CHOOSE g : g = Body(g)
           step == [k \in 1..n |-> [t \in FreshTables |->
                      IF Skipped(k, t) THEN t ELSE Added(k, t)]]
<1>1. items \in Seq(Item) /\ Len(items) = n
  OBVIOUS
<1>2. WithItems(items) = table[n]
  BY <1>1 DEF WithItems
<1>3. ASSUME NEW k \in 1..n, NEW t \in FreshTables, ~Skipped(k, t)
      PROVE  Added(k, t) \in FreshTables
  <2>1. items[k] \in Item
    OBVIOUS
  <2>2. Sensor(~items[k].onDash, items[k].period) \in FreshEntry
    BY <2>1, SensorConstants DEF Item, Sensor, FreshEntry
  <2>3. t \in Seq(FreshEntry) /\ Len(t) \in Nat /\ ~(Len(t) >= SensorMax)
    BY <1>3, LenProperties DEF FreshTables
  <2>4. Added(k, t) \in Seq(FreshEntry) /\ Len(Added(k, t)) = Len(t) + 1
    BY <2>2, <2>3, AppendProperties
  <2> HIDE DEF Added, Skipped
  <2>5. QED
    BY <2>3, <2>4, SensorConstants DEF FreshTables
<1> HIDE DEF Skipped, Added
<1>4. step \in [1..n -> [FreshTables -> FreshTables]]
  BY <1>3
<1>5. PICK g \in [0..n -> FreshTables] : g[0] = snSensors /\ \A k \in 1..n : g[k] = step[k][g[k-1]]
  <2> HIDE DEF step
  <2>1. \E g : IsRun(g, FreshTables, snSensors, n, step)
    BY <1>4, Recursion
  <2>2. QED
    BY <2>1 DEF IsRun
<1>6. g = Body(g)
  <2>1. \A k \in 1..n : g[k-1] \in FreshTables
    BY <1>5
  <2>2. \A k \in 1..n : g[k] = IF Skipped(k, g[k - 1]) THEN g[k - 1] ELSE Added(k, g[k - 1])
    BY <1>5, <2>1
  <2>3. \A k \in 0..n : k # 0 => k \in 1..n
    OBVIOUS
  <2>4. \A k \in 0..n : g[k] = IF k = 0 THEN snSensors
                               ELSE IF Skipped(k, g[k - 1]) THEN g[k - 1]
                               ELSE Added(k, g[k - 1])
    BY <1>5, <2>2, <2>3
  <2>5. QED
    BY <1>5, <2>4
<1>7. table = Body(table)
  <2> HIDE DEF Body
  <2>1. QED
    BY <1>6
<1>8. table[n] \in FreshTables
  <2> DEFINE T == {k \in 0..n : table[k] \in FreshTables}
  <2>0. \A k \in 0..n : table[k] = IF k = 0 THEN snSensors
                                   ELSE IF Skipped(k, table[k - 1]) THEN table[k - 1]
                                   ELSE Added(k, table[k - 1])
    <3> HIDE DEF table
    <3>1. QED
      BY <1>7
  <2> HIDE DEF table
  <2>1. 0 \in T
    BY <2>0
  <2>2. ASSUME NEW k \in 1..n, k - 1 \in T
        PROVE  k \in T
    BY <1>3, <2>0, <2>2
  <2>3. n \in T
    <3> HIDE DEF T
    <3>1. \A k \in 0..n : k \in T
      BY <2>1, <2>2, Induction
    <3>2. QED
      BY <3>1
  <2>4. QED
    BY <2>3
<1>9. QED
  BY <1>2, <1>8

LEMMA FreshIsTable ==
  /\ FreshTables \subseteq LoadedTables /\ LoadedTables \subseteq Tables
  /\ \A t \in LoadedTables : \A i \in DOMAIN t :
       /\ t[i].named \in BOOLEAN /\ t[i].wait = 0 /\ PeriodOf(t[i].period) \in 1..MaxWait
  /\ <<>> \in FreshTables
<1>1. FreshEntry \subseteq TableEntry
  BY SensorConstants DEF FreshEntry, TableEntry
<1>2. Seq(FreshEntry) \subseteq Seq(TableEntry)
  BY <1>1, SeqMonotonic
<1>3. LoadedTables \subseteq Tables
  BY <1>2 DEF LoadedTables, Tables
<1>4. ASSUME NEW t \in LoadedTables, NEW i \in DOMAIN t
      PROVE  t[i].named \in BOOLEAN /\ t[i].wait = 0 /\ PeriodOf(t[i].period) \in 1..MaxWait
  <2>1. t[i] \in FreshEntry
    BY <1>4, LenProperties, ElementOfSeq DEF LoadedTables
  <2>2. QED
    BY <2>1, SensorConstants DEF FreshEntry
<1>5. <<>> \in FreshTables
  BY SensorConstants, EmptySeq DEF FreshTables
<1>6. ASSUME NEW t \in FreshTables
      PROVE  t \in LoadedTables
  <2>1. t \in Seq(FreshEntry) /\ Len(t) \in Nat /\ Len(t) <= SensorMax
    BY LenProperties DEF FreshTables
  <2>2. QED
    BY <2>1, SensorConstants DEF LoadedTables
<1>7. QED
  BY <1>3, <1>4, <1>5, <1>6

(* A table just loaded satisfies the invariant. *)
LEMMA LoadedInv ==
  ASSUME snSensors' \in LoadedTables, snRead' = [i \in DOMAIN snSensors' |-> MaxWait],
         snStep' \in {"ready", "failed"}, snStep' = "failed" => snSensors' \in FreshTables
  PROVE  SnInv'
<1>1. snRead' \in [DOMAIN snSensors' -> 0..MaxWait]
  BY SensorConstants
<1>2. \A i \in DOMAIN snSensors' :
        /\ snSensors'[i].named \in BOOLEAN /\ snRead'[i] = MaxWait /\ snSensors'[i].wait = 0
        /\ PeriodOf(snSensors'[i].period) \in 1..MaxWait
  BY FreshIsTable
<1>3. /\ snSensors' \in Tables
      /\ Len(snSensors') <= SensorMax + (IF snStep' = "ready" THEN Len(DefaultPeriods) ELSE 0)
  <2>1. snSensors' \in Tables /\ Len(snSensors') <= TableMax
    BY FreshIsTable DEF LoadedTables
  <2>2. snStep' = "failed" => Len(snSensors') <= SensorMax
    BY DEF FreshTables
  <2>3. SensorMax + 0 = SensorMax
    BY SensorConstants
  <2>4. QED
    BY <2>1, <2>2, <2>3 DEF TableMax
<1>4. ASSUME NEW i \in DOMAIN snSensors'
      PROVE  /\ snSensors'[i].named \in BOOLEAN
             /\ snRead'[i] \in 0..MaxWait
             /\ snSensors'[i].wait =
                  IF snRead'[i] < PeriodOf(snSensors'[i].period)
                  THEN PeriodOf(snSensors'[i].period) - snRead'[i] ELSE 0
  BY <1>2, SensorConstants
<1>5. DOMAIN snRead' = DOMAIN snSensors'
  BY <1>1
<1>6. SnTypeOK'
  BY <1>3, <1>4, <1>5 DEF SnTypeOK, PeriodOf
<1>7. QED
  BY <1>1, <1>3, <1>6 DEF SnInv

LEMMA SnInvStep ==
  ASSUME SnInv, SnNext
  PROVE  SnInv'
<1>1. CASE SensorsInitialize
  <2>1. snSensors' = <<>> /\ snRead' = <<>> /\ snStep' = "empty"
    BY <1>1 DEF SensorsInitialize
  <2>2. Len(<<>>) = 0 /\ DOMAIN <<>> = {} /\ <<>> \in [{} -> 0..MaxWait]
    OBVIOUS
  <2>3. <<>> \in Tables
    BY FreshIsTable
  <2>4. SnTypeOK'
    BY <2>1, <2>2, SensorConstants DEF SnTypeOK
  <2>5. QED
    BY <2>1, <2>2, <2>3, <2>4 DEF SnInv
<1>2. ASSUME NEW n \in 0..FileMax, NEW items \in [1..n -> Item],
             NEW opens \in BOOLEAN, NEW closes \in BOOLEAN, LoadYaml(items, opens, closes)
      PROVE  SnInv'
  <2>1. snSensors = <<>> /\ snSensors \in FreshTables /\ n \in Nat
    BY <1>2, FreshIsTable, SensorConstants DEF LoadYaml, SnInv
  <2>2. snSensors' \in FreshTables
    BY <1>2, <2>1, ItemsKeepTable DEF LoadYaml
  <2>3. snSensors' \in LoadedTables
    BY <2>2, FreshIsTable
  <2>4. snStep' \in {"ready", "failed"} /\ snRead' = [i \in DOMAIN snSensors' |-> MaxWait]
    BY <1>2 DEF LoadYaml
  <2>5. QED
    BY <2>2, <2>3, <2>4, LoadedInv
<1>3. CASE LoadDefaults
  <2> DEFINE defaults == [i \in DOMAIN DefaultPeriods |-> Sensor(TRUE, DefaultPeriods[i])]
  <2>1. defaults \in Seq(FreshEntry) /\ Len(defaults) = Len(DefaultPeriods)
    <3>1. \A i \in 1..Len(DefaultPeriods) : Sensor(TRUE, DefaultPeriods[i]) \in FreshEntry
      BY SensorConstants DEF Sensor, FreshEntry
    <3>2. defaults \in [1..Len(DefaultPeriods) -> FreshEntry] /\ Len(DefaultPeriods) \in Nat
      BY <3>1, SensorConstants
    <3> HIDE DEF defaults
    <3>3. defaults \in Seq(FreshEntry)
      BY <3>2
    <3>4. QED
      BY <3>2, <3>3, LenProperties
  <2> HIDE DEF defaults
  <2>2. snSensors \in Seq(FreshEntry) /\ Len(snSensors) \in Nat /\ Len(snSensors) <= SensorMax
    BY <1>3, LenProperties DEF LoadDefaults, SnInv, FreshTables
  <2>3. snSensors' = snSensors \o defaults
    BY <1>3 DEF LoadDefaults, defaults
  <2>4. snSensors' \in LoadedTables
    <3>1. /\ snSensors \o defaults \in Seq(FreshEntry)
          /\ Len(snSensors \o defaults) = Len(snSensors) + Len(defaults)
      BY <2>1, <2>2, ConcatProperties, Zenon
    <3>2. Len(snSensors \o defaults) <= TableMax
      BY <2>1, <2>2, <3>1, SensorConstants DEF TableMax
    <3>3. QED
      BY <2>3, <3>1, <3>2, Zenon DEF LoadedTables
  <2>5. QED
    BY <1>3, <2>4, LoadedInv DEF LoadDefaults
<1>4. ASSUME snStep' = snStep, snStep = "ready", snSensors' \in [DOMAIN snSensors -> TableEntry],
             snRead' \in [DOMAIN snSensors -> 0..MaxWait],
             \A i \in DOMAIN snSensors :
               snSensors'[i].wait = IF snRead'[i] < PeriodOf(snSensors'[i].period)
                                    THEN PeriodOf(snSensors'[i].period) - snRead'[i] ELSE 0
      PROVE  SnInv'
  <2>1. snSensors \in Seq(TableEntry) /\ Len(snSensors) <= TableMax
    BY DEF SnInv, Tables
  <2>2. DOMAIN snSensors = 1..Len(snSensors) /\ Len(snSensors) \in Nat
    BY <2>1, LenProperties
  <2>3. snSensors' \in Seq(TableEntry) /\ Len(snSensors') = Len(snSensors)
        /\ DOMAIN snSensors' = DOMAIN snSensors
    BY <1>4, <2>2
  <2>4. snSensors' \in Tables
    BY <2>1, <2>3 DEF Tables
  <2>5. \A i \in DOMAIN snSensors : snSensors'[i].named \in BOOLEAN
    BY <1>4 DEF TableEntry
  <2>6. SnTypeOK'
    BY <1>4, <2>1, <2>3, <2>5 DEF SnTypeOK, PeriodOf, TableMax
  <2>7. QED
    BY <1>4, <2>3, <2>4, <2>6 DEF SnInv
<1>5. /\ \A i \in DOMAIN snSensors :
           /\ snSensors[i] \in TableEntry /\ snRead[i] \in 0..MaxWait
           /\ PeriodOf(snSensors[i].period) \in 1..MaxWait
           /\ snSensors[i].wait =
                IF snRead[i] < PeriodOf(snSensors[i].period)
                THEN PeriodOf(snSensors[i].period) - snRead[i] ELSE 0
      /\ DOMAIN snRead = DOMAIN snSensors
  <2>1. snSensors \in Seq(TableEntry)
    BY DEF SnInv, Tables
  <2>2. \A i \in DOMAIN snSensors : snSensors[i] \in TableEntry
    BY <2>1, LenProperties, ElementOfSeq
  <2>3. \A i \in DOMAIN snSensors : PeriodOf(snSensors[i].period) \in 1..MaxWait
    BY <2>2, SensorConstants DEF TableEntry
  <2>4. QED
    BY <2>2, <2>3 DEF SnInv, SnTypeOK
<1>6. CASE Poll
  <2>1. ASSUME NEW i \in DOMAIN snSensors
        PROVE  /\ snSensors'[i] \in TableEntry /\ snRead'[i] \in 0..MaxWait
               /\ snSensors'[i].wait =
                    IF snRead'[i] < PeriodOf(snSensors'[i].period)
                    THEN PeriodOf(snSensors'[i].period) - snRead'[i] ELSE 0
    <3>1. CASE snSensors[i].wait = 0
      <4>1. snSensors'[i] = [snSensors[i] EXCEPT !.wait = PeriodOf(snSensors[i].period)]
            /\ snRead'[i] = 0
        BY <1>6, <3>1 DEF Poll
      <4>2. snSensors[i] \in TableEntry /\ PeriodOf(snSensors[i].period) \in 1..MaxWait
        BY <1>5
      <4>3. MaxWait \in Nat
        BY SensorConstants
      <4> DEFINE p == PeriodOf(snSensors[i].period)
      <4>4. snSensors'[i] \in TableEntry /\ snSensors'[i].period = snSensors[i].period
            /\ snSensors'[i].wait = p
        BY <4>1, <4>2, <4>3 DEF TableEntry
      <4>5. PeriodOf(snSensors'[i].period) = p
        BY <4>4
      <4> HIDE DEF p
      <4>6. p \in 1..MaxWait
        BY <4>2 DEF p
      <4>7. QED
        BY <4>1, <4>3, <4>4, <4>5, <4>6
    <3>2. CASE snSensors[i].wait # 0
      BY <1>5, <1>6, <3>2 DEF Poll
    <3>3. QED
      BY <3>1, <3>2
  <2>2. snSensors' = [i \in DOMAIN snSensors |-> snSensors'[i]]
        /\ snRead' = [i \in DOMAIN snSensors |-> snRead'[i]]
    BY <1>6 DEF Poll
  <2>3. snSensors' \in [DOMAIN snSensors -> TableEntry]
        /\ snRead' \in [DOMAIN snSensors -> 0..MaxWait]
    BY <2>1, <2>2
  <2>4. QED
    BY <1>4, <1>6, <2>1, <2>3 DEF Poll
<1>7. CASE SensorsTick
  <2>1. ASSUME NEW i \in DOMAIN snSensors
        PROVE  /\ snSensors'[i] \in TableEntry /\ snRead'[i] \in 0..MaxWait
               /\ snSensors'[i].wait =
                    IF snRead'[i] < PeriodOf(snSensors'[i].period)
                    THEN PeriodOf(snSensors'[i].period) - snRead'[i] ELSE 0
    <3> DEFINE p == PeriodOf(snSensors[i].period)
               w == snSensors[i].wait
    <3>1. /\ snSensors[i] \in TableEntry /\ p \in 1..MaxWait /\ snRead[i] \in 0..MaxWait
          /\ w = IF snRead[i] < p THEN p - snRead[i] ELSE 0
          /\ MaxWait \in Nat /\ w \in 0..MaxWait
      BY <1>5, SensorConstants DEF TableEntry
    <3>2. /\ snSensors'[i] = [snSensors[i] EXCEPT !.wait = IF w > 0 THEN w - 1 ELSE 0]
          /\ snRead'[i] = IF snRead[i] < MaxWait THEN snRead[i] + 1 ELSE MaxWait
      BY <1>5, <1>7 DEF SensorsTick
    <3>3. (IF w > 0 THEN w - 1 ELSE 0) \in 0..MaxWait
      BY <3>1
    <3>4. snSensors'[i] \in TableEntry /\ snSensors'[i].period = snSensors[i].period
          /\ snSensors'[i].wait = IF w > 0 THEN w - 1 ELSE 0
      BY <3>1, <3>2, <3>3 DEF TableEntry
    <3>5. PeriodOf(snSensors'[i].period) = p
      BY <3>4
    <3> HIDE DEF p, w
    <3>6. QED
      BY <3>1, <3>2, <3>4, <3>5
  <2>2. snSensors' = [i \in DOMAIN snSensors |-> snSensors'[i]]
        /\ snRead' = [i \in DOMAIN snSensors |-> snRead'[i]]
    BY <1>5, <1>7 DEF SensorsTick
  <2>3. snSensors' \in [DOMAIN snSensors -> TableEntry]
        /\ snRead' \in [DOMAIN snSensors -> 0..MaxWait]
    BY <2>1, <2>2
  <2>4. QED
    BY <1>4, <1>7, <2>1, <2>3 DEF SensorsTick
<1>8. QED
  BY <1>1, <1>2, <1>3, <1>6, <1>7 DEF SnNext

-----------------------------------------------------------------------------
(* Strings.  What the copying loop has done after k steps, of n at most:   *)
(* nothing outside what it has copied, of which no byte is 0; it stops at  *)
(* a byte that is 0.  If the source begins at or after the buffer or ends  *)
(* before it, what is copied is the source, up to its end at most.         *)
CopyState(n) == [memory : Memory, count : 0..n]

Clean(mem, d, s) == d <= s \/ \E e \in s..(d - 1) : mem[e] = 0

Copying(mem, d, s, k, r) ==
  /\ r.count <= k
  /\ \A a \in Address : a \notin d..(d + r.count - 1) => r.memory[a] = mem[a]
  /\ \A j \in 0..(r.count - 1) : r.memory[d + j] # 0
  /\ r.count < k => s + r.count \in Address /\ r.memory[s + r.count] = 0
  /\ Clean(mem, d, s) =>
       \A j \in 0..(r.count - 1) :
         s + j \in Address /\ mem[s + j] # 0 /\ r.memory[d + j] = mem[s + j]

(* One step of the loop, the i-th, made from within the memory. *)
CopyStep(d, s, i, r) ==
  IF r.count < i - 1 \/ r.memory[s + i - 1] = 0 THEN r
  ELSE [memory |-> [r.memory EXCEPT ![d + i - 1] = r.memory[s + i - 1]], count |-> i]

LEMMA MemoryConstants == MemorySize \in Nat \ {0} /\ {0, 1} \subseteq Byte /\ Byte \subseteq Nat
  BY StringAssumption

(* The next byte of a source that has not ended is a byte of the memory,   *)
(* and in the clean case it has not been overwritten.                      *)
LEMMA NextByte ==
  ASSUME NEW mem \in Memory, NEW d \in Address, NEW s \in Address, NEW n \in Nat,
         d + n < MemorySize, Ends(mem, s), NEW i \in 1..n, NEW r \in CopyState(n),
         Copying(mem, d, s, i - 1, r), r.count = i - 1
  PROVE  /\ s + i - 1 \in Address
         /\ Clean(mem, d, s) => r.memory[s + i - 1] = mem[s + i - 1]
<1>1. MemorySize \in Nat \ {0} /\ Address = 0..(MemorySize - 1)
  BY MemoryConstants DEF Address
<1>2. PICK e \in s..(MemorySize - 1) : mem[e] = 0
  BY DEF Ends
<1>3. CASE Clean(mem, d, s)
  <2>1. \A j \in 0..(i - 2) : mem[s + j] # 0
    BY <1>3 DEF Copying
  <2>2. \A f \in s..(MemorySize - 1) : mem[f] = 0 => s + i - 1 <= f
    <3>1. ASSUME NEW f \in s..(MemorySize - 1), mem[f] = 0, ~(s + i - 1 <= f)
          PROVE  FALSE
      <4>1. f - s \in 0..(i - 2) /\ s + (f - s) = f
        BY <1>1, <3>1
      <4>2. mem[s + (f - s)] # 0
        BY <2>1, <4>1
      <4>3. QED
        BY <3>1, <4>1, <4>2
    <3>2. QED
      BY <3>1
  <2>3. s + i - 1 \in Address
    BY <1>1, <1>2, <2>2
  <2>4. s + i - 1 \notin d..(d + r.count - 1)
    <3>1. CASE d <= s
      BY <1>1, <3>1
    <3>2. CASE \E f \in s..(d - 1) : mem[f] = 0
      <4>1. PICK f \in s..(d - 1) : mem[f] = 0
        BY <3>2
      <4>2. f \in s..(MemorySize - 1)
        BY <1>1, <4>1
      <4>3. s + i - 1 <= f
        BY <2>2, <4>1, <4>2
      <4>4. QED
        BY <1>1, <4>1, <4>3
    <3>3. QED
      BY <1>3, <3>1, <3>2 DEF Clean
  <2>5. QED
    BY <2>3, <2>4 DEF Copying
<1>4. CASE ~Clean(mem, d, s)
  BY <1>1, <1>4 DEF Clean
<1>5. QED
  BY <1>3, <1>4

LEMMA CopyStepKeeps ==
  ASSUME NEW mem \in Memory, NEW d \in Address, NEW s \in Address, NEW n \in Nat,
         d + n < MemorySize, Ends(mem, s), NEW i \in 1..n, NEW r \in CopyState(n),
         Copying(mem, d, s, i - 1, r)
  PROVE  CopyStep(d, s, i, r) \in CopyState(n) /\ Copying(mem, d, s, i, CopyStep(d, s, i, r))
<1>1. MemorySize \in Nat \ {0} /\ Address = 0..(MemorySize - 1)
  BY MemoryConstants DEF Address
<1>2. r.memory \in Memory /\ r.count \in 0..n /\ r.count <= i - 1
  BY DEF CopyState, Copying
<1>3. CASE r.count < i - 1
  <2>1. CopyStep(d, s, i, r) = r
    BY <1>3 DEF CopyStep
  <2>2. r.count <= i /\ r.count < i
    BY <1>2, <1>3
  <2>3. QED
    BY <1>3, <2>1, <2>2 DEF Copying
<1>4. CASE r.count = i - 1 /\ r.memory[s + i - 1] = 0
  <2>1. CopyStep(d, s, i, r) = r
    BY <1>4 DEF CopyStep
  <2>2. s + i - 1 \in Address /\ s + r.count = s + i - 1
    BY <1>1, <1>4, NextByte
  <2>3. r.count <= i /\ r.count < i
    BY <1>2, <1>4
  <2>4. QED
    BY <1>4, <2>1, <2>2, <2>3 DEF Copying
<1>5. CASE r.count = i - 1 /\ r.memory[s + i - 1] # 0
  <2> DEFINE b == r.memory[s + i - 1]
             new == [r.memory EXCEPT ![d + i - 1] = b]
             q == [memory |-> new, count |-> i]
  <2>1. CopyStep(d, s, i, r) = q
    BY <1>2, <1>5 DEF CopyStep
  <2>2. s + i - 1 \in Address /\ (Clean(mem, d, s) => b = mem[s + i - 1])
    BY <1>5, NextByte
  <2>3. b \in Byte /\ b # 0 /\ d + i - 1 \in Address
    BY <1>1, <1>2, <1>5, <2>2 DEF Memory
  <2> HIDE DEF b
  <2>4. new \in Memory /\ new[d + i - 1] = b
        /\ \A a \in Address : a # d + i - 1 => new[a] = r.memory[a]
    BY <1>2, <2>3 DEF Memory
  <2> HIDE DEF new
  <2>5. q \in CopyState(n)
    BY <2>4 DEF CopyState
  <2>6. q.memory = new /\ q.count = i
    OBVIOUS
  <2>7. \A a \in Address : a \notin d..(d + i - 1) => new[a] = mem[a]
    <3>1. ASSUME NEW a \in Address, a \notin d..(d + i - 1)
          PROVE  new[a] = mem[a]
      <4>1. a # d + i - 1 /\ a \notin d..(d + r.count - 1)
        BY <1>1, <1>5, <3>1
      <4>2. QED
        BY <2>4, <4>1 DEF Copying
    <3>2. QED
      BY <3>1
  <2>8. \A j \in 0..(i - 1) : j = i - 1 \/ (j \in 0..(r.count - 1) /\ d + j \in Address /\ d + j # d + i - 1)
    BY <1>1, <1>2, <1>5, <2>3
  <2>9. \A j \in 0..(i - 1) : new[d + j] # 0
    <3>1. \A j \in 0..(r.count - 1) : r.memory[d + j] # 0
      BY DEF Copying
    <3>2. new[d + (i - 1)] # 0
      <4>1. d + (i - 1) = d + i - 1
        BY <1>1
      <4>2. QED
        BY <2>3, <2>4, <4>1
    <3>3. QED
      BY <2>4, <2>8, <3>1, <3>2
  <2>10. ASSUME Clean(mem, d, s), NEW j \in 0..(i - 1)
         PROVE  s + j \in Address /\ mem[s + j] # 0 /\ new[d + j] = mem[s + j]
    <3>1. CASE j = i - 1
      <4>1. d + j = d + i - 1 /\ s + j = s + i - 1
        BY <1>1, <3>1
      <4>2. QED
        BY <2>2, <2>3, <2>4, <2>10, <4>1
    <3>2. CASE j \in 0..(r.count - 1) /\ d + j \in Address /\ d + j # d + i - 1
      BY <2>4, <2>10, <3>2 DEF Copying
    <3>3. QED
      BY <2>8, <3>1, <3>2
  <2> HIDE DEF q
  <2>11. Copying(mem, d, s, i, q)
    BY <2>6, <2>7, <2>9, <2>10 DEF Copying
  <2>12. QED
    BY <2>1, <2>5, <2>11
<1>6. QED
  BY <1>2, <1>3, <1>4, <1>5

(* Copied is what such a loop leaves, with a terminator. *)
LEMMA CopiedIs ==
  ASSUME NEW mem \in Memory, NEW d \in Address, NEW s \in Address, NEW n \in Nat,
         d + n < MemorySize, Ends(mem, s)
  PROVE  \E r \in CopyState(n) :
           /\ Copying(mem, d, s, n, r)
           /\ Copied(mem, d, s, n) = [r EXCEPT !.memory = [@ EXCEPT ![d + r.count] = 0]]
<1> DEFINE start == [memory |-> mem, count |-> 0]
           Body(g) == [i \in 0..n |-> IF i = 0 THEN start ELSE CopyStep(d, s, i, g[i - 1])]
           run == CHOOSE g : g = Body(g)
           S == CopyState(n)
           Good(k) == {r \in S : Copying(mem, d, s, k, r)}
           step == [i \in 1..n |-> [r \in S |->
                      IF r \in Good(i - 1) THEN CopyStep(d, s, i, r) ELSE r]]
<1>1. Copied(mem, d, s, n) = [run[n] EXCEPT !.memory = [@ EXCEPT ![d + run[n].count] = 0]]
  BY DEF Copied, CopyStep
<1>2. start \in Good(0)
  <2>1. start \in S
    BY DEF CopyState
  <2>2. start.count = 0 /\ start.memory = mem
    OBVIOUS
  <2> HIDE DEF start
  <2>3. \A j \in 0..(0 - 1) : FALSE
    OBVIOUS
  <2>4. Copying(mem, d, s, 0, start)
    BY <2>2, <2>3 DEF Copying
  <2>5. QED
    BY <2>1, <2>4
<1>3. \A i \in 1..n : \A r \in Good(i - 1) : CopyStep(d, s, i, r) \in Good(i)
  BY CopyStepKeeps
<1> HIDE DEF start
<1>4. \A k \in 0..n : Good(k) \subseteq S
  OBVIOUS
<1> HIDE DEF Good, S
<1>5. step \in [1..n -> [S -> S]] /\ start \in S
  <2>1. \A i \in 1..n : \A r \in S : (IF r \in Good(i - 1) THEN CopyStep(d, s, i, r) ELSE r) \in S
    BY <1>3, <1>4
  <2>2. start \in S
    BY <1>2, <1>4
  <2>3. QED
    BY <2>1, <2>2
<1>6. PICK g : IsRun(g, S, start, n, step)
  <2> HIDE DEF step
  <2>1. QED
    BY <1>5, Recursion
<1>7. g \in [0..n -> S] /\ g[0] = start
      /\ \A k \in 1..n : g[k] = IF g[k-1] \in Good(k - 1) THEN CopyStep(d, s, k, g[k-1]) ELSE g[k-1]
  <2>1. g \in [0..n -> S] /\ g[0] = start /\ \A k \in 1..n : g[k] = step[k][g[k-1]]
    BY <1>6 DEF IsRun
  <2>2. \A k \in 1..n : g[k-1] \in S
    BY <2>1
  <2>3. QED
    BY <2>1, <2>2
<1> HIDE DEF step
<1>8. \A k \in 0..n : g[k] \in Good(k)
  <2> DEFINE T == {k \in 0..n : g[k] \in Good(k)}
  <2>1. 0 \in T
    BY <1>2, <1>7
  <2>2. ASSUME NEW k \in 1..n, k - 1 \in T
        PROVE  k \in T
    BY <1>3, <1>7, <2>2
  <2>3. \A k \in 0..n : k \in T
    <3> HIDE DEF T
    <3>1. QED
      BY <2>1, <2>2, Induction
  <2>4. QED
    BY <2>3
<1>9. \A k \in 1..n : g[k] = CopyStep(d, s, k, g[k - 1])
  <2>1. \A k \in 1..n : k - 1 \in 0..n
    OBVIOUS
  <2>2. QED
    BY <1>7, <1>8, <2>1
<1>10. g = Body(g)
  <2>1. \A k \in 0..n : k # 0 => k \in 1..n
    OBVIOUS
  <2>2. \A k \in 0..n : g[k] = IF k = 0 THEN start ELSE CopyStep(d, s, k, g[k - 1])
    BY <1>7, <1>9, <2>1
  <2>3. QED
    BY <1>7, <2>2
<1>11. run = Body(run)
  <2> HIDE DEF Body
  <2>1. QED
    BY <1>10
<1>12. \A k \in 0..n : run[k] = g[k]
  <2> DEFINE T == {k \in 0..n : run[k] = g[k]}
  <2>0. \A k \in 0..n : run[k] = IF k = 0 THEN start ELSE CopyStep(d, s, k, run[k - 1])
    <3> HIDE DEF run
    <3>1. QED
      BY <1>11
  <2> HIDE DEF run
  <2>1. 0 \in T
    BY <1>7, <2>0
  <2>2. ASSUME NEW k \in 1..n, k - 1 \in T
        PROVE  k \in T
    BY <1>9, <2>0, <2>2
  <2>3. \A k \in 0..n : k \in T
    <3> HIDE DEF T
    <3>1. QED
      BY <2>1, <2>2, Induction
  <2>4. QED
    BY <2>3
<1>13. run[n] \in CopyState(n) /\ Copying(mem, d, s, n, run[n])
  BY <1>8, <1>12 DEF Good, S
<1> HIDE DEF run
<1>14. QED
  BY <1>1, <1>13

(* The same with the terminator: what changes lies in the buffer, and in   *)
(* the clean case the loop has copied the source to its end or to n bytes. *)
LEMMA CopiedEffect ==
  ASSUME NEW mem \in Memory, NEW d \in Address, NEW s \in Address, NEW n \in Nat,
         d + n < MemorySize, Ends(mem, s)
  PROVE  LET r == Copied(mem, d, s, n)
         IN  /\ r.memory \in Memory /\ r.count \in 0..n
             /\ \A a \in Address : a \notin d..(d + r.count) => r.memory[a] = mem[a]
             /\ d + r.count \in Address /\ r.memory[d + r.count] = 0
             /\ Clean(mem, d, s) =>
                  /\ \A j \in 0..(r.count - 1) :
                       s + j \in Address /\ mem[s + j] # 0 /\ r.memory[d + j] = mem[s + j]
                  /\ r.count < n => s + r.count \in Address /\ mem[s + r.count] = 0
<1> DEFINE c == Copied(mem, d, s, n)
<1>1. MemorySize \in Nat \ {0} /\ Address = 0..(MemorySize - 1) /\ 0 \in Byte
  BY MemoryConstants DEF Address
<1>2. PICK r \in CopyState(n) :
        /\ Copying(mem, d, s, n, r)
        /\ c = [r EXCEPT !.memory = [@ EXCEPT ![d + r.count] = 0]]
  BY CopiedIs
<1>3. r.memory \in Memory /\ r.count \in 0..n
  BY DEF CopyState
<1>4. c.count = r.count /\ c.memory = [r.memory EXCEPT ![d + r.count] = 0]
  BY <1>2 DEF CopyState
<1> HIDE DEF c
<1>5. d + r.count \in Address
  BY <1>1, <1>3
<1>6. /\ c.memory \in Memory /\ c.memory[d + r.count] = 0
      /\ \A a \in Address : a # d + r.count => c.memory[a] = r.memory[a]
  BY <1>1, <1>3, <1>4, <1>5 DEF Memory
<1>7. ASSUME NEW a \in Address, a \notin d..(d + r.count)
      PROVE  c.memory[a] = mem[a]
  <2>1. a \notin d..(d + r.count - 1) /\ a # d + r.count
    BY <1>1, <1>3, <1>7
  <2>2. QED
    BY <1>2, <1>6, <2>1 DEF Copying
<1>8. ASSUME Clean(mem, d, s)
      PROVE  /\ \A j \in 0..(r.count - 1) :
                  s + j \in Address /\ mem[s + j] # 0 /\ c.memory[d + j] = mem[s + j]
             /\ r.count < n => s + r.count \in Address /\ mem[s + r.count] = 0
  <2>1. \A j \in 0..(r.count - 1) :
          s + j \in Address /\ mem[s + j] # 0 /\ r.memory[d + j] = mem[s + j]
    BY <1>2, <1>8 DEF Copying
  <2>2. \A j \in 0..(r.count - 1) : d + j \in Address /\ d + j # d + r.count
    BY <1>1, <1>3, <1>5
  <2>3. r.count < n => s + r.count \in Address /\ r.memory[s + r.count] = 0
    BY <1>2 DEF Copying
  <2>4. ASSUME r.count < n
        PROVE  s + r.count \notin d..(d + r.count - 1)
    <3>1. CASE d <= s
      BY <1>1, <1>3, <3>1
    <3>2. CASE \E e \in s..(d - 1) : mem[e] = 0
      <4>1. PICK e \in s..(d - 1) : mem[e] = 0
        BY <3>2
      <4>2. ~(e < s + r.count)
        <5>1. SUFFICES ASSUME e < s + r.count
                       PROVE  FALSE
          OBVIOUS
        <5>2. e - s \in 0..(r.count - 1) /\ s + (e - s) = e
          BY <1>1, <1>3, <4>1, <5>1
        <5>3. mem[s + (e - s)] # 0
          BY <2>1, <5>2
        <5>4. QED
          BY <4>1, <5>2, <5>3
      <4>3. QED
        BY <1>1, <1>3, <4>1, <4>2
    <3>3. QED
      BY <1>8, <3>1, <3>2 DEF Clean
  <2>5. r.count < n => mem[s + r.count] = 0
    BY <1>2, <2>3, <2>4 DEF Copying
  <2>6. QED
    BY <1>6, <2>1, <2>2, <2>3, <2>5
<1>9. QED
  BY <1>3, <1>4, <1>5, <1>6, <1>7, <1>8 DEF c

(* The length of a string, from its position. *)
LEMMA LengthIs ==
  ASSUME NEW mem \in Memory, NEW s \in Address, Ends(mem, s)
  PROVE  /\ LengthOf(mem, s) \in 0..(MemorySize - s)
         /\ s + LengthOf(mem, s) \in Address
         /\ mem[s + LengthOf(mem, s)] = 0
         /\ \A i \in 0..(LengthOf(mem, s) - 1) : mem[s + i] # 0
<1>1. MemorySize \in Nat \ {0} /\ Address = 0..(MemorySize - 1)
  BY MemoryConstants DEF Address
<1> DEFINE T == {i \in 0..(MemorySize - 1 - s) : mem[s + i] = 0}
<1>2. T # {} /\ T \in SUBSET Nat
  <2>1. PICK e \in s..(MemorySize - 1) : mem[e] = 0
    BY DEF Ends
  <2>2. e - s \in 0..(MemorySize - 1 - s) /\ s + (e - s) = e
    BY <1>1, <2>1
  <2>3. e - s \in T
    BY <2>1, <2>2
  <2>4. T \in SUBSET Nat
    BY <1>1
  <2>5. QED
    BY <2>3, <2>4
<1>3. PICK x \in T : \A y \in T : x <= y
  <2> HIDE DEF T
  <2>1. QED
    BY <1>2, LeastNumber
<1>4. x \in 0..(MemorySize - s) /\ mem[s + x] = 0 /\ x \in 0..(MemorySize - 1 - s)
  BY <1>1, <1>3
<1>5. \A i \in 0..(x - 1) : mem[s + i] # 0
  <2>1. \A i \in 0..(x - 1) : i \in 0..(MemorySize - 1 - s) /\ ~(x <= i)
    BY <1>1, <1>4
  <2>2. \A i \in 0..(x - 1) : i \notin T
    <3> HIDE DEF T
    <3>1. QED
      BY <1>3, <2>1
  <2>3. QED
    BY <2>1, <2>2
<1> DEFINE n == LengthOf(mem, s)
<1>6. n \in 0..(MemorySize - s) /\ mem[s + n] = 0 /\ \A i \in 0..(n - 1) : mem[s + i] # 0
  BY <1>4, <1>5 DEF LengthOf
<1> HIDE DEF n, T
<1>7. n <= x
  <2>1. SUFFICES ASSUME x < n
                 PROVE  FALSE
    BY <1>1, <1>4, <1>6
  <2>2. x \in 0..(n - 1)
    BY <1>1, <1>4, <1>6, <2>1
  <2>3. QED
    BY <1>4, <1>6, <2>2
<1>8. s + n \in Address
  BY <1>1, <1>4, <1>6, <1>7
<1>9. QED
  BY <1>6, <1>8 DEF n

(* Nothing before the end of a string is its end. *)
LEMMA LengthBound ==
  ASSUME NEW mem \in Memory, NEW s \in Address, NEW n \in Nat, s + n \in Address, mem[s + n] = 0
  PROVE  Ends(mem, s) /\ LengthOf(mem, s) <= n
<1>1. MemorySize \in Nat \ {0} /\ Address = 0..(MemorySize - 1)
  BY MemoryConstants DEF Address
<1>2. Ends(mem, s)
  <2>1. s + n \in s..(MemorySize - 1)
    BY <1>1
  <2>2. QED
    BY <2>1 DEF Ends
<1> DEFINE l == LengthOf(mem, s)
<1>3. l \in 0..(MemorySize - s) /\ \A i \in 0..(l - 1) : mem[s + i] # 0
  BY <1>2, LengthIs
<1> HIDE DEF l
<1>4. l <= n
  <2>1. SUFFICES ASSUME n < l
                 PROVE  FALSE
    BY <1>1, <1>3
  <2>2. n \in 0..(l - 1)
    BY <1>1, <1>3, <2>1
  <2>3. QED
    BY <1>3, <2>2
<1>5. QED
  BY <1>2, <1>4 DEF l

(* Bytes moved in the right order are moved as if through a copy. *)
LEMMA InOrderIs ==
  ASSUME NEW mem \in Memory, NEW d \in Address, NEW s \in Address, d # s, NEW count \in Nat,
         d + count <= MemorySize, s + count <= MemorySize
  PROVE  InOrder(mem, d, s, count, d < s) = Moved(mem, d, s, count)
<1>1. MemorySize \in Nat \ {0} /\ Address = 0..(MemorySize - 1)
  BY MemoryConstants DEF Address
<1> DEFINE At(k) == IF d < s THEN k - 1 ELSE count - k
           Step(k, m) == [m EXCEPT ![d + At(k)] = m[s + At(k)]]
           Body(g) == [k \in 0..count |-> IF k = 0 THEN mem ELSE Step(k, g[k - 1])]
           run == CHOOSE g : g = Body(g)
           lo(k) == IF d < s THEN d ELSE d + count - k
           hi(k) == IF d < s THEN d + k - 1 ELSE d + count - 1
           moved(k) == [i \in Address |-> IF lo(k) <= i /\ i <= hi(k) THEN mem[s + i - d] ELSE mem[i]]
           g == [k \in 0..count |-> moved(k)]
<1>2. InOrder(mem, d, s, count, d < s) = run[count]
  BY DEF InOrder
<1>3. moved(0) = mem
  <2>1. \A i \in Address : ~(lo(0) <= i /\ i <= hi(0))
    BY <1>1
  <2> HIDE DEF lo, hi
  <2>2. QED
    BY <2>1 DEF Memory
<1>4. moved(count) = Moved(mem, d, s, count)
  <2>1. \A i \in Address : (lo(count) <= i /\ i <= hi(count)) <=> i \in d..(d + count - 1)
    BY <1>1
  <2> HIDE DEF lo, hi
  <2>2. QED
    BY <2>1 DEF Moved
<1>5. ASSUME NEW k \in 1..count
      PROVE  moved(k) = Step(k, moved(k - 1))
  <2>1. d + At(k) \in Address /\ s + At(k) \in Address /\ s + (d + At(k)) - d = s + At(k)
    BY <1>1
  <2>2. ~(lo(k - 1) <= s + At(k) /\ s + At(k) <= hi(k - 1))
    BY <1>1
  <2>3. \A i \in Address : (lo(k) <= i /\ i <= hi(k)) <=>
                             (i = d + At(k) \/ (lo(k - 1) <= i /\ i <= hi(k - 1)))
    BY <1>1
  <2> HIDE DEF At, lo, hi
  <2>4. moved(k - 1)[s + At(k)] = mem[s + At(k)]
    BY <2>1, <2>2
  <2>5. moved(k)[d + At(k)] = mem[s + At(k)]
    BY <2>1, <2>3
  <2>6. ASSUME NEW i \in Address, i # d + At(k)
        PROVE  moved(k)[i] = moved(k - 1)[i]
    BY <2>3, <2>6
  <2> DEFINE p == moved(k) 
             q == moved(k - 1)
  <2>7. p = [i \in Address |-> p[i]] /\ q = [i \in Address |-> q[i]]
    OBVIOUS
  <2>8. p[d + At(k)] = q[s + At(k)] /\ \A i \in Address : i # d + At(k) => p[i] = q[i]
    BY <2>4, <2>5, <2>6
  <2> HIDE DEF p, q
  <2>9. p = [q EXCEPT ![d + At(k)] = q[s + At(k)]]
    BY <2>1, <2>7, <2>8
  <2>10. QED
    BY <2>9 DEF p, q
<1> HIDE DEF moved, Step
<1>6. g = Body(g)
  <2>1. \A k \in 0..count : k = 0 \/ (k \in 1..count /\ k - 1 \in 0..count)
    OBVIOUS
  <2>2. \A k \in 0..count : g[k] = IF k = 0 THEN mem ELSE Step(k, g[k - 1])
    BY <1>3, <1>5, <2>1
  <2>3. QED
    BY <2>2
<1> HIDE DEF g
<1>7. run = Body(run)
  <2> HIDE DEF Body
  <2>1. QED
    BY <1>6
<1>8. \A k \in 0..count : run[k] = moved(k)
  <2> DEFINE T == {k \in 0..count : run[k] = moved(k)}
  <2>0. \A k \in 0..count : run[k] = IF k = 0 THEN mem ELSE Step(k, run[k - 1])
    <3> HIDE DEF run
    <3>1. QED
      BY <1>7
  <2> HIDE DEF run
  <2>1. 0 \in T
    BY <1>3, <2>0
  <2>2. ASSUME NEW k \in 1..count, k - 1 \in T
        PROVE  k \in T
    BY <1>5, <2>0, <2>2
  <2>3. \A k \in 0..count : k \in T
    <3> HIDE DEF T
    <3>1. QED
      BY <2>1, <2>2, Induction
  <2>4. QED
    BY <2>3
<1>9. count \in 0..count
  OBVIOUS
<1> HIDE DEF run
<1>10. QED
  BY <1>2, <1>4, <1>8, <1>9

(* What every function leaves: types, and a memory that differs only       *)
(* within the buffer, and not at all if the call is refused.               *)
Contained(mem, d, size, out) ==
  /\ out.memory \in Memory
  /\ out.code \in {"OK", "PARAM", "TRUNCATED"}
  /\ out.length \in -1..MemorySize
  /\ \A a \in Address : out.memory[a] # mem[a] =>
       a \in d..(d + size - 1) /\ out.code # "PARAM"

Terminated(d, size, out) ==
  out.code # "PARAM" => \E i \in 0..(size - 1) : out.memory[d + i] = 0

LEMMA UnchangedContained ==
  ASSUME NEW mem \in Memory, NEW d, NEW size, NEW length \in -1..MemorySize,
         NEW code \in {"OK", "TRUNCATED"}
  PROVE  Contained(mem, d, size, Refused(mem)) /\ Terminated(d, size, Refused(mem))
         /\ Contained(mem, d, size, Done(mem, code, length))
<1>1. 0 \in -1..MemorySize
  BY MemoryConstants
<1>2. QED
  BY <1>1 DEF Contained, Terminated, Refused, Done

LEMMA StrcpyOut ==
  ASSUME NEW mem \in Memory, NEW d \in Address, NEW s \in Address, NEW size \in 0..MemorySize,
         d + size <= MemorySize, Ends(mem, s)
  PROVE  LET out == Strcpy(mem, d, size, s)
             length == LengthOf(mem, s)
         IN  /\ Contained(mem, d, size, out) /\ Terminated(d, size, out)
             /\ out.code # "PARAM" /\ Apart(d, size, s, length + 1) =>
                  /\ Region(out.memory, d, out.length) = Region(mem, s, out.length)
                  /\ out.length = Least(length, size - 1)
                  /\ (out.code = "TRUNCATED") <=> (out.length < length)
<1>1. MemorySize \in Nat \ {0} /\ Address = 0..(MemorySize - 1)
  BY MemoryConstants DEF Address
<1>2. CASE size = 0
  <2>1. Strcpy(mem, d, size, s) = Refused(mem)
    BY <1>2 DEF Strcpy
  <2>2. 0 \in -1..MemorySize /\ Refused(mem).code = "PARAM"
    BY <1>1 DEF Refused
  <2>3. QED
    BY <2>1, <2>2, UnchangedContained
<1>3. CASE size # 0
  <2> DEFINE r == Copied(mem, d, s, size - 1)
             out == Strcpy(mem, d, size, s)
             length == LengthOf(mem, s)
  <2>1. size - 1 \in Nat /\ d + (size - 1) < MemorySize /\ d + (size - 1) = d + size - 1
    BY <1>1, <1>3
  <2>2. /\ r.memory \in Memory /\ r.count \in 0..(size - 1)
        /\ \A a \in Address : a \notin d..(d + r.count) => r.memory[a] = mem[a]
        /\ d + r.count \in Address /\ r.memory[d + r.count] = 0
        /\ Clean(mem, d, s) =>
             /\ \A j \in 0..(r.count - 1) :
                  s + j \in Address /\ mem[s + j] # 0 /\ r.memory[d + j] = mem[s + j]
             /\ r.count < size - 1 => s + r.count \in Address /\ mem[s + r.count] = 0
    BY <2>1, CopiedEffect
  <2>3. /\ out.memory = r.memory /\ out.length = r.count
        /\ out.code = IF r.memory[s + r.count] # 0 THEN "TRUNCATED" ELSE "OK"
    BY <1>3 DEF Strcpy, Done, Truncation
  <2> HIDE DEF r, out
  <2>4. Contained(mem, d, size, out)
    <3>1. r.count \in -1..MemorySize /\ \A a \in d..(d + r.count) : a \in d..(d + size - 1)
      BY <1>1, <1>3, <2>2
    <3>2. QED
      BY <2>2, <2>3, <3>1 DEF Contained
  <2>5. Terminated(d, size, out)
    BY <2>2, <2>3 DEF Terminated
  <2>6. /\ length \in 0..(MemorySize - s) /\ s + length \in Address /\ mem[s + length] = 0
        /\ \A i \in 0..(length - 1) : mem[s + i] # 0
    BY LengthIs
  <2> HIDE DEF length
  <2>7. ASSUME Apart(d, size, s, length + 1)
        PROVE  /\ Region(out.memory, d, out.length) = Region(mem, s, out.length)
               /\ out.length = Least(length, size - 1)
               /\ (out.code = "TRUNCATED") <=> (out.length < length)
    <3>1. Clean(mem, d, s)
      <4>1. CASE d + size <= s
        BY <1>1, <1>3, <4>1 DEF Clean
      <4>2. CASE s + (length + 1) <= d
        <5>1. s + length \in s..(d - 1)
          BY <1>1, <2>6, <4>2
        <5>2. QED
          BY <2>6, <5>1 DEF Clean
      <4>3. QED
        BY <2>7, <4>1, <4>2 DEF Apart
    <3>2. /\ \A j \in 0..(r.count - 1) :
               s + j \in Address /\ mem[s + j] # 0 /\ r.memory[d + j] = mem[s + j]
          /\ r.count < size - 1 => s + r.count \in Address /\ mem[s + r.count] = 0
      BY <2>2, <3>1
    <3>3. r.count <= length
      <4>1. SUFFICES ASSUME length < r.count
                     PROVE  FALSE
        BY <1>1, <2>2, <2>6
      <4>2. length \in 0..(r.count - 1)
        BY <1>1, <2>2, <2>6, <4>1
      <4>3. QED
        BY <2>6, <3>2, <4>2
    <3>4. r.count < length => mem[s + r.count] # 0
      <4>1. r.count < length => r.count \in 0..(length - 1)
        BY <1>1, <2>2, <2>6
      <4>2. QED
        BY <2>6, <4>1
    <3>5. r.count = Least(length, size - 1)
      BY <1>1, <2>2, <2>6, <3>2, <3>3, <3>4 DEF Least
    <3>6. r.memory[s + r.count] = mem[s + r.count]
      <4>1. s + r.count \in Address /\ s + r.count \notin d..(d + r.count)
        BY <1>1, <1>3, <2>2, <2>6, <2>7, <3>3 DEF Apart
      <4>2. QED
        BY <2>2, <4>1
    <3>7. mem[s + r.count] # 0 <=> r.count < length
      <4>1. r.count < length \/ r.count = length
        BY <1>1, <2>2, <2>6, <3>3
      <4>2. ~(length < length)
        BY <1>1, <2>6
      <4>3. QED
        BY <2>6, <3>4, <4>1, <4>2
    <3>8. Region(r.memory, d, r.count) = Region(mem, s, r.count)
      BY <3>2 DEF Region
    <3>9. QED
      BY <2>3, <3>5, <3>6, <3>7, <3>8
  <2>8. QED
    BY <2>4, <2>5, <2>7 DEF out, length
<1>4. QED
  BY <1>2, <1>3

LEMMA StrncpyOut ==
  ASSUME NEW mem \in Memory, NEW d \in Address, NEW s \in Address, NEW size \in 0..MemorySize,
         NEW max \in Nat, d + size <= MemorySize, Ends(mem, s)
  PROVE  LET out == Strncpy(mem, d, size, s, max)
         IN  Contained(mem, d, size, out) /\ Terminated(d, size, out)
<1>1. MemorySize \in Nat \ {0} /\ Address = 0..(MemorySize - 1)
  BY MemoryConstants DEF Address
<1>2. CASE size = 0
  <2>1. Strncpy(mem, d, size, s, max) = Refused(mem) /\ 0 \in -1..MemorySize
    BY <1>1, <1>2 DEF Strncpy
  <2>2. QED
    BY <2>1, UnchangedContained
<1>3. CASE size # 0
  <2> DEFINE n == Least(size - 1, max)
             r == Copied(mem, d, s, n)
             out == Strncpy(mem, d, size, s, max)
  <2>1. n \in Nat /\ d + n < MemorySize /\ n <= size - 1
    BY <1>1, <1>3 DEF Least
  <2>2. out.memory = r.memory /\ out.length = r.count /\ out.code = "OK"
    BY <1>3 DEF Strncpy, Done
  <2> HIDE DEF n
  <2>3. /\ r.memory \in Memory /\ r.count \in 0..n
        /\ \A a \in Address : a \notin d..(d + r.count) => r.memory[a] = mem[a]
        /\ d + r.count \in Address /\ r.memory[d + r.count] = 0
    BY <2>1, CopiedEffect
  <2> HIDE DEF r, out
  <2>4. r.count \in 0..(size - 1) /\ r.count \in -1..MemorySize
        /\ \A a \in d..(d + r.count) : a \in d..(d + size - 1)
    BY <1>1, <1>3, <2>1, <2>3
  <2>5. QED
    BY <2>2, <2>3, <2>4 DEF Contained, Terminated, out
<1>4. QED
  BY <1>2, <1>3

LEMMA StrcatOut ==
  ASSUME NEW mem \in Memory, NEW d \in Address, NEW s \in Address, NEW size \in 0..MemorySize,
         d + size <= MemorySize, Ends(mem, s)
  PROVE  LET out == Strcat(mem, d, size, s)
         IN  Contained(mem, d, size, out) /\ Terminated(d, size, out)
<1>1. MemorySize \in Nat \ {0} /\ Address = 0..(MemorySize - 1)
  BY MemoryConstants DEF Address
<1>2. CASE \A i \in 0..(size - 1) : mem[d + i] # 0
  <2>1. Strcat(mem, d, size, s) = Refused(mem) /\ 0 \in -1..MemorySize
    BY <1>1, <1>2 DEF Strcat
  <2>2. QED
    BY <2>1, UnchangedContained
<1>3. CASE ~(\A i \in 0..(size - 1) : mem[d + i] # 0)
  <2> DEFINE length == LengthOf(mem, d)
             n == size - length - 1
             r == Copied(mem, d + length, s, n)
             out == Strcat(mem, d, size, s)
  <2>1. PICK i \in 0..(size - 1) : mem[d + i] = 0
    BY <1>3
  <2>2. i \in Nat /\ d + i \in Address /\ i <= size - 1
    BY <1>1, <2>1
  <2>3. Ends(mem, d) /\ length <= i
    BY <2>1, <2>2, LengthBound
  <2>4. length \in 0..(MemorySize - d) /\ d + length \in Address
    BY <2>3, LengthIs
  <2>5. out.memory = r.memory /\ out.length = length + r.count /\ out.code \in {"OK", "TRUNCATED"}
    BY <1>3 DEF Strcat, Done, Truncation
  <2> HIDE DEF length
  <2>6. n \in Nat /\ (d + length) + n < MemorySize
    BY <1>1, <2>2, <2>3, <2>4
  <2> HIDE DEF n
  <2>7. /\ r.memory \in Memory /\ r.count \in 0..n
        /\ \A a \in Address : a \notin (d + length)..((d + length) + r.count) => r.memory[a] = mem[a]
        /\ (d + length) + r.count \in Address /\ r.memory[(d + length) + r.count] = 0
    BY <2>4, <2>6, CopiedEffect
  <2> HIDE DEF r, out
  <2>8. /\ length + r.count \in 0..(size - 1) /\ length + r.count \in -1..MemorySize
        /\ (d + length) + r.count = d + (length + r.count)
        /\ \A a \in (d + length)..((d + length) + r.count) : a \in d..(d + size - 1)
    <3>1. n = size - length - 1 /\ length \in Nat
      BY <1>1, <2>4 DEF n
    <3>2. \A c \in 0..n : /\ length + c \in 0..(size - 1) /\ length + c \in -1..MemorySize
                          /\ (d + length) + c = d + (length + c)
                          /\ \A a \in (d + length)..((d + length) + c) : a \in d..(d + size - 1)
      BY <1>1, <2>6, <3>1
    <3>3. QED
      BY <2>7, <3>2
  <2>9. QED
    BY <2>5, <2>7, <2>8 DEF Contained, Terminated, out
<1>4. QED
  BY <1>2, <1>3

LEMMA StrlenOut ==
  ASSUME NEW mem \in Memory, NEW d, NEW size, NEW s \in Address, NEW max \in 0..MemorySize,
         s + max <= MemorySize
  PROVE  Contained(mem, d, size, Strlen(mem, s, max))
<1>1. MemorySize \in Nat \ {0} /\ Address = 0..(MemorySize - 1)
  BY MemoryConstants DEF Address
<1> DEFINE ended == {n \in 0..(max - 1) : mem[s + n] = 0}
           length == IF ended = {} THEN max ELSE LengthOf(mem, s)
<1>2. length \in -1..MemorySize
  <2>1. CASE ended = {}
    BY <1>1, <2>1
  <2>2. CASE ended # {}
    <3>1. PICK n \in 0..(max - 1) : mem[s + n] = 0
      BY <2>2
    <3>2. n \in Nat /\ s + n \in Address
      BY <1>1, <3>1
    <3>3. Ends(mem, s)
      BY <3>1, <3>2, LengthBound
    <3>4. LengthOf(mem, s) \in 0..(MemorySize - s)
      BY <3>3, LengthIs
    <3>5. QED
      BY <1>1, <2>2, <3>4
  <2>3. QED
    BY <2>1, <2>2
<1>3. Strlen(mem, s, max) = Done(mem, IF length = max THEN "TRUNCATED" ELSE "OK", length)
  BY DEF Strlen
<1> HIDE DEF length
<1>4. (IF length = max THEN "TRUNCATED" ELSE "OK") \in {"OK", "TRUNCATED"}
  OBVIOUS
<1>5. QED
  BY <1>2, <1>3, <1>4, UnchangedContained

LEMMA CompareOut ==
  ASSUME NEW mem \in Memory, NEW d, NEW size, NEW a, NEW b, NEW n, NEW reports \in BOOLEAN
  PROVE  /\ Contained(mem, d, size, Strcmp(mem, a, b, n, reports))
         /\ Contained(mem, d, size, Memcmp(mem, a, b, n))
<1>1. -1 \in -1..MemorySize /\ 0 \in -1..MemorySize /\ 1 \in -1..MemorySize
  BY MemoryConstants
<1>2. \A length \in {-1, 0, 1}, code \in {"OK", "TRUNCATED"} :
        Contained(mem, d, size, Done(mem, code, length))
  BY <1>1, UnchangedContained
<1>3. \E length \in {-1, 0, 1}, code \in {"OK", "TRUNCATED"} :
        Strcmp(mem, a, b, n, reports) = Done(mem, code, length)
  BY DEF Strcmp
<1>4. \E length \in {-1, 0, 1}, code \in {"OK", "TRUNCATED"} :
        Memcmp(mem, a, b, n) = Done(mem, code, length)
  BY DEF Memcmp
<1>5. QED
  BY <1>2, <1>3, <1>4

LEMMA MemcpyOut ==
  ASSUME NEW mem \in Memory, NEW d \in Address, NEW s \in Address, NEW size \in 0..MemorySize,
         NEW count \in 0..MemorySize, d + size <= MemorySize, s + count <= MemorySize
  PROVE  /\ Contained(mem, d, size, Memcpy(mem, d, size, s, count))
         /\ Contained(mem, d, size, Memmove(mem, d, size, s, count))
         /\ Contained(mem, d, size, Memset(mem, d, size, 1, count))
         /\ LET out == Memmove(mem, d, size, s, count)
            IN  out.code = "OK" => out.memory = Moved(mem, d, s, count)
<1>1. MemorySize \in Nat \ {0} /\ Address = 0..(MemorySize - 1) /\ 1 \in Byte
      /\ 0 \in -1..MemorySize /\ count \in -1..MemorySize
  BY MemoryConstants DEF Address
<1>2. /\ Contained(mem, d, size, Refused(mem)) /\ Refused(mem).code # "OK"
      /\ Contained(mem, d, size, Done(mem, "OK", count))
  BY <1>1, UnchangedContained DEF Refused
<1>3. ASSUME count <= size
      PROVE  /\ Contained(mem, d, size, Done(Moved(mem, d, s, count), "OK", count))
             /\ Contained(mem, d, size, Done([i \in Address |->
                  IF i \in d..(d + count - 1) THEN 1 ELSE mem[i]], "OK", count))
  <2>1. \A i \in d..(d + count - 1) : i \in d..(d + size - 1) /\ s + i - d \in Address
    BY <1>1, <1>3
  <2>2. Moved(mem, d, s, count) \in Memory
        /\ \A i \in Address : i \notin d..(d + count - 1) => Moved(mem, d, s, count)[i] = mem[i]
    BY <2>1 DEF Memory, Moved
  <2>3. [i \in Address |-> IF i \in d..(d + count - 1) THEN 1 ELSE mem[i]] \in Memory
    BY <1>1 DEF Memory
  <2>4. QED
    BY <1>1, <2>1, <2>2, <2>3 DEF Contained, Done
<1>4. count > size \/ count <= size
  BY <1>1
<1>5. Contained(mem, d, size, Memcpy(mem, d, size, s, count))
  BY <1>2, <1>3, <1>4 DEF Memcpy
<1>6. Contained(mem, d, size, Memset(mem, d, size, 1, count))
  BY <1>2, <1>3, <1>4 DEF Memset
<1>7. CASE count > size
  <2>1. Memmove(mem, d, size, s, count) = Refused(mem)
    BY <1>7 DEF Memmove
  <2>2. QED
    BY <1>2, <1>5, <1>6, <2>1
<1>8. CASE count <= size /\ ~(count > size)
  <2>1. Memmove(mem, d, size, s, count) = Done(Moved(mem, d, s, count), "OK", count)
    <3>1. CASE d = s
      <4>1. Moved(mem, d, s, count) = mem
        <5>1. \A i \in Address : s + i - d = i
          BY <1>1, <3>1
        <5>2. Moved(mem, d, s, count) = [i \in Address |-> mem[i]]
          BY <5>1 DEF Moved
        <5>3. QED
          BY <5>2 DEF Memory
      <4>2. QED
        BY <1>8, <3>1, <4>1 DEF Memmove
    <3>2. CASE d # s
      <4>1. d + count <= MemorySize /\ count \in Nat
        BY <1>1, <1>8
      <4>2. InOrder(mem, d, s, count, d < s) = Moved(mem, d, s, count)
        BY <3>2, <4>1, InOrderIs
      <4>3. QED
        BY <1>8, <3>2, <4>2 DEF Memmove
    <3>3. QED
      BY <3>1, <3>2
  <2>2. QED
    BY <1>3, <1>5, <1>6, <1>8, <2>1 DEF Done
<1>9. QED
  BY <1>1, <1>4, <1>7, <1>8

-----------------------------------------------------------------------------
(* Numbers.  The digits of a number, and the number that digits show, are  *)
(* functions by recursion. *)
Digit == 0..9
Digits(f, m) == \A n \in 0..m : f[n] = IF n < 10 THEN <<n>> ELSE Append(f[n \div 10], n % 10)

LEMMA Tenth ==
  \A n \in Nat : ~(n < 10) => /\ n \div 10 \in 1..(n - 1)
                              /\ n % 10 \in Digit
                              /\ 10 * (n \div 10) + (n % 10) = n
<1>1. ASSUME NEW n \in Nat, ~(n < 10)
      PROVE  n \div 10 \in 1..(n - 1) /\ n % 10 \in 0..9 /\ 10 * (n \div 10) + (n % 10) = n
  <2>1. \A x \in Nat : x % 10 \in 0..9
    OBVIOUS
  <2>2. \A x \in Nat : 10 * (x \div 10) + (x % 10) = x
    OBVIOUS
  <2>3. \A x \in Nat : x \div 10 \in Nat
    OBVIOUS
  <2>4. \A x, q \in Nat, r \in 0..9 : 10 * q + r = x /\ ~(x < 10) => q \in 1..(x - 1)
    OBVIOUS
  <2>5. QED
    BY <1>1, <2>1, <2>2, <2>3, <2>4
<1>2. QED
  BY <1>1 DEF Digit

(* A property that a number has if all smaller ones have it. *)
LEMMA StrongInduction ==
  ASSUME NEW T, \A n \in Nat : (\A k \in 0..(n - 1) : k \in T) => n \in T
  PROVE  \A n \in Nat : n \in T
<1> DEFINE Bad == {n \in Nat : n \notin T}
<1>1. SUFFICES ASSUME Bad # {}
               PROVE  FALSE
  OBVIOUS
<1>2. PICK x \in Bad : \A y \in Bad : x <= y
  <2>1. Bad \in SUBSET Nat
    OBVIOUS
  <2> HIDE DEF Bad
  <2>2. QED
    BY <1>1, <2>1, LeastNumber
<1>3. x \in Nat /\ x \notin T
  OBVIOUS
<1>4. \A k \in 0..(x - 1) : k \in Nat /\ ~(x <= k)
  BY <1>3
<1>5. \A k \in 0..(x - 1) : k \notin Bad
  <2> HIDE DEF Bad
  <2>1. QED
    BY <1>2, <1>4
<1>6. \A k \in 0..(x - 1) : k \in T
  BY <1>4, <1>5
<1>7. QED
  BY <1>3, <1>6

(* Tables of the digits of the numbers up to m exist and agree. *)
LEMMA DigitTables == \A m \in Nat : \E f \in [0..m -> Seq(Digit)] : Digits(f, m)
<1> DEFINE T == {m \in Nat : \E f \in [0..m -> Seq(Digit)] : Digits(f, m)}
<1>1. ASSUME NEW m \in Nat, \A k \in 0..(m - 1) : k \in T
      PROVE  m \in T
  <2>1. CASE m < 10
    <3> DEFINE f == [n \in 0..m |-> <<n>>]
    <3>1. \A n \in 0..m : n < 10 /\ n \in Digit
      BY <2>1 DEF Digit
    <3>2. f \in [0..m -> Seq(Digit)] /\ Digits(f, m)
      BY <3>1 DEF Digits
    <3>3. QED
      BY <3>2
  <2>2. CASE ~(m < 10)
    <3>1. m - 1 \in Nat /\ m - 1 \in 0..(m - 1)
      BY <2>2
    <3>2. PICK f \in [0..(m - 1) -> Seq(Digit)] : Digits(f, m - 1)
      BY <1>1, <3>1
    <3> DEFINE last == Append(f[m \div 10], m % 10)
               g == [n \in 0..m |-> IF n < m THEN f[n] ELSE last]
    <3>3. m \div 10 \in 0..(m - 1) /\ m % 10 \in Digit
      BY <2>2, Tenth
    <3>4. last \in Seq(Digit)
      BY <3>2, <3>3, AppendProperties
    <3>5. \A n \in 0..m : n = m \/ (n < m /\ n \in 0..(m - 1))
      OBVIOUS
    <3> HIDE DEF last
    <3>6. g \in [0..m -> Seq(Digit)]
      BY <3>2, <3>4, <3>5
    <3>7. /\ g[m] = last /\ \A n \in 0..(m - 1) : g[n] = f[n]
      BY <3>5
    <3> HIDE DEF g
    <3>8. ASSUME NEW n \in 0..m
          PROVE  g[n] = IF n < 10 THEN <<n>> ELSE Append(g[n \div 10], n % 10)
      <4>1. CASE n = m
        BY <2>2, <3>3, <3>7, <4>1 DEF last
      <4>2. CASE n \in 0..(m - 1)
        <5>1. f[n] = IF n < 10 THEN <<n>> ELSE Append(f[n \div 10], n % 10)
          BY <3>2, <4>2 DEF Digits
        <5>2. ~(n < 10) => n \div 10 \in 0..(m - 1)
          BY <4>2, Tenth
        <5>3. QED
          BY <3>7, <4>2, <5>1, <5>2
      <4>3. QED
        BY <3>5, <4>1, <4>2
    <3>9. QED
      BY <3>6, <3>8 DEF Digits
  <2>3. QED
    BY <2>1, <2>2
<1>2. \A m \in Nat : m \in T
  <2> HIDE DEF T
  <2>1. QED
    BY <1>1, StrongInduction
<1>3. QED
  BY <1>2

LEMMA DigitTablesAgree ==
  ASSUME NEW f, NEW g, NEW m \in Nat, NEW k \in Nat, Digits(f, m), Digits(g, k)
  PROVE  \A n \in Nat : n <= m /\ n <= k => f[n] = g[n]
<1> DEFINE T == {n \in Nat : n <= m /\ n <= k => f[n] = g[n]}
<1>1. ASSUME NEW n \in Nat, \A j \in 0..(n - 1) : j \in T
      PROVE  n \in T
  <2>1. SUFFICES ASSUME n <= m, n <= k
                 PROVE  f[n] = g[n]
    OBVIOUS
  <2>2. /\ f[n] = IF n < 10 THEN <<n>> ELSE Append(f[n \div 10], n % 10)
        /\ g[n] = IF n < 10 THEN <<n>> ELSE Append(g[n \div 10], n % 10)
    BY <2>1 DEF Digits
  <2>3. CASE n < 10
    BY <2>2, <2>3
  <2>4. CASE ~(n < 10)
    <3>1. n \div 10 \in 0..(n - 1) /\ n \div 10 <= m /\ n \div 10 <= k
      BY <2>1, <2>4, Tenth
    <3>2. f[n \div 10] = g[n \div 10]
      BY <1>1, <3>1
    <3>3. QED
      BY <2>2, <2>4, <3>2
  <2>5. QED
    BY <2>3, <2>4
<1>2. \A n \in Nat : n \in T
  <2> HIDE DEF T
  <2>1. QED
    BY <1>1, StrongInduction
<1>3. QED
  BY <1>2

(* The conversion builds the digits of the quotient before the remainder.  *)
DigitsStep(g) == [n \in Nat |-> IF n < 10 THEN <<n>> ELSE Append(g[n \div 10], n % 10)]

LEMMA DigitsExist == \E g : g = DigitsStep(g)
<1> DEFINE TableTo(m) == CHOOSE f : f \in [0..m -> Seq(Digit)] /\ Digits(f, m)
           g == [n \in Nat |-> TableTo(n)[n]]
<1>1. \A m \in Nat : Digits(TableTo(m), m)
  BY DigitTables
<1> HIDE DEF TableTo
<1>2. ASSUME NEW n \in Nat
      PROVE  g[n] = IF n < 10 THEN <<n>> ELSE Append(g[n \div 10], n % 10)
  <2>1. TableTo(n)[n] = IF n < 10 THEN <<n>> ELSE Append(TableTo(n)[n \div 10], n % 10)
    BY <1>1 DEF Digits
  <2>2. CASE n < 10
    BY <2>1, <2>2
  <2>3. CASE ~(n < 10)
    <3>1. n \div 10 \in Nat /\ n \div 10 <= n
      BY <2>3, Tenth
    <3>2. TableTo(n)[n \div 10] = TableTo(n \div 10)[n \div 10]
      <4>1. Digits(TableTo(n), n) /\ Digits(TableTo(n \div 10), n \div 10)
        BY <1>1, <3>1
      <4>2. \A k \in Nat : k <= n /\ k <= n \div 10 => TableTo(n)[k] = TableTo(n \div 10)[k]
        BY <3>1, <4>1, DigitTablesAgree
      <4>3. n \div 10 <= n \div 10
        BY <3>1
      <4>4. QED
        BY <3>1, <4>2, <4>3
    <3>3. QED
      BY <2>1, <2>3, <3>1, <3>2
  <2>4. QED
    BY <2>2, <2>3
<1> HIDE DEF g
<1>3. g = DigitsStep(g)
  <2>1. g = [n \in Nat |-> g[n]]
    BY DEF g
  <2>2. QED
    BY <1>2, <2>1 DEF DigitsStep
<1>4. QED
  BY <1>3

(* What a sequence of digits shows, as Value computes it. *)
ShownStep(s, v) == [i \in 0..Len(s) |-> IF i = 0 THEN 0 ELSE 10 * v[i - 1] + s[i]]
ShownTable(s) == CHOOSE v : v = ShownStep(s, v)
Shown(s) == ShownTable(s)[Len(s)]

LEMMA ShownTables ==
  ASSUME NEW s \in Seq(Digit)
  PROVE  /\ ShownTable(s)[0] = 0
         /\ \A i \in 1..Len(s) : ShownTable(s)[i] = 10 * ShownTable(s)[i - 1] + s[i]
         /\ \A i \in 0..Len(s) : ShownTable(s)[i] \in Nat
<1> DEFINE n == Len(s)
           step == [i \in 1..n |-> [x \in Nat |-> 10 * x + s[i]]]
<1>1. n \in Nat /\ \A i \in 1..n : s[i] \in Digit
  BY ElementOfSeq, LenProperties
<1>2. \A i \in 1..n : \A x \in Nat : 10 * x + s[i] \in Nat
  BY <1>1 DEF Digit
<1>3. step \in [1..n -> [Nat -> Nat]]
  BY <1>2
<1>4. \A i \in 1..n : \A x \in Nat : step[i][x] = 10 * x + s[i]
  OBVIOUS
<1>5. \E g : IsRun(g, Nat, 0, n, step)
  <2> HIDE DEF n, step
  <2>1. QED
    BY <1>1, <1>3, Recursion
<1>6. PICK g : IsRun(g, Nat, 0, n, step)
  BY <1>5
<1> HIDE DEF step
<1>7. g = ShownStep(s, g)
  <2>1. g \in [0..n -> Nat] /\ g[0] = 0
    BY <1>6 DEF IsRun
  <2>2. \A i \in 0..n : i = 0 \/ (i \in 1..n /\ i # 0 /\ i - 1 \in 0..n)
    BY <1>1
  <2>3. \A i \in 1..n : g[i] = 10 * g[i - 1] + s[i]
    <3>1. ASSUME NEW i \in 1..n
          PROVE  g[i] = 10 * g[i - 1] + s[i]
      <4>1. g[i] = step[i][g[i - 1]]
        BY <1>6 DEF IsRun
      <4>2. g[i - 1] \in Nat
        <5>1. i - 1 \in 0..n
          BY <1>1
        <5>2. QED
          BY <2>1, <5>1
      <4>3. QED
        BY <1>4, <4>1, <4>2
    <3>2. QED
      BY <3>1
  <2>4. \A i \in 0..n : g[i] = IF i = 0 THEN 0 ELSE 10 * g[i - 1] + s[i]
    <3> HIDE DEF n
    <3>1. QED
      BY <2>1, <2>2, <2>3
  <2>5. QED
    BY <2>1, <2>4 DEF ShownStep
<1> DEFINE v == ShownTable(s)
<1>8. v = ShownStep(s, v)
  BY <1>7 DEF ShownTable
<1> HIDE DEF v
<1>9. v[0] = 0
  BY <1>1, <1>8 DEF ShownStep
<1>10. \A i \in 1..n : v[i] = 10 * v[i - 1] + s[i]
  <2>1. ASSUME NEW i \in 1..n
        PROVE  v[i] = 10 * v[i - 1] + s[i]
    <3>1. i \in 0..n /\ i # 0
      BY <1>1
    <3>2. ShownStep(s, v)[i] = 10 * v[i - 1] + s[i]
      BY <3>1 DEF ShownStep
    <3>3. QED
      BY <1>8, <3>2
  <2>2. QED
    BY <2>1
<1>11. \A i \in 0..n : v[i] \in Nat
  <2> DEFINE T == {i \in 0..n : v[i] \in Nat}
  <2>1. 0 \in T
    BY <1>1, <1>9
  <2>2. ASSUME NEW i \in 1..n, i - 1 \in T
        PROVE  i \in T
    <3>1. i \in 0..n /\ v[i - 1] \in Nat
      BY <1>1, <2>2
    <3>2. 10 * v[i - 1] + s[i] \in Nat
      BY <1>2, <3>1
    <3>3. QED
      BY <1>10, <3>1, <3>2
  <2>3. \A i \in 0..n : i \in T
    <3> HIDE DEF T, n
    <3>1. QED
      BY <1>1, <2>1, <2>2, Induction
  <2>4. QED
    BY <2>3
<1>12. QED
  BY <1>9, <1>10, <1>11 DEF v

LEMMA ShownOne == \A d \in Digit : Shown(<<d>>) = d
<1>1. ASSUME NEW d \in Digit
      PROVE  Shown(<<d>>) = d
  <2>1. <<d>> \in Seq(Digit) /\ Len(<<d>>) = 1 /\ <<d>>[1] = d
    OBVIOUS
  <2> DEFINE s == <<d>>
  <2> HIDE DEF s
  <2>2. s \in Seq(Digit) /\ Len(s) = 1 /\ s[1] = d
    BY <2>1 DEF s
  <2>3. ShownTable(s)[0] = 0 /\ ShownTable(s)[1] = 10 * ShownTable(s)[1 - 1] + s[1]
    BY <2>2, ShownTables
  <2>4. ShownTable(s)[1] = d
    BY <2>2, <2>3 DEF Digit
  <2>5. QED
    BY <2>2, <2>4 DEF Shown, s
<1>2. QED
  BY <1>1

LEMMA ShownAppend ==
  ASSUME NEW s \in Seq(Digit), NEW d \in Digit
  PROVE  Shown(Append(s, d)) = 10 * Shown(s) + d /\ Shown(s) \in Nat
<1> DEFINE n == Len(s)
           t == Append(s, d)
           u == ShownTable(s)
           v == ShownTable(t)
<1>1. n \in Nat /\ t \in Seq(Digit) /\ Len(t) = n + 1 /\ t[n + 1] = d
  BY AppendProperties, LenProperties
<1>2. \A i \in 1..n : t[i] = s[i]
  BY AppendProperties
<1> HIDE DEF t
<1>3. /\ u[0] = 0
      /\ \A i \in 1..n : u[i] = 10 * u[i - 1] + s[i]
      /\ \A i \in 0..n : u[i] \in Nat
  BY ShownTables
<1>4. /\ v[0] = 0
      /\ \A i \in 1..(n + 1) : v[i] = 10 * v[i - 1] + t[i]
  <2>1. /\ v[0] = 0
        /\ \A i \in 1..Len(t) : v[i] = 10 * v[i - 1] + t[i]
    BY <1>1, ShownTables
  <2>2. QED
    BY <1>1, <2>1
<1> HIDE DEF u, v
<1>5. \A i \in 0..n : v[i] = u[i]
  <2> DEFINE T == {i \in 0..n : v[i] = u[i]}
  <2>1. 0 \in T
    BY <1>1, <1>3, <1>4
  <2>2. ASSUME NEW i \in 1..n, i - 1 \in T
        PROVE  i \in T
    <3>1. i \in 0..n /\ i \in 1..(n + 1) /\ v[i - 1] = u[i - 1]
      BY <1>1, <2>2
    <3>2. QED
      BY <1>2, <1>3, <1>4, <3>1
  <2>3. \A i \in 0..n : i \in T
    <3> HIDE DEF T, n
    <3>1. QED
      BY <1>1, <2>1, <2>2, Induction
  <2>4. QED
    BY <2>3
<1>6. v[n + 1] = 10 * v[n] + d
  <2>1. n + 1 \in 1..(n + 1) /\ (n + 1) - 1 = n
    BY <1>1
  <2>2. v[n + 1] = 10 * v[(n + 1) - 1] + t[n + 1]
    BY <1>4, <2>1
  <2> HIDE DEF n
  <2>3. QED
    BY <1>1, <2>1, <2>2
<1>7. v[n] = u[n] /\ u[n] \in Nat
  BY <1>1, <1>3, <1>5
<1>8. Shown(t) = v[n + 1] /\ Shown(s) = u[n]
  BY <1>1 DEF Shown, u, v
<1>9. QED
  BY <1>6, <1>7, <1>8 DEF t

(* A magnitude shows itself. *)
LEMMA DigitsShow ==
  ASSUME NEW g, g = DigitsStep(g)
  PROVE  \A n \in Nat : g[n] \in Seq(Digit) /\ Shown(g[n]) = n
<1> DEFINE T == {n \in Nat : g[n] \in Seq(Digit) /\ Shown(g[n]) = n}
<1>1. ASSUME NEW n \in Nat, \A k \in 0..(n - 1) : k \in T
      PROVE  n \in T
  <2>1. g[n] = IF n < 10 THEN <<n>> ELSE Append(g[n \div 10], n % 10)
    <3>1. DigitsStep(g)[n] = IF n < 10 THEN <<n>> ELSE Append(g[n \div 10], n % 10)
      BY DEF DigitsStep
    <3>2. QED
      BY <3>1
  <2>2. CASE n < 10
    <3>1. n \in Digit
      BY <2>2 DEF Digit
    <3>2. g[n] = <<n>>
      BY <2>1, <2>2
    <3>3. <<n>> \in Seq(Digit) /\ Shown(<<n>>) = n
      BY <3>1, ShownOne
    <3>4. QED
      BY <3>2, <3>3
  <2>3. CASE ~(n < 10)
    <3> DEFINE q == n \div 10
               r == n % 10
    <3>1. q \in 0..(n - 1) /\ q \in Nat /\ r \in Digit /\ 10 * q + r = n
      BY <2>3, Tenth
    <3> HIDE DEF q, r
    <3>2. g[q] \in Seq(Digit) /\ Shown(g[q]) = q
      BY <1>1, <3>1
    <3>3. g[n] = Append(g[q], r)
      BY <2>1, <2>3 DEF q, r
    <3>4. Append(g[q], r) \in Seq(Digit)
      BY <3>1, <3>2, AppendProperties
    <3>5. Shown(Append(g[q], r)) = n
      BY <3>1, <3>2, ShownAppend
    <3>6. QED
      BY <3>3, <3>4, <3>5
  <2>4. QED
    BY <2>2, <2>3
<1>2. \A n \in Nat : n \in T
  <2> HIDE DEF T
  <2>1. QED
    BY <1>1, StrongInduction
<1>3. QED
  BY <1>2

(* The text of a number shows that number, the smallest one included. *)
LEMMA TextShows ==
  ASSUME NEW value \in Int
  PROVE  Text(value).digits \in Seq(Digit) /\ Value(Text(value)) = value
<1> DEFINE magnitude == IF value < 0 THEN -(value + 1) + 1 ELSE value
           digits == CHOOSE g : g = [n \in Nat |->
                       IF n < 10 THEN <<n>> ELSE Append(g[n \div 10], n % 10)]
<1>1. digits = DigitsStep(digits)
  <2>1. \E g : g = [n \in Nat |-> IF n < 10 THEN <<n>> ELSE Append(g[n \div 10], n % 10)]
    BY DigitsExist DEF DigitsStep
  <2>2. QED
    BY <2>1 DEF DigitsStep
<1>2. Text(value) = [minus |-> value < 0, digits |-> digits[magnitude]]
  BY DEF Text
<1> HIDE DEF digits
<1>3. magnitude \in Nat /\ value = IF value < 0 THEN -magnitude ELSE magnitude
  OBVIOUS
<1> HIDE DEF magnitude
<1> DEFINE s == digits[magnitude]
<1>4. s \in Seq(Digit) /\ Shown(s) = magnitude
  BY <1>1, <1>3, DigitsShow
<1>5. Text(value).minus = (value < 0) /\ Text(value).digits = s
  BY <1>2
<1>6. Value(Text(value)) = IF Text(value).minus THEN -Shown(Text(value).digits)
                                               ELSE Shown(Text(value).digits)
  BY DEF Value, Shown, ShownTable, ShownStep
<1> HIDE DEF s
<1>7. QED
  BY <1>3, <1>4, <1>5, <1>6

LEMMA NumbersRead == NumbersReadBack
<1>1. ASSUME NEW value \in (-MaxNumber - 1)..MaxNumber, NEW size \in 0..5,
             Itoa(value, size).code = "OK"
      PROVE  /\ Characters(Itoa(value, size).text) < size
             /\ Value(Itoa(value, size).text) = value
  <2>1. value \in Int /\ size \in Int
    OBVIOUS
  <2>2. /\ ~(Characters(Text(value)) >= size)
        /\ Itoa(value, size).text = Text(value)
    BY <1>1 DEF Itoa
  <2>3. Characters(Text(value)) \in Int
    <3>1. Text(value).digits \in Seq(Digit)
      BY <2>1, TextShows
    <3>2. Len(Text(value).digits) \in Nat
      BY <3>1, LenProperties
    <3>3. QED
      BY <3>2 DEF Characters
  <2>4. QED
    BY <2>1, <2>2, <2>3, TextShows
<1>2. QED
  BY <1>1 DEF NumbersReadBack

-----------------------------------------------------------------------------
(* The calls. *)
TextCalls == {"strcpy", "strncpy", "strcat"}
CallNames == TextCalls \cup {"strlen", "strcmp", "strncmp", "memcpy", "memmove", "memset", "memcmp"}

Out(function, mem, d, size, s, count) ==
  CASE function = "strcpy" -> Strcpy(mem, d, size, s)
    [] function = "strncpy" -> Strncpy(mem, d, size, s, count)
    [] function = "strcat" -> Strcat(mem, d, size, s)
    [] function = "strlen" -> Strlen(mem, s, count)
    [] function = "strcmp" -> Strcmp(mem, d, s, count, TRUE)
    [] function = "strncmp" -> Strcmp(mem, d, s, count, FALSE)
    [] function = "memcpy" -> Memcpy(mem, d, size, s, count)
    [] function = "memmove" -> Memmove(mem, d, size, s, count)
    [] function = "memset" -> Memset(mem, d, size, 1, count)
    [] function = "memcmp" -> Memcmp(mem, d, s, count)

StrcpyRight(mem, d, size, s, out) ==
  LET length == LengthOf(mem, s)
  IN  out.code # "PARAM" /\ Apart(d, size, s, length + 1) =>
        /\ Region(out.memory, d, out.length) = Region(mem, s, out.length)
        /\ out.length = Least(length, size - 1)
        /\ (out.code = "TRUNCATED") <=> (out.length < length)

LEMMA OutRight ==
  ASSUME NEW function \in CallNames, NEW mem \in Memory, NEW d \in Address, NEW s \in Address,
         NEW size \in 0..MemorySize, NEW count \in 0..MemorySize, d + size <= MemorySize,
         function \in TextCalls => Ends(mem, s),
         function \notin TextCalls => s + count <= MemorySize
  PROVE  LET out == Out(function, mem, d, size, s, count)
         IN  /\ Contained(mem, d, size, out)
             /\ function \in TextCalls => Terminated(d, size, out)
             /\ function = "strcpy" => StrcpyRight(mem, d, size, s, out)
             /\ function = "memmove" /\ out.code = "OK" => out.memory = Moved(mem, d, s, count)
<1> DEFINE out == Out(function, mem, d, size, s, count)
<1>1. CASE function = "strcpy"
  <2>1. out = Strcpy(mem, d, size, s)
    BY <1>1 DEF Out
  <2>2. Ends(mem, s)
    BY <1>1 DEF TextCalls
  <2>3. Contained(mem, d, size, Strcpy(mem, d, size, s))
        /\ Terminated(d, size, Strcpy(mem, d, size, s))
        /\ StrcpyRight(mem, d, size, s, Strcpy(mem, d, size, s))
    BY <2>2, StrcpyOut DEF StrcpyRight
  <2>4. QED
    BY <1>1, <2>1, <2>3
<1>2. CASE function = "strncpy"
  <2>1. out = Strncpy(mem, d, size, s, count)
    BY <1>2 DEF Out
  <2>2. Ends(mem, s) /\ count \in Nat
    BY <1>2, MemoryConstants DEF TextCalls
  <2>3. Contained(mem, d, size, Strncpy(mem, d, size, s, count))
        /\ Terminated(d, size, Strncpy(mem, d, size, s, count))
    BY <2>2, StrncpyOut
  <2>4. QED
    BY <1>2, <2>1, <2>3
<1>3. CASE function = "strcat"
  <2>1. out = Strcat(mem, d, size, s)
    BY <1>3 DEF Out
  <2>2. Ends(mem, s)
    BY <1>3 DEF TextCalls
  <2>3. Contained(mem, d, size, Strcat(mem, d, size, s))
        /\ Terminated(d, size, Strcat(mem, d, size, s))
    BY <2>2, StrcatOut
  <2>4. QED
    BY <1>3, <2>1, <2>3
<1>4. CASE function \notin TextCalls
  <2>1. s + count <= MemorySize /\ function # "strcpy"
    BY <1>4 DEF TextCalls
  <2>2. CASE function = "strlen"
    <3>1. out = Strlen(mem, s, count)
      BY <2>2 DEF Out
    <3>2. Contained(mem, d, size, Strlen(mem, s, count))
      BY <2>1, StrlenOut
    <3>3. QED
      BY <1>4, <2>1, <2>2, <3>1, <3>2
  <2>3. CASE function \in {"strcmp", "strncmp", "memcmp"}
    <3>1. \/ out = Strcmp(mem, d, s, count, TRUE)
          \/ out = Strcmp(mem, d, s, count, FALSE)
          \/ out = Memcmp(mem, d, s, count)
      BY <2>3 DEF Out
    <3>2. /\ Contained(mem, d, size, Strcmp(mem, d, s, count, TRUE))
          /\ Contained(mem, d, size, Strcmp(mem, d, s, count, FALSE))
          /\ Contained(mem, d, size, Memcmp(mem, d, s, count))
      BY CompareOut
    <3>3. Contained(mem, d, size, out)
      BY <3>1, <3>2
    <3>4. function # "memmove"
      BY <2>3
    <3> HIDE DEF out
    <3>5. QED
      BY <1>4, <2>1, <3>3, <3>4 DEF out
  <2>4. CASE function \in {"memcpy", "memset", "memmove"}
    <3>1. /\ function = "memcpy" => out = Memcpy(mem, d, size, s, count)
          /\ function = "memset" => out = Memset(mem, d, size, 1, count)
          /\ function = "memmove" => out = Memmove(mem, d, size, s, count)
      BY <2>4 DEF Out
    <3>2. /\ Contained(mem, d, size, Memcpy(mem, d, size, s, count))
          /\ Contained(mem, d, size, Memmove(mem, d, size, s, count))
          /\ Contained(mem, d, size, Memset(mem, d, size, 1, count))
          /\ Memmove(mem, d, size, s, count).code = "OK" =>
               Memmove(mem, d, size, s, count).memory = Moved(mem, d, s, count)
      BY <2>1, MemcpyOut
    <3> HIDE DEF out
    <3>3. Contained(mem, d, size, out)
      BY <2>4, <3>1, <3>2
    <3>4. QED
      BY <1>4, <2>1, <3>1, <3>2, <3>3 DEF out
  <2>5. QED
    BY <1>4, <2>2, <2>3, <2>4 DEF CallNames
<1>5. QED
  BY <1>1, <1>2, <1>3, <1>4 DEF TextCalls

(* Every step of the strings keeps the types and makes the promise true,   *)
(* whatever was true before it.                                            *)
LEMMA StStep ==
  ASSUME StTypeOK, StNext
  PROVE  StTypeOK' /\ StringsBounded'
<1>1. ASSUME NEW function \in CallNames, NEW d \in Address, NEW s \in Address,
             NEW size \in 0..MemorySize, NEW count \in 0..MemorySize,
             Call(function, d, size, s, count)
      PROVE  StTypeOK' /\ StringsBounded'
  <2> DEFINE out == Out(function, stMemory, d, size, s, count)
  <2>1. stMemory' = out.memory /\ stResult' = [code |-> out.code, length |-> out.length]
    BY <1>1 DEF Call, Out
  <2>2. /\ d + size <= MemorySize
        /\ function \in TextCalls => Ends(stMemory, s)
        /\ function \notin TextCalls => s + count <= MemorySize
        /\ stCall' = [function |-> function, dest |-> d, size |-> size, src |-> s, count |-> count]
        /\ stBefore' = stMemory
    BY <1>1 DEF Call, TextCalls
  <2> HIDE DEF out
  <2>3. stMemory \in Memory
    BY DEF StTypeOK
  <2>4. /\ Contained(stMemory, d, size, out)
        /\ function \in TextCalls => Terminated(d, size, out)
        /\ function = "strcpy" => StrcpyRight(stMemory, d, size, s, out)
        /\ function = "memmove" /\ out.code = "OK" => out.memory = Moved(stMemory, d, s, count)
    BY <2>2, <2>3, OutRight DEF out
  <2>5. /\ stResult'.code = out.code /\ stResult'.length = out.length
        /\ stCall'.function = function /\ stCall'.dest = d /\ stCall'.size = size
        /\ stCall'.src = s /\ stCall'.count = count
    BY <2>1, <2>2
  <2>6. StTypeOK'
    BY <2>1, <2>2, <2>3, <2>4, <2>5 DEF StTypeOK, Contained
  <2>7. \A i \in Address : stMemory'[i] # stBefore'[i] =>
          /\ i \in stCall'.dest..(stCall'.dest + stCall'.size - 1)
          /\ stResult'.code # "PARAM"
    BY <2>1, <2>2, <2>4, <2>5 DEF Contained
  <2>8. StringsTerminated'
    <3>1. function \in TextCalls /\ out.code # "PARAM" =>
            \E i \in 0..(size - 1) : out.memory[d + i] = 0
      BY <2>4 DEF Terminated
    <3>2. function = "strcpy" /\ out.code # "PARAM"
            /\ Apart(d, size, s, LengthOf(stMemory, s) + 1) =>
            /\ Region(out.memory, d, out.length) = Region(stMemory, s, out.length)
            /\ out.length = Least(LengthOf(stMemory, s), size - 1)
            /\ (out.code = "TRUNCATED") <=> (out.length < LengthOf(stMemory, s))
      BY <2>4 DEF StrcpyRight
    <3>3. QED
      BY <2>1, <2>2, <2>5, <3>1, <3>2 DEF StringsTerminated, TextCalls
  <2>9. MoveIsCopy'
    BY <2>1, <2>2, <2>4, <2>5 DEF MoveIsCopy
  <2>10. QED
    BY <2>6, <2>7, <2>8, <2>9, NumbersRead DEF StringsBounded
<1>2. CASE Return
  <2>1. /\ stMemory' = stMemory /\ stBefore' = stMemory /\ stMemory \in Memory
        /\ stCall' = NoCall /\ stCall'.function = "none"
        /\ stResult'.code = "OK" /\ stResult'.length = 0
    BY <1>2 DEF Return, NoCall, StTypeOK
  <2>2. 0 \in -1..MemorySize
    BY MemoryConstants
  <2>3. StTypeOK'
    BY <2>1, <2>2 DEF StTypeOK
  <2>4. StringsTerminated' /\ MoveIsCopy'
    BY <2>1 DEF StringsTerminated, MoveIsCopy
  <2>5. QED
    BY <2>1, <2>3, <2>4, NumbersRead DEF StringsBounded
<1>3. QED
  BY <1>1, <1>2 DEF StNext, CallNames, TextCalls

LEMMA StStart == StInit => StTypeOK /\ StringsBounded
<1>1. SUFFICES ASSUME StInit
               PROVE  StTypeOK /\ StringsBounded
  OBVIOUS
<1>2. /\ stMemory \in Memory /\ stBefore = stMemory /\ stCall.function = "none"
      /\ stResult.code = "OK" /\ stResult.length = 0 /\ 0 \in -1..MemorySize
  BY <1>1, MemoryConstants DEF StInit, NoCall
<1>3. StTypeOK
  BY <1>2 DEF StTypeOK
<1>4. StringsTerminated /\ MoveIsCopy
  BY <1>2 DEF StringsTerminated, MoveIsCopy
<1>5. QED
  BY <1>2, <1>3, <1>4, NumbersRead DEF StringsBounded

-----------------------------------------------------------------------------
(* All the modules together. *)
LibraryInv ==
  /\ part \in Part
  /\ FaultTypeOK /\ WdTypeOK /\ AsInv /\ AdTypeOK /\ FlInv /\ BcTypeOK /\ TmInv
  /\ SiTypeOK /\ InitInv
  /\ StTypeOK /\ StringsBounded
  /\ YmTypeOK /\ SnInv

LEMMA Untouched ==
  ASSUME LibraryInv
  PROVE  /\ UNCHANGED faultVars => FaultTypeOK'
         /\ UNCHANGED wdVars => WdTypeOK'
         /\ UNCHANGED asVars => AsInv'
         /\ UNCHANGED adVars => AdTypeOK'
         /\ UNCHANGED flVars => FlInv'
         /\ UNCHANGED bcVars => BcTypeOK'
         /\ UNCHANGED tmVars => TmInv'
         /\ UNCHANGED siVars => SiTypeOK' /\ InitInv'
         /\ UNCHANGED stVars => StTypeOK' /\ StringsBounded'
         /\ UNCHANGED ymVars => YmTypeOK'
         /\ UNCHANGED snVars => SnInv'
<1>1. UNCHANGED faultVars => FaultTypeOK'
  BY DEF LibraryInv, FaultTypeOK, faultVars
<1>2. UNCHANGED wdVars => WdTypeOK'
  BY DEF LibraryInv, WdTypeOK, wdVars
<1>3. UNCHANGED asVars => AsInv'
  BY DEF LibraryInv, AsInv, asVars
<1>4. UNCHANGED adVars => AdTypeOK'
  BY DEF LibraryInv, AdTypeOK, adVars
<1>5. UNCHANGED flVars => FlInv'
  BY DEF LibraryInv, FlInv, FlTypeOK, ShownFirst, flVars
<1>6. UNCHANGED bcVars => BcTypeOK'
  BY DEF LibraryInv, BcTypeOK, bcVars
<1>7. UNCHANGED tmVars => TmInv'
  BY DEF LibraryInv, TmInv, TmTypeOK, Unaccounted, tmVars
<1>8. UNCHANGED siVars => SiTypeOK' /\ InitInv'
  BY DEF LibraryInv, SiTypeOK, InitInv, siVars
<1>9. ASSUME UNCHANGED stVars
      PROVE  StTypeOK' /\ StringsBounded'
  <2>1. /\ stMemory' = stMemory /\ stBefore' = stBefore
        /\ stCall' = stCall /\ stResult' = stResult
    BY <1>9 DEF stVars
  <2>2. StTypeOK'
    BY <2>1 DEF LibraryInv, StTypeOK
  <2>3. (StringsTerminated => StringsTerminated') /\ (MoveIsCopy => MoveIsCopy')
    BY <2>1 DEF StringsTerminated, MoveIsCopy
  <2>4. StringsBounded'
    BY <2>1, <2>3, NumbersRead DEF LibraryInv, StringsBounded
  <2>5. QED
    BY <2>2, <2>4
<1>10. UNCHANGED ymVars => YmTypeOK'
  BY DEF LibraryInv, YmTypeOK, ymVars
<1>11. UNCHANGED snVars => SnInv'
  BY DEF LibraryInv, SnInv, SnTypeOK, snVars
<1>12. QED
  BY <1>1, <1>2, <1>3, <1>4, <1>5, <1>6, <1>7, <1>8, <1>9, <1>10, <1>11

LEMMA LibraryInvStep ==
  ASSUME LibraryInv, [Next]_libraryVars
  PROVE  LibraryInv'
<1>1. InitInv'
  BY InitInvStep DEF LibraryInv
<1>2. CASE UNCHANGED libraryVars
  <2>1. /\ part' = part /\ UNCHANGED faultVars /\ UNCHANGED wdVars /\ UNCHANGED asVars
        /\ UNCHANGED adVars /\ UNCHANGED flVars /\ UNCHANGED bcVars /\ UNCHANGED tmVars
        /\ UNCHANGED siVars /\ UNCHANGED stVars /\ UNCHANGED ymVars /\ UNCHANGED snVars
    BY <1>2 DEF libraryVars
  <2>2. QED
    BY <1>1, <2>1, Untouched DEF LibraryInv
<1>3. CASE Watchdog
  <2>1. WdNext /\ part' = part /\ UNCHANGED asVars
        /\ UNCHANGED adVars /\ UNCHANGED flVars /\ UNCHANGED bcVars /\ UNCHANGED tmVars
        /\ UNCHANGED siVars /\ UNCHANGED stVars /\ UNCHANGED ymVars /\ UNCHANGED snVars
    BY <1>3 DEF Watchdog
  <2>2. WdTypeOK' /\ FaultTypeOK'
    BY <2>1, WdTypeStep DEF LibraryInv
  <2>3. QED
    BY <1>1, <2>1, <2>2, Untouched DEF LibraryInv
<1>4. CASE Assertions
  <2>1. AsNext /\ part' = part /\ UNCHANGED wdVars
        /\ UNCHANGED adVars /\ UNCHANGED flVars /\ UNCHANGED bcVars /\ UNCHANGED tmVars
        /\ UNCHANGED siVars /\ UNCHANGED stVars /\ UNCHANGED ymVars /\ UNCHANGED snVars
    BY <1>4 DEF Assertions
  <2>2. AsInv' /\ FaultTypeOK'
    BY <2>1, AsInvStep DEF LibraryInv
  <2>3. QED
    BY <1>1, <2>1, <2>2, Untouched DEF LibraryInv
<1>5. CASE Attitude
  <2>1. AdNext /\ part' = part /\ UNCHANGED wdVars /\ UNCHANGED asVars
        /\ UNCHANGED flVars /\ UNCHANGED bcVars /\ UNCHANGED tmVars
        /\ UNCHANGED siVars /\ UNCHANGED stVars /\ UNCHANGED ymVars /\ UNCHANGED snVars
    BY <1>5 DEF Attitude
  <2>2. AdTypeOK' /\ FaultTypeOK'
    BY <2>1, AdTypeStep DEF LibraryInv
  <2>3. QED
    BY <1>1, <2>1, <2>2, Untouched DEF LibraryInv
<1>6. CASE Log
  <2>1. FlNext /\ part' = part /\ UNCHANGED faultVars /\ UNCHANGED wdVars /\ UNCHANGED asVars
        /\ UNCHANGED adVars /\ UNCHANGED bcVars /\ UNCHANGED tmVars
        /\ UNCHANGED siVars /\ UNCHANGED stVars /\ UNCHANGED ymVars /\ UNCHANGED snVars
    BY <1>6 DEF Log
  <2>2. FlInv'
    BY <2>1, FlTypeStep, ShownFirstStep DEF LibraryInv, FlInv
  <2>3. QED
    BY <1>1, <2>1, <2>2, Untouched DEF LibraryInv
<1>7. CASE Beacons
  <2>1. BcNext /\ part' = part /\ UNCHANGED faultVars /\ UNCHANGED wdVars /\ UNCHANGED asVars
        /\ UNCHANGED adVars /\ UNCHANGED flVars /\ UNCHANGED tmVars
        /\ UNCHANGED siVars /\ UNCHANGED stVars /\ UNCHANGED ymVars /\ UNCHANGED snVars
    BY <1>7 DEF Beacons
  <2>2. BcTypeOK'
    BY <2>1, BcTypeStep DEF LibraryInv
  <2>3. QED
    BY <1>1, <2>1, <2>2, Untouched DEF LibraryInv
<1>8. CASE Frames
  <2>1. TmNext /\ part' = part /\ UNCHANGED faultVars /\ UNCHANGED wdVars /\ UNCHANGED asVars
        /\ UNCHANGED adVars /\ UNCHANGED flVars /\ UNCHANGED bcVars
        /\ UNCHANGED siVars /\ UNCHANGED stVars /\ UNCHANGED ymVars /\ UNCHANGED snVars
    BY <1>8 DEF Frames
  <2>2. TmInv'
    BY <2>1, TmInvStep DEF LibraryInv
  <2>3. QED
    BY <1>1, <2>1, <2>2, Untouched DEF LibraryInv
<1>9. CASE Initialisation
  <2>1. SiNext /\ part' = part /\ UNCHANGED faultVars /\ UNCHANGED wdVars /\ UNCHANGED asVars
        /\ UNCHANGED adVars /\ UNCHANGED flVars /\ UNCHANGED bcVars /\ UNCHANGED tmVars
        /\ UNCHANGED stVars /\ UNCHANGED ymVars /\ UNCHANGED snVars
    BY <1>9 DEF Initialisation
  <2>2. SiTypeOK'
    BY <1>1, <2>1, SiTypeStep DEF LibraryInv
  <2>3. QED
    BY <1>1, <2>1, <2>2, Untouched DEF LibraryInv
<1>10. CASE Strings
  <2>1. StNext /\ part' = part /\ UNCHANGED faultVars /\ UNCHANGED wdVars /\ UNCHANGED asVars
        /\ UNCHANGED adVars /\ UNCHANGED flVars /\ UNCHANGED bcVars /\ UNCHANGED tmVars
        /\ UNCHANGED siVars /\ UNCHANGED ymVars /\ UNCHANGED snVars
    BY <1>10 DEF Strings
  <2>2. StTypeOK' /\ StringsBounded'
    BY <2>1, StStep DEF LibraryInv
  <2>3. QED
    BY <1>1, <2>1, <2>2, Untouched DEF LibraryInv
<1>11. CASE Configuration
  <2>1. YmNext /\ part' = part /\ UNCHANGED faultVars /\ UNCHANGED wdVars /\ UNCHANGED asVars
        /\ UNCHANGED adVars /\ UNCHANGED flVars /\ UNCHANGED bcVars /\ UNCHANGED tmVars
        /\ UNCHANGED siVars /\ UNCHANGED stVars /\ UNCHANGED snVars
    BY <1>11 DEF Configuration
  <2>2. YmTypeOK'
    BY <2>1, YmTypeStep DEF LibraryInv
  <2>3. QED
    BY <1>1, <2>1, <2>2, Untouched DEF LibraryInv
<1>12. CASE Table
  <2>1. SnNext /\ part' = part /\ UNCHANGED faultVars /\ UNCHANGED wdVars /\ UNCHANGED asVars
        /\ UNCHANGED adVars /\ UNCHANGED flVars /\ UNCHANGED bcVars /\ UNCHANGED tmVars
        /\ UNCHANGED siVars /\ UNCHANGED stVars /\ UNCHANGED ymVars
    BY <1>12 DEF Table
  <2>2. SnInv'
    BY <2>1, SnInvStep DEF LibraryInv
  <2>3. QED
    BY <1>1, <2>1, <2>2, Untouched DEF LibraryInv
<1>13. QED
  BY <1>2, <1>3, <1>4, <1>5, <1>6, <1>7, <1>8, <1>9, <1>10, <1>11, <1>12 DEF Next

LEMMA LibraryInvStart == Init => LibraryInv
<1>1. SUFFICES ASSUME Init
               PROVE  LibraryInv
  OBVIOUS
<1>2. FaultTypeOK
  <2>1. /\ faults = <<>> /\ faultFile = <<>> /\ faultWriting = FALSE
        /\ stamp = 0 /\ faultCut = FALSE
    BY <1>1 DEF Init, FaultInit
  <2>2. FaultDepth \in Nat \ {0} /\ FaultStamps \in Nat \ {0}
    BY FaultLogAssumption
  <2>3. <<>> \in Seq(FaultLogEntry) /\ Len(<<>>) = 0 /\ 0 <= FaultDepth
    BY <2>2, EmptySeq
  <2>4. 0 \in Stamp
    BY <2>2 DEF Stamp
  <2>5. QED
    BY <2>1, <2>3, <2>4 DEF FaultTypeOK
<1>3. WdTypeOK
  BY <1>1, WatchdogValues, WatchdogConstants DEF Init, WdInit, WdTypeOK
<1>4. AsInv
  <2>1. /\ asLog = [s \in AsSlot |-> Nowhere] /\ asIndex = 0 /\ asCount = 0
        /\ asCritical = FALSE /\ asTriggers = 0
    BY <1>1 DEF Init, AsInit
  <2>2. 0 \in AsSlot /\ 0 \in 0..FailureLog /\ 0 \in 0..(CountRange - 1)
        /\ \A s \in AsSlot : ~(s < 0)
    BY AsConstants
  <2>3. QED
    BY <2>1, <2>2 DEF AsInv
<1>5. AdTypeOK
  <2>1. /\ adReady = FALSE /\ adMode = "IDLE" /\ adPrevious = FALSE /\ adSlow = TRUE
        /\ adDetumble = DetumbleTimeout + 1 /\ adSettling = NotSettling
        /\ adComplete = FALSE /\ adMtq = "off" /\ adFast = SettlingTime + 1
    BY <1>1 DEF Init, AdInit
  <2>2. SettlingTime \in Nat /\ DetumbleTimeout \in Nat
    BY AdcsAssumption
  <2>3. DetumbleTimeout + 1 \in 0..(DetumbleTimeout + 1)
        /\ SettlingTime + 1 \in 0..(SettlingTime + 1)
    BY <2>2
  <2>4. QED
    BY <2>1, <2>3 DEF AdTypeOK, AdcsMode
<1>6. FlInv
  <2>1. /\ flBuffer = [s \in FlSlot |-> 0] /\ flWrite = 0 /\ flRead = 0 /\ flCount = 0
        /\ flSequence = 0 /\ flLevel \in LogLevel /\ flCallback = FALSE
        /\ flCalls = <<>> /\ flReentered = FALSE
    BY <1>1 DEF Init, FlInit
  <2>2. 0 \in 0..LogSize /\ 0 = (0 + 0) % LogSize
    <3>1. LogSize \in Nat \ {0}
      BY LogConstants
    <3>2. 0 % LogSize = 0
      BY <3>1, WholeTurns
    <3>3. QED
      BY <3>1, <3>2
  <2>3. <<>> \in Seq(-1..(LogSize - 1)) /\ Len(<<>>) = 0 /\ 0 <= MaxCalls
    BY LogConstants, EmptySeq
  <2>4. FlTypeOK
    BY <2>1, <2>2, <2>3, LogConstants DEF FlTypeOK
  <2>5. ShownFirst
    BY <2>1 DEF ShownFirst
  <2>6. QED
    BY <2>4, <2>5 DEF FlInv
<1>7. BcTypeOK
  <2>1. /\ bcNow = ClockStart /\ bcReady = FALSE /\ bcLast = 0 /\ bcInterval = BeaconInterval["ACTIVE"]
        /\ bcStored = "none" /\ bcAi = FALSE /\ bcTemplate = 0 /\ bcStats = NoStats
        /\ bcStep = "idle" /\ bcContent = NoContent
    BY <1>1 DEF Init, BcInit
  <2>2. TimeWrap \in Nat \ {0} /\ BeaconRange \in Nat \ {0} /\ TemplateCount \in Nat \ {0}
        /\ ClockStart \in 0..Horizon /\ "ACTIVE" \in DOMAIN BeaconInterval
    BY BeaconAssumption
  <2>3. 0 \in 0..(TimeWrap - 1) /\ 0 \in 0..(BeaconRange - 1)
        /\ 0 \in 0..(TemplateCount - 1)
    BY <2>2
  <2>4. NoStats \in [sequence : 0..(BeaconRange - 1), ai : 0..(BeaconRange - 1),
                     template : 0..(BeaconRange - 1)]
    BY <2>3 DEF NoStats
  <2>5. NoContent \in BeaconContent
    BY DEF NoContent, BeaconContent
  <2>6. QED
    BY <2>1, <2>2, <2>3, <2>4, <2>5 DEF BcTypeOK, BeaconText
<1>8. TmInv
  <2>1. /\ tmReady = FALSE /\ tmRate = DefaultRate /\ tmAge = MaxRate /\ tmStats = NoFrames
        /\ tmSystem = [beacons |-> 0, packets |-> 0] /\ tmOpen = 0
    BY <1>1 DEF Init, TmInit
  <2>2. FrameRange \in Nat \ {0} /\ MaxRate \in Nat /\ DefaultRate \in MinRate..MaxRate
    BY TelemetryAssumption
  <2>3. 0 \in 0..(FrameRange - 1) /\ MaxRate \in 0..MaxRate /\ 0 % FrameRange = 0
    BY <2>2, WholeTurns
  <2>4. /\ NoFrames.transmitted + NoFrames.failed + 0 - NoFrames.generated = 0
        /\ NoFrames \in [generated : 0..(FrameRange - 1), transmitted : 0..(FrameRange - 1),
                         failed : 0..(FrameRange - 1)]
    BY <2>3 DEF NoFrames
  <2>5. TmTypeOK /\ Unaccounted = 0
    BY <2>1, <2>2, <2>3, <2>4 DEF TmTypeOK, Unaccounted
  <2>6. QED
    BY <2>5 DEF TmInv
<1>9. SiTypeOK /\ InitInv
  <2>1. /\ siStage = 0 /\ siStatus = "OK" /\ siMagic = FALSE /\ siBoots = 0
        /\ siReason = "POWER_ON" /\ siClock = FALSE /\ siTests = Untested
        /\ siRamSeen = FALSE /\ siCpuSeen = FALSE
    BY <1>1 DEF Init, SiInit
  <2>2. Len(Stages) = 7
    BY DEF Stages
  <2>3. siTests \in [cpu : BOOLEAN, ram : BOOLEAN] /\ ~siTests.ram /\ ~siTests.cpu
    BY <2>1 DEF Untested
  <2>4. siStage \in 0..7 /\ siStage \in 0..Len(Stages) /\ ~(siStage # 0) /\ ~(siStage = 7)
    BY <2>1, <2>2
  <2>5. SiTypeOK
    BY <2>1, <2>3, <2>4 DEF SiTypeOK, InitStatus
  <2>6. InitInv
    BY <2>1, <2>3, <2>4 DEF InitInv
  <2>7. QED
    BY <2>5, <2>6
<1>10. StTypeOK /\ StringsBounded
  BY <1>1, StStart DEF Init
<1>11. YmTypeOK
  <2>1. /\ ymDocument = <<>> /\ ymLevel = 0 /\ ymPath = <<>> /\ ymReported = <<>>
        /\ ymError = FALSE
    BY <1>1 DEF Init, YmInit, NoPath
  <2>2. {MaxLines, MaxIndent} \subseteq Nat
    BY YamlAssumption
  <2>3. <<>> \in Seq(Line) /\ Len(<<>>) = 0 /\ <<>> \in Seq(1..MaxLines)
    BY EmptySeq
  <2>4. 0 \in 0..MaxIndent /\ 0 <= MaxLines
    BY <2>2
  <2>5. QED
    BY <2>1, <2>3, <2>4 DEF YmTypeOK
<1>12. SnInv
  BY <1>1, SensorConstants DEF Init, SnInit, SnInv, SnTypeOK, Tables
<1>13. part \in Part
  BY <1>1 DEF Init
<1>14. QED
  BY <1>2, <1>3, <1>4, <1>5, <1>6, <1>7, <1>8, <1>9, <1>10, <1>11, <1>12, <1>13 DEF LibraryInv

LEMMA LibraryInvAlways == Spec => []LibraryInv
<1>1. LibraryInv /\ [Next]_libraryVars => LibraryInv'
  BY LibraryInvStep
<1>2. QED
  BY LibraryInvStart, <1>1, PTL DEF Spec

(***************************************************************************)
(* The state of every library module has its type, the indices of the      *)
(* rings agree with their counts, and no failing assertion is logged       *)
(* twice.                                                                  *)
(***************************************************************************)
THEOREM TypeCorrect == Spec => []TypeOK
<1>1. LibraryInv => TypeOK
  <2>1. AsInv => AsTypeOK
    BY GetLogSlots DEF AsTypeOK, AsInv
  <2>2. QED
    BY <2>1 DEF LibraryInv, TypeOK, FlInv, TmInv, SnInv
<1>2. QED
  BY <1>1, LibraryInvAlways, PTL

(* The parser's path, in whatever module the step is. *)
LEMMA PathInvAlways == Spec => []PathInv
<1>1. Init => PathInv
  <2>1. ASSUME Init
        PROVE  PathInv
    <3>1. /\ ymDocument = <<>> /\ ymLevel = 0 /\ ymPath = NoPath /\ ymReported = NoPath
          /\ NoPath = <<>>
      BY <2>1 DEF Init, YmInit, NoPath
    <3>2. Keys = {} /\ DOMAIN ymPath = {}
      BY <3>1 DEF Keys
    <3>3. QED
      BY <3>1, <3>2 DEF PathInv, PathsAreParents, PathShape
  <2>2. QED
    BY <2>1
<1>2. LibraryInv /\ PathInv /\ [Next]_libraryVars => PathInv'
  <2>1. ASSUME LibraryInv, PathInv, [Next]_libraryVars
        PROVE  PathInv'
    <3>1. CASE YmNext
      BY <2>1, <3>1, PathInvStep DEF LibraryInv
    <3>2. CASE UNCHANGED ymVars
      <4>1. /\ ymDocument' = ymDocument /\ ymLevel' = ymLevel /\ ymPath' = ymPath
            /\ ymReported' = ymReported /\ ymError' = ymError
        BY <3>2 DEF ymVars
      <4>2. Keys' = Keys
        BY <4>1 DEF Keys
      <4>3. (PathShape' <=> PathShape) /\ (WellIndented' <=> WellIndented)
        BY <4>1, <4>2 DEF PathShape, Open, IsLast, WellIndented, Following
      <4>4. PathsAreParents' <=> PathsAreParents
        BY <4>1, <4>2, <4>3 DEF PathsAreParents, IsPathOf, Encloses
      <4>5. QED
        BY <2>1, <4>1, <4>3, <4>4 DEF PathInv
    <3>3. QED
      BY <2>1, <3>1, <3>2
         DEF Next, Watchdog, Assertions, Attitude, Log, Beacons, Frames, Initialisation,
             Strings, Configuration, Table, libraryVars
  <2>2. QED
    BY <2>1
<1>3. QED
  BY <1>1, <1>2, LibraryInvAlways, PTL DEF Spec

(***************************************************************************)
(* safe_string.c writes nothing outside the buffer of a call and nothing   *)
(* at all when it refuses, ends every string it makes, moves overlapping   *)
(* regions as if through a second buffer, and prints numbers that read     *)
(* back, the smallest one included; yaml_parser.c reports each value of a  *)
(* well indented document under exactly the keys that enclose it.          *)
(***************************************************************************)
THEOREM TextRightHolds == Spec => []TextRight
<1>1. LibraryInv /\ PathInv => TextRight
  BY DEF LibraryInv, PathInv, TextRight
<1>2. QED
  BY <1>1, LibraryInvAlways, PathInvAlways, PTL

(***************************************************************************)
(* The flight log, with a write index, a read index and a callback that    *)
(* may log again, and the assertion log, which only writes, implement the  *)
(* abstract bounded log.                                                   *)
(***************************************************************************)
THEOREM RingsAreBoundedLogsHolds == Spec => RingsAreBoundedLogs
<1>1. ASSUME Init
      PROVE  FlBounded!Init /\ AsBounded!Init
  <2>1. /\ flReentered = FALSE /\ flCalls = <<>> /\ flCount = 0 /\ asCount = 0
    BY <1>1 DEF Init, FlInit, AsInit
  <2>2. FlEntries = <<>> /\ ~FlShown /\ GetLog = <<>>
    BY <2>1 DEF FlEntries, FlShown, GetLog
  <2>3. QED
    BY <2>1, <2>2 DEF FlBounded!Init, AsBounded!Init
<1>2. ASSUME LibraryInv, LibraryInv', [Next]_libraryVars
      PROVE  [FlBounded!Next]_FlBounded!vars
  <2>1. \/ \E e \in FlSequences : FlKept' = FlBounded!Added(FlKept, e)
        \/ FlKept' = <<>>
        \/ FlKept' = FlKept
    <3>1. CASE UNCHANGED flVars
      BY <3>1 DEF FlKept, FlShown, FlEntries, InCallback, flVars
    <3>2. CASE FlNext
      BY <1>2, <3>2, FlightLogRefines DEF LibraryInv
    <3>3. QED
      BY <1>2, <3>1, <3>2
         DEF Next, Watchdog, Assertions, Attitude, Log, Beacons, Frames, Initialisation,
             Strings, Configuration, Table, libraryVars
  <2>2. QED
    BY <2>1 DEF FlBounded!Next, FlBounded!Add, FlBounded!Clear, FlBounded!vars, FlKept
<1>3. ASSUME LibraryInv, LibraryInv', [Next]_libraryVars
      PROVE  [AsBounded!Next]_AsBounded!vars
  <2>1. \/ \E e \in Site : GetLog' = AsBounded!Added(GetLog, e)
        \/ GetLog' = <<>>
        \/ GetLog' = GetLog
    <3>1. CASE UNCHANGED asVars
      BY <3>1 DEF GetLog, asVars
    <3>2. CASE AsNext
      BY <1>3, <3>2, AssertLogRefines DEF LibraryInv
    <3>3. QED
      BY <1>3, <3>1, <3>2
         DEF Next, Watchdog, Assertions, Attitude, Log, Beacons, Frames, Initialisation,
             Strings, Configuration, Table, libraryVars
  <2>2. QED
    BY <2>1 DEF AsBounded!Next, AsBounded!Add, AsBounded!Clear, AsBounded!vars
<1>4. QED
  BY <1>1, <1>2, <1>3, LibraryInvAlways, PTL
     DEF Spec, RingsAreBoundedLogs, FlBounded!Spec, AsBounded!Spec
=============================================================================
