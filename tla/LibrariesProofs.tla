--------------------------- MODULE LibrariesProofs ---------------------------
(***************************************************************************)
(* Theorems about the library modules for every value of their periods,    *)
(* timeouts, thresholds and ranges.                                        *)
(***************************************************************************)
EXTENDS Libraries, TLAPS

-----------------------------------------------------------------------------
(* System initialisation: a test result that is kept as passed is that of  *)
(* a test that did pass, a context is complete only outside the stages,    *)
(* and the last stage comes after the boot reason.                         *)
InitInv ==
  /\ siTests \in [cpu : BOOLEAN, ram : BOOLEAN]
  /\ siStage \in 0..7
  /\ siTests.ram => siRamSeen
  /\ siTests.cpu => siCpuSeen
  /\ siStage # 0 => ~siMagic /\ siBoots = 0
  /\ siStage = 7 => siReason = "POWER_ON"
  /\ siMagic => siStatus = "OK" /\ siBoots = 1 /\ siReason = "POWER_ON"

LEMMA StageNumbers ==
  ASSUME siStage \in 0..7
  PROVE  /\ AtStage("Clocks") => siStage = 1
         /\ AtStage("Peripherals") => siStage = 2
         /\ AtStage("Watchdog") => siStage = 3
         /\ AtStage("Memory Test") => siStage = 4
         /\ AtStage("Config Load") => siStage = 5
         /\ AtStage("Boot Reason") <=> siStage = 6
         /\ AtStage("Self-Test") => siStage = 7
<1>1. /\ Stages[1] = "Clocks" /\ Stages[2] = "Peripherals" /\ Stages[3] = "Watchdog"
      /\ Stages[4] = "Memory Test" /\ Stages[5] = "Config Load"
      /\ Stages[6] = "Boot Reason" /\ Stages[7] = "Self-Test"
  BY DEF Stages
<1>2. siStage \in {0, 1, 2, 3, 4, 5, 6, 7}
  OBVIOUS
<1>3. QED
  BY <1>1, <1>2 DEF AtStage

LEMMA InitInvStep ==
  ASSUME InitInv, [Next]_libraryVars
  PROVE  InitInv'
<1>1. CASE UNCHANGED siVars
  BY <1>1 DEF InitInv, siVars
<1>2. CASE BeginInit
  BY <1>2 DEF InitInv, BeginInit, Untested
<1>3. CASE ConfigureStage
  <2>1. siStage \in {1, 2, 3, 5, 6} /\ siStage' = siStage + 1
    BY <1>3, StageNumbers DEF InitInv, ConfigureStage, StagePasses
  <2>2. siStage' = 7 => siReason' = "POWER_ON"
    <3>1. siStage = 6 => siReason' = "POWER_ON"
      BY <1>3, StageNumbers DEF InitInv, ConfigureStage
    <3>2. QED
      BY <2>1, <3>1
  <2>3. UNCHANGED <<siTests, siRamSeen, siCpuSeen, siMagic, siBoots>>
    BY <1>3 DEF ConfigureStage, StagePasses
  <2>4. siStage # 0 /\ ~siMagic /\ siBoots = 0
    BY <2>1 DEF InitInv
  <2>5. QED
    BY <2>1, <2>2, <2>3, <2>4 DEF InitInv
<1>4. ASSUME NEW passed \in BOOLEAN, MemoryStage(passed)
      PROVE  InitInv'
  <2>1. siStage = 4
    BY <1>4, StageNumbers DEF InitInv, MemoryStage
  <2>2. siStage' \in {0, 5} /\ ~siMagic' /\ siBoots' = 0
    <3>1. ~siMagic /\ siBoots = 0
      BY <2>1 DEF InitInv
    <3>2. UNCHANGED <<siMagic, siBoots>> /\ (siStage' = 0 \/ siStage' = siStage + 1)
      BY <1>4 DEF MemoryStage, StagePasses, StageFails
    <3>3. QED
      BY <2>1, <3>1, <3>2
  <2>3. /\ siTests' \in [cpu : BOOLEAN, ram : BOOLEAN]
        /\ siTests'.ram = passed /\ siTests'.cpu = siTests.cpu
        /\ siRamSeen' = passed /\ siCpuSeen' = siCpuSeen
    BY <1>4 DEF InitInv, MemoryStage, MemoryTest
  <2>4. QED
    BY <2>2, <2>3 DEF InitInv
<1>5. ASSUME NEW cpu \in BOOLEAN, SelfTestStage(cpu)
      PROVE  InitInv'
  <2>1. siStage = 7 /\ siReason' = "POWER_ON"
    <3>1. siStage = 7
      BY <1>5, StageNumbers DEF InitInv, SelfTestStage
    <3>2. QED
      BY <1>5, <3>1 DEF InitInv, SelfTestStage
  <2>2. siStage' = 0 /\ (siMagic' => siStatus' = "OK" /\ siBoots' = 1)
    BY <1>5, <2>1 DEF InitInv, SelfTestStage, InitEnds, StageFails
  <2>3. /\ siTests' \in [cpu : BOOLEAN, ram : BOOLEAN]
        /\ siTests'.cpu = cpu /\ siTests'.ram = siTests.ram
        /\ siCpuSeen' = cpu /\ siRamSeen' = siRamSeen
    BY <1>5 DEF InitInv, SelfTestStage, SelfTests
  <2>4. QED
    BY <2>1, <2>2, <2>3 DEF InitInv
<1>6. ASSUME NEW passed \in BOOLEAN, TestMemory(passed) \/ RunSelfTests(passed)
      PROVE  InitInv'
  BY <1>6 DEF InitInv, TestMemory, RunSelfTests, MemoryTest, SelfTests
<1>7. QED
  BY <1>1, <1>2, <1>3, <1>4, <1>5, <1>6
     DEF Next, Watchdog, Assertions, Attitude, Log, Beacons, Frames, Initialisation,
         Strings, Configuration, Table, SiNext, libraryVars

(***************************************************************************)
(* Whatever system_init and the single tests are called for, and in which  *)
(* order, system_should_enter_safe_mode says yes unless the latest test of *)
(* the memory and the latest of the processor passed.                      *)
(***************************************************************************)
THEOREM UntestedMeansSafeHolds == Spec => []UntestedMeansSafe
<1>1. Init => InitInv
  BY DEF Init, SiInit, InitInv, Untested
<1>2. InitInv /\ [Next]_libraryVars => InitInv'
  BY InitInvStep
<1>3. InitInv => UntestedMeansSafe
  BY DEF InitInv, UntestedMeansSafe, ShouldEnterSafeMode
<1>4. QED
  BY <1>1, <1>2, <1>3, PTL DEF Spec

-----------------------------------------------------------------------------
(* Attitude control: in DETUMBLE the settling timer is no older than the   *)
(* last estimate above the threshold.  In another mode it may be.          *)
AdcsInv ==
  /\ adSettling \in {NotSettling} \union 0..(SettlingTime + 1)
  /\ adFast \in 0..(SettlingTime + 1)
  /\ adMode = "DETUMBLE" /\ adSettling # NotSettling => adSettling <= adFast

LEMMA UpdateKeepsAdcsInv ==
  ASSUME AdcsInv, NEW rate \in Estimate, NEW sun \in BOOLEAN, AdcsUpdate(rate, sun)
  PROVE  AdcsInv'
<1>1. SettlingTime \in Nat \ {0} /\ NotSettling = -1
  BY AdcsAssumption DEF NotSettling
<1>2. (adSlow' => adFast' = adFast) /\ (~adSlow' => adFast' = 0)
  BY DEF AdcsUpdate, EstimateRate
<1>3. adFast' \in 0..(SettlingTime + 1)
  <2>1. adFast' \in {0, adFast}
    BY <1>2
  <2>2. QED
    BY <1>1, <2>1 DEF AdcsInv
<1>4. CASE DetumbleTimedOut
  <2>1. adMode' = "IDLE" /\ adSettling' = adSettling
    BY <1>4 DEF DetumbleTimedOut
  <2>2. QED
    BY <1>3, <2>1 DEF AdcsInv
<1>5. CASE Settle
  <2>1. adMode = "DETUMBLE" /\ adFast' = adFast
    BY <1>2, <1>5 DEF Settle
  <2>2. adSettling' = IF adSettling = NotSettling THEN 0 ELSE adSettling
    BY <1>5 DEF Settle
  <2>3. QED
    BY <1>1, <1>3, <2>1, <2>2 DEF AdcsInv
<1>6. CASE Tumble
  <2>1. adSettling' = NotSettling
    BY <1>6 DEF Tumble
  <2>2. QED
    BY <1>3, <2>1 DEF AdcsInv
<1>7. CASE FollowSun(sun)
  <2>1. adMode' # "DETUMBLE" /\ adSettling' = adSettling
    BY <1>7 DEF FollowSun
  <2>2. QED
    BY <1>3, <2>1 DEF AdcsInv
<1>8. QED
  BY <1>4, <1>5, <1>6, <1>7 DEF AdcsUpdate

LEMMA AdcsInvStep ==
  ASSUME AdcsInv, [Next]_libraryVars
  PROVE  AdcsInv'
<1>1. SettlingTime \in Nat \ {0} /\ NotSettling = -1
  BY AdcsAssumption DEF NotSettling
<1>2. CASE UNCHANGED adVars
  BY <1>2 DEF AdcsInv, adVars
<1>3. CASE AdcsInitialize
  <2>1. adMode' = "IDLE" /\ adSettling' = NotSettling /\ adFast' = adFast
    BY <1>3 DEF AdcsInitialize, AdcsReset
  <2>2. QED
    BY <2>1 DEF AdcsInv
<1>4. ASSUME NEW mode \in AdcsMode, AdcsSetMode(mode)
      PROVE  AdcsInv'
  <2>1. adFast' = adFast /\ adMode' = mode
    BY <1>4 DEF AdcsSetMode
  <2>2. CASE mode = "DETUMBLE" /\ adMode # "DETUMBLE"
    <3>1. adSettling' = NotSettling
      BY <1>4, <2>2 DEF AdcsSetMode
    <3>2. QED
      BY <2>1, <3>1 DEF AdcsInv
  <2>3. CASE ~(mode = "DETUMBLE" /\ adMode # "DETUMBLE")
    <3>1. adSettling' = adSettling
      BY <1>4, <2>3 DEF AdcsSetMode
    <3>2. QED
      BY <2>1, <2>3, <3>1 DEF AdcsInv
  <2>4. QED
    BY <2>2, <2>3
<1>5. CASE AdcsTick
  <2>1. adMode' = adMode /\ adFast' = Aged(adFast, SettlingTime + 1)
    BY <1>5 DEF AdcsTick
  <2>2. adSettling' = IF adSettling = NotSettling THEN NotSettling
                      ELSE Aged(adSettling, SettlingTime + 1)
    BY <1>5 DEF AdcsTick
  <2>3. QED
    BY <1>1, <2>1, <2>2 DEF AdcsInv, Aged
<1>6. QED
  BY <1>2, <1>3, <1>4, <1>5, UpdateKeepsAdcsInv
     DEF Next, Watchdog, Assertions, Attitude, Log, Beacons, Frames, Initialisation,
         Strings, Configuration, Table, AdNext, libraryVars

(***************************************************************************)
(* adcs_control.c sets detumble_complete only after a whole settling time  *)
(* below the threshold, or after the timeout.                              *)
(***************************************************************************)
THEOREM DetumbleEndsRightlyHolds == Spec => DetumbleEndsRightly
<1> DEFINE Right == adComplete' /\ ~adComplete =>
                      adFast > SettlingTime \/ adDetumble > DetumbleTimeout
<1>1. Init => AdcsInv
  BY AdcsAssumption DEF Init, AdInit, AdcsInv, NotSettling
<1>2. AdcsInv /\ [Next]_libraryVars => AdcsInv'
  BY AdcsInvStep
<1>3. AdcsInv /\ [Next]_libraryVars => [Right]_adVars
  <2>1. ASSUME AdcsInv, Settle, adComplete', ~adComplete
        PROVE  adFast > SettlingTime
    <3>1. SettlingTime \in Nat \ {0} /\ NotSettling = -1
      BY AdcsAssumption DEF NotSettling
    <3>2. adMode = "DETUMBLE" /\ adSettling > SettlingTime
      BY <2>1 DEF Settle
    <3>3. QED
      BY <2>1, <3>1, <3>2 DEF AdcsInv
  <2>2. ASSUME AdcsInv, AdNext
        PROVE  Right
    BY <2>1, <2>2
       DEF AdNext, AdcsInitialize, AdcsReset, AdcsSetMode, AdcsUpdate, AdcsTick,
           DetumbleTimedOut, Tumble, FollowSun
  <2>3. QED
    BY <2>2
       DEF Next, Watchdog, Assertions, Attitude, Log, Beacons, Frames, Initialisation,
           Strings, Configuration, Table, libraryVars
<1>4. QED
  BY <1>1, <1>2, <1>3, PTL DEF Spec, DetumbleEndsRightly

-----------------------------------------------------------------------------
(* The watchdog manager: an entry with m misses has been silent for its    *)
(* period, m - 1 whole intervals and the time since the last check, or for *)
(* as long as ages count.                                                  *)
Silent(t) ==
  \/ wdEntry[t].age = WdMaxAge
  \/ wdEntry[t].age >=
       wdEntry[t].period + 1 + CheckInterval * (wdEntry[t].misses - 1) + wdCheckAge

WatchdogInv ==
  /\ wdEntry \in [WdTask -> WdtTaskEntry]
  /\ wdCheckAge \in 0..WdMaxAge
  /\ \A t \in WdTask :
       /\ wdEntry[t].misses > 0 => Silent(t)
       /\ wdEntry[t].stalled => wdEntry[t].misses = MissThreshold

LEMMA WatchdogNumbers ==
  /\ WdMaxPeriod \in WdPeriods /\ \A p \in WdPeriods : p <= WdMaxPeriod
  /\ WdPeriods \subseteq Nat \ {0}
  /\ CheckInterval \in Nat \ {0} /\ MissThreshold \in Nat \ {0}
  /\ CheckInterval * MissThreshold \in Nat
  /\ CheckInterval * MissThreshold = CheckInterval * (MissThreshold - 1) + CheckInterval
  /\ WdMaxAge = WdMaxPeriod + CheckInterval * MissThreshold /\ WdMaxAge \in Nat
<1>1. WdMaxPeriod \in WdPeriods /\ \A p \in WdPeriods : p <= WdMaxPeriod
  BY WatchdogAssumption DEF WdMaxPeriod
<1>2. CheckInterval \in Nat \ {0} /\ MissThreshold \in Nat \ {0}
  BY WatchdogAssumption
<1>3. CheckInterval * MissThreshold \in Nat
  BY <1>2
<1>4. CheckInterval * MissThreshold = CheckInterval * (MissThreshold - 1) + CheckInterval
  BY <1>2
<1>5. WdMaxAge = WdMaxPeriod + CheckInterval * MissThreshold
  BY DEF WdMaxAge
<1>6. QED
  BY <1>1, <1>2, <1>3, <1>4, <1>5, WatchdogAssumption

LEMMA EntryNumbers ==
  ASSUME NEW e \in WdtTaskEntry
  PROVE  e.period \in Nat /\ e.misses \in Nat /\ e.age \in Nat /\ CheckInterval \in Nat
<1>1. e.period \in WdPeriods /\ e.misses \in 0..MissThreshold /\ e.age \in 0..WdMaxAge
  BY DEF WdtTaskEntry
<1>2. e.period \in Nat /\ CheckInterval \in Nat
  BY <1>1, WatchdogAssumption
<1>3. e.misses \in Nat /\ e.age \in Nat
  BY <1>1
<1>4. QED
  BY <1>2, <1>3

LEMMA ClearedType ==
  Cleared \in WdtTaskEntry /\ Cleared.misses = 0 /\ ~Cleared.stalled
<1>1. WdMaxPeriod \in WdPeriods /\ WdMaxAge \in 0..WdMaxAge /\ 0 \in 0..MissThreshold
  BY WatchdogNumbers
<1>2. QED
  BY <1>1 DEF Cleared, WdtTaskEntry

(* A check that finds every task as it should be, or late once more. *)
LEMMA CheckedEntry ==
  ASSUME WatchdogInv, NEW t \in WdTask, wdCheckAge >= CheckInterval
  PROVE  /\ Checked(t) \in WdtTaskEntry
         /\ Checked(t).age = wdEntry[t].age
         /\ Checked(t).period = wdEntry[t].period
         /\ Checked(t).misses > 0 =>
              \/ Checked(t).age = WdMaxAge
              \/ Checked(t).age >=
                   Checked(t).period + 1 + CheckInterval * (Checked(t).misses - 1)
         /\ Checked(t).stalled => Checked(t).misses = MissThreshold
<1> DEFINE e == wdEntry[t]
           misses == IF e.misses < MissThreshold THEN e.misses + 1 ELSE MissThreshold
<1>1. /\ e \in WdtTaskEntry /\ e.active \in BOOLEAN /\ e.stalled \in BOOLEAN
      /\ e.period \in WdPeriods /\ e.age \in 0..WdMaxAge /\ e.misses \in 0..MissThreshold
  BY DEF WatchdogInv, WdtTaskEntry
<1>2. /\ e.misses > 0 => Silent(t)
      /\ e.stalled => e.misses = MissThreshold
  BY DEF WatchdogInv
<1>3. wdCheckAge \in Nat /\ wdCheckAge >= CheckInterval
  BY WatchdogNumbers DEF WatchdogInv
<1>8. e.age \in Nat /\ e.period \in Nat /\ e.misses \in Nat /\ CheckInterval \in Nat \ {0}
  <2>1. e.age \in Nat /\ e.misses \in Nat
    BY <1>1
  <2>2. e.period \in Nat /\ CheckInterval \in Nat \ {0}
    BY <1>1, WatchdogAssumption
  <2>3. QED
    BY <2>1, <2>2
<1>9. ASSUME e.misses > 0, e.age # WdMaxAge
      PROVE  /\ CheckInterval * (e.misses - 1) \in Nat
             /\ e.age >= e.period + 1 + CheckInterval * (e.misses - 1) + wdCheckAge
  <2>1. CheckInterval * (e.misses - 1) \in Nat
    BY <1>8, <1>9
  <2>2. QED
    BY <1>2, <1>9, <2>1 DEF Silent
<1>10. ASSUME e.misses > 0, e.age # WdMaxAge
       PROVE  e.age >= e.period + 1 + CheckInterval * (e.misses - 1) + CheckInterval
  <2> DEFINE silence == CheckInterval * (e.misses - 1)
  <2>1. silence \in Nat /\ e.age >= e.period + 1 + silence + wdCheckAge
    BY <1>9, <1>10
  <2> HIDE DEF silence
  <2>2. e.age >= e.period + 1 + silence + CheckInterval
    BY <1>3, <1>8, <2>1
  <2>3. QED
    BY <2>2 DEF silence
<1>4. CASE ~e.active
  <2>1. Checked(t) = e
    BY <1>4 DEF Checked
  <2>2. e.misses > 0 /\ e.age # WdMaxAge =>
          e.age >= e.period + 1 + CheckInterval * (e.misses - 1)
    <3> DEFINE silence == CheckInterval * (e.misses - 1)
    <3>1. SUFFICES ASSUME e.misses > 0, e.age # WdMaxAge
                   PROVE  e.age >= e.period + 1 + silence
      OBVIOUS
    <3>2. silence \in Nat /\ e.age >= e.period + 1 + silence + CheckInterval
      BY <1>9, <1>10, <3>1
    <3> HIDE DEF silence
    <3>3. QED
      BY <1>8, <3>2
  <2>3. QED
    BY <1>1, <1>2, <2>1, <2>2
<1>5. CASE e.active /\ ~Missed(t)
  <2>1. Checked(t) = [e EXCEPT !.misses = 0, !.stalled = FALSE]
    BY <1>5 DEF Checked
  <2>2. 0 \in 0..MissThreshold
    BY WatchdogNumbers
  <2>3. /\ Checked(t) \in WdtTaskEntry /\ Checked(t).misses = 0 /\ ~Checked(t).stalled
        /\ Checked(t).age = e.age /\ Checked(t).period = e.period
    BY <1>1, <2>1, <2>2 DEF WdtTaskEntry
  <2>4. QED
    BY <2>3
<1>6. CASE e.active /\ Missed(t)
  <2>1. Checked(t) =
          [e EXCEPT !.misses = misses, !.stalled = (@ \/ misses = MissThreshold)]
    BY <1>6 DEF Checked
  <2>2. misses \in 0..MissThreshold
    BY <1>1, WatchdogNumbers
  <2>3. /\ Checked(t) \in WdtTaskEntry /\ Checked(t).misses = misses
        /\ Checked(t).stalled = (e.stalled \/ misses = MissThreshold)
        /\ Checked(t).age = e.age /\ Checked(t).period = e.period
    BY <1>1, <2>1, <2>2 DEF WdtTaskEntry
  <2>4. e.stalled => misses = MissThreshold
    BY <1>1, <1>2, WatchdogNumbers
  <2>5. e.age >= e.period + 1
    <3>1. e.age > e.period
      BY <1>6 DEF Missed
    <3>2. QED
      BY <1>8, <3>1
  <2>6. CASE e.misses = 0
    <3>1. misses = 1 /\ CheckInterval * (misses - 1) = 0
      BY <2>6, WatchdogNumbers
    <3>2. e.age >= e.period + 1 + CheckInterval * (misses - 1)
      <4> DEFINE after == CheckInterval * (misses - 1)
      <4>1. after = 0
        BY <3>1
      <4> HIDE DEF after
      <4>2. e.age >= e.period + 1 + after
        BY <1>8, <2>5, <4>1
      <4>3. QED
        BY <4>2 DEF after
    <3>3. QED
      BY <2>3, <2>4, <3>2
  <2>7. CASE e.misses > 0 /\ e.age # WdMaxAge
    <3>1. e.age >= e.period + 1 + CheckInterval * (e.misses - 1) + CheckInterval
      BY <1>10, <2>7
    <3>2. CheckInterval * (e.misses - 1) + CheckInterval >= CheckInterval * (misses - 1)
      <4>1. CASE misses = e.misses
        BY <1>1, <2>7, <4>1, WatchdogNumbers
      <4>2. CASE misses = e.misses + 1
        <5>1. CheckInterval * (e.misses - 1) + CheckInterval = CheckInterval * e.misses
          BY <1>1, <2>7, WatchdogNumbers
        <5>2. misses - 1 = e.misses
          BY <1>1, <4>2
        <5>3. QED
          BY <1>1, <5>1, <5>2, WatchdogNumbers
      <4>3. QED
        BY <1>1, <4>1, <4>2, WatchdogNumbers
    <3>3. CheckInterval * (e.misses - 1) \in Int /\ CheckInterval * (misses - 1) \in Int
      BY <1>1, <2>2, WatchdogNumbers
    <3>4. e.age >= e.period + 1 + CheckInterval * (misses - 1)
      <4> DEFINE before == CheckInterval * (e.misses - 1)
                 after == CheckInterval * (misses - 1)
      <4>1. /\ before \in Int /\ after \in Int /\ before + CheckInterval >= after
            /\ e.age >= e.period + 1 + before + CheckInterval
        BY <3>1, <3>2, <3>3
      <4> HIDE DEF before, after
      <4>2. e.age >= e.period + 1 + after
        BY <1>8, <4>1
      <4>3. QED
        BY <4>2 DEF after
    <3>5. QED
      BY <2>3, <2>4, <3>4
  <2>8. QED
    BY <1>1, <2>3, <2>4, <2>6, <2>7
<1>7. QED
  BY <1>1, <1>4, <1>5, <1>6

(* All tasks are cleared, and the next check is due at once. *)
LEMMA ClearedInv ==
  ASSUME wdEntry' = [t \in WdTask |-> Cleared], wdCheckAge' = WdMaxAge
  PROVE  WatchdogInv'
<1>1. wdEntry' \in [WdTask -> WdtTaskEntry]
  BY ClearedType
<1>2. wdCheckAge' \in 0..WdMaxAge
  BY WatchdogNumbers
<1>3. ASSUME NEW t \in WdTask
      PROVE  wdEntry'[t].misses = 0 /\ ~wdEntry'[t].stalled
  BY ClearedType
<1>4. QED
  BY <1>1, <1>2, <1>3 DEF WatchdogInv

(* One entry starts again, the others stay. *)
LEMMA FreshEntryInv ==
  ASSUME WatchdogInv, NEW t \in WdTask, NEW e \in WdtTaskEntry, e.misses = 0, ~e.stalled,
         wdEntry' = [wdEntry EXCEPT ![t] = e], UNCHANGED wdCheckAge
  PROVE  WatchdogInv'
<1>1. wdEntry' \in [WdTask -> WdtTaskEntry] /\ wdCheckAge' \in 0..WdMaxAge
  BY DEF WatchdogInv
<1>2. ASSUME NEW u \in WdTask
      PROVE  /\ wdEntry'[u].misses > 0 => Silent(u)'
             /\ wdEntry'[u].stalled => wdEntry'[u].misses = MissThreshold
  <2>1. CASE u = t
    <3>1. wdEntry'[u] = e
      BY <2>1 DEF WatchdogInv
    <3>2. QED
      BY <3>1
  <2>2. CASE u # t
    <3>1. wdEntry'[u] = wdEntry[u]
      BY <2>2 DEF WatchdogInv
    <3>2. QED
      BY <3>1 DEF WatchdogInv, Silent
  <2>3. QED
    BY <2>1, <2>2
<1>3. QED
  BY <1>1, <1>2 DEF WatchdogInv

LEMMA CheckTasksInv ==
  ASSUME WatchdogInv, wdCheckAge >= CheckInterval, CheckTasks
  PROVE  WatchdogInv'
<1>1. wdEntry' = [t \in WdTask |-> Checked(t)] /\ wdCheckAge' = 0
  BY DEF CheckTasks
<1>2. wdEntry' \in [WdTask -> WdtTaskEntry] /\ wdCheckAge' \in 0..WdMaxAge
  BY <1>1, CheckedEntry, WatchdogNumbers
<1>3. ASSUME NEW t \in WdTask
      PROVE  /\ wdEntry'[t].misses > 0 => Silent(t)'
             /\ wdEntry'[t].stalled => wdEntry'[t].misses = MissThreshold
  <2>1. wdEntry'[t] = Checked(t)
    BY <1>1
  <2>2. ASSUME wdEntry'[t].misses > 0, wdEntry'[t].age # WdMaxAge
        PROVE  wdEntry'[t].age >=
                 wdEntry'[t].period + 1 + CheckInterval * (wdEntry'[t].misses - 1) + 0
    <3>1. Checked(t).age >=
            Checked(t).period + 1 + CheckInterval * (Checked(t).misses - 1)
      BY <2>1, <2>2, CheckedEntry
    <3>2. /\ Checked(t).period \in Nat /\ Checked(t).misses \in Nat
          /\ CheckInterval \in Nat
      BY CheckedEntry, EntryNumbers
    <3> DEFINE sum == Checked(t).period + 1 + CheckInterval * (Checked(t).misses - 1)
    <3>3. sum \in Int
      BY <3>2
    <3> HIDE DEF sum
    <3>4. sum + 0 = sum
      BY <3>3
    <3>5. QED
      BY <2>1, <3>1, <3>4 DEF sum
  <2>3. QED
    BY <1>1, <2>1, <2>2, CheckedEntry DEF Silent
<1>4. QED
  BY <1>2, <1>3 DEF WatchdogInv

LEMMA WdTickInv ==
  ASSUME WatchdogInv, WdTick
  PROVE  WatchdogInv'
<1>1. /\ wdEntry' = [t \in WdTask |-> [wdEntry[t] EXCEPT !.age = Older(@, WdMaxAge)]]
      /\ wdCheckAge' = Older(wdCheckAge, WdMaxAge)
  BY DEF WdTick
<1>2. wdCheckAge' \in 0..WdMaxAge /\ wdCheckAge' <= wdCheckAge + 1
  BY <1>1, WatchdogNumbers DEF Older, WatchdogInv
<1>3. ASSUME NEW t \in WdTask
      PROVE  /\ wdEntry'[t] \in WdtTaskEntry
             /\ wdEntry'[t].misses > 0 => Silent(t)'
             /\ wdEntry'[t].stalled => wdEntry'[t].misses = MissThreshold
  <2> DEFINE e == wdEntry[t]
  <2>1. /\ e \in WdtTaskEntry /\ e.age \in 0..WdMaxAge /\ WdMaxAge \in Nat
    BY WatchdogNumbers DEF WatchdogInv, WdtTaskEntry
  <2>2. Older(e.age, WdMaxAge) \in 0..WdMaxAge
    BY <2>1 DEF Older
  <2>3. wdEntry'[t] = [e EXCEPT !.age = Older(e.age, WdMaxAge)]
    BY <1>1
  <2>4. /\ wdEntry'[t] \in WdtTaskEntry
        /\ wdEntry'[t].misses = e.misses /\ wdEntry'[t].period = e.period
        /\ wdEntry'[t].stalled = e.stalled /\ wdEntry'[t].age = Older(e.age, WdMaxAge)
    BY <2>1, <2>2, <2>3 DEF WdtTaskEntry
  <2>5. ASSUME e.misses > 0
        PROVE  Silent(t)'
    <3> DEFINE bound == e.period + 1 + CheckInterval * (e.misses - 1)
    <3>1. bound \in Int
      <4>1. e.period \in Nat /\ e.misses \in Nat /\ CheckInterval \in Nat
        BY <2>1, EntryNumbers
      <4>2. QED
        BY <4>1
    <3>2. e.age = WdMaxAge \/ e.age >= bound + wdCheckAge
      BY <2>5 DEF WatchdogInv, Silent
    <3> HIDE DEF bound
    <3>3. \/ Older(e.age, WdMaxAge) = WdMaxAge
          \/ Older(e.age, WdMaxAge) >= bound + wdCheckAge'
      <4>1. wdCheckAge \in Int /\ wdCheckAge' \in Int /\ wdCheckAge' <= wdCheckAge + 1
        BY <1>2 DEF WatchdogInv
      <4>2. QED
        BY <2>1, <3>1, <3>2, <4>1 DEF Older
    <3>4. QED
      BY <2>4, <3>3 DEF Silent, bound
  <2>6. QED
    BY <2>4, <2>5 DEF WatchdogInv
<1>4. wdEntry' \in [WdTask -> WdtTaskEntry]
  BY <1>1, <1>3
<1>5. QED
  BY <1>2, <1>3, <1>4 DEF WatchdogInv

LEMMA WatchdogInvStep ==
  ASSUME WatchdogInv, [Next]_libraryVars
  PROVE  WatchdogInv'
<1>1. CASE UNCHANGED <<wdEntry, wdCheckAge>>
  BY <1>1 DEF WatchdogInv, Silent
<1>2. CASE WdInitialize \/ ImminentReset
  BY <1>2, ClearedInv DEF WdInitialize, ImminentReset
<1>3. CASE WdStart
  <2>1. wdEntry' = wdEntry /\ wdCheckAge' = 0
    BY <1>3 DEF WdStart
  <2>2. ASSUME NEW t \in WdTask, wdEntry[t].misses > 0
        PROVE  Silent(t)'
    <3> DEFINE bound == wdEntry[t].period + 1 + CheckInterval * (wdEntry[t].misses - 1)
    <3>1. bound \in Int
      <4>1. wdEntry[t].period \in Nat /\ wdEntry[t].misses \in Nat /\ CheckInterval \in Nat
        BY EntryNumbers DEF WatchdogInv
      <4>2. QED
        BY <4>1
    <3>2. wdEntry[t].age = WdMaxAge \/ wdEntry[t].age >= bound + wdCheckAge
      BY <2>2 DEF WatchdogInv, Silent
    <3>3. wdCheckAge \in Nat /\ wdEntry[t].age \in Int
      BY DEF WatchdogInv, WdtTaskEntry
    <3> HIDE DEF bound
    <3>4. wdEntry[t].age = WdMaxAge \/ wdEntry[t].age >= bound + 0
      BY <3>1, <3>2, <3>3
    <3>5. QED
      BY <2>1, <3>4 DEF Silent, bound
  <2>3. wdCheckAge' \in 0..WdMaxAge
    BY <2>1, WatchdogNumbers
  <2>4. QED
    BY <2>1, <2>2, <2>3 DEF WatchdogInv
<1>4. CASE Kick
  BY <1>1, <1>4, CheckTasksInv DEF Kick
<1>5. ASSUME NEW t \in WdTask, NEW period \in WdPeriods, RegisterTask(t, period)
      PROVE  WatchdogInv'
  <2> DEFINE e == [active |-> TRUE, period |-> period, age |-> 0, misses |-> 0,
                   stalled |-> FALSE]
  <2>1. 0 \in 0..WdMaxAge /\ 0 \in 0..MissThreshold
    BY WatchdogNumbers
  <2>2. e \in WdtTaskEntry /\ e.misses = 0 /\ ~e.stalled
    BY <2>1 DEF WdtTaskEntry
  <2>3. wdEntry' = [wdEntry EXCEPT ![t] = e] /\ UNCHANGED wdCheckAge
    BY <1>5 DEF RegisterTask
  <2>4. QED
    BY <2>2, <2>3, FreshEntryInv
<1>6. ASSUME NEW t \in WdTask, UnregisterTask(t)
      PROVE  WatchdogInv'
  <2>1. wdEntry' = [wdEntry EXCEPT ![t].active = FALSE] /\ wdCheckAge' = wdCheckAge
    BY <1>6 DEF UnregisterTask
  <2>2. wdEntry' \in [WdTask -> WdtTaskEntry]
    BY <2>1 DEF WatchdogInv, WdtTaskEntry
  <2>3. ASSUME NEW u \in WdTask
        PROVE  /\ wdEntry'[u].misses = wdEntry[u].misses
               /\ wdEntry'[u].stalled = wdEntry[u].stalled
               /\ wdEntry'[u].age = wdEntry[u].age
               /\ wdEntry'[u].period = wdEntry[u].period
    BY <2>1 DEF WatchdogInv, WdtTaskEntry
  <2>4. QED
    BY <2>1, <2>2, <2>3 DEF WatchdogInv, Silent
<1>7. ASSUME NEW t \in WdTask, CheckIn(t)
      PROVE  WatchdogInv'
  <2> DEFINE e == [wdEntry[t] EXCEPT !.age = 0, !.misses = 0, !.stalled = FALSE]
  <2>1. 0 \in 0..WdMaxAge /\ 0 \in 0..MissThreshold
    BY WatchdogNumbers
  <2>2. e \in WdtTaskEntry /\ e.misses = 0 /\ ~e.stalled
    BY <2>1 DEF WatchdogInv, WdtTaskEntry
  <2>3. wdEntry' = [wdEntry EXCEPT ![t] = e] /\ UNCHANGED wdCheckAge
    BY <1>7 DEF CheckIn, WatchdogInv
  <2>4. QED
    BY <2>2, <2>3, FreshEntryInv
<1>8. CASE WdNext
  BY <1>2, <1>3, <1>4, <1>5, <1>6, <1>7, <1>8, WdTickInv DEF WdNext
<1>9. QED
  BY <1>1, <1>8
     DEF Next, Watchdog, Assertions, Attitude, Log, Beacons, Frames, Initialisation,
         Strings, Configuration, Table, libraryVars, wdVars

(***************************************************************************)
(* check_task_watchdogs declares no task stalled that has not been silent  *)
(* for its period and all but one of the intervals of the threshold.       *)
(***************************************************************************)
THEOREM NoFalseStallHolds == Spec => []NoFalseStall
<1>1. Init => WatchdogInv
  BY ClearedType, WatchdogNumbers DEF Init, WdInit, WatchdogInv
<1>2. WatchdogInv /\ [Next]_libraryVars => WatchdogInv'
  BY WatchdogInvStep
<1>3. ASSUME WatchdogInv, NEW t \in WdTask, wdEntry[t].stalled
      PROVE  wdEntry[t].age > wdEntry[t].period + CheckInterval * (MissThreshold - 1)
  <2> DEFINE silence == CheckInterval * (MissThreshold - 1)
  <2>1. /\ wdEntry[t].misses = MissThreshold /\ MissThreshold > 0 /\ Silent(t)
    BY <1>3, WatchdogAssumption DEF WatchdogInv
  <2>2. wdEntry[t].age = WdMaxAge \/ wdEntry[t].age >= wdEntry[t].period + 1 + silence + wdCheckAge
    BY <2>1 DEF Silent
  <2>3. WdMaxAge = WdMaxPeriod + (silence + CheckInterval)
    BY WatchdogNumbers
  <2>4. silence \in Nat
    BY WatchdogAssumption
  <2> HIDE DEF silence
  <2>5. /\ wdEntry[t].period \in Nat /\ WdMaxPeriod \in Nat
        /\ wdEntry[t].period <= WdMaxPeriod
        /\ CheckInterval \in Nat \ {0}
    BY <1>3, WatchdogNumbers DEF WatchdogInv, WdtTaskEntry
  <2>6. wdCheckAge \in Nat /\ wdEntry[t].age \in Int
    BY <1>3 DEF WatchdogInv, WdtTaskEntry
  <2>7. wdEntry[t].age > wdEntry[t].period + silence
    BY <2>2, <2>3, <2>4, <2>5, <2>6
  <2>8. QED
    BY <2>7 DEF silence
<1>4. WatchdogInv => NoFalseStall
  BY <1>3 DEF NoFalseStall
<1>5. QED
  BY <1>1, <1>2, <1>4, PTL DEF Spec
=============================================================================
