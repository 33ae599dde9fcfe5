----------------------------- MODULE SystemInit -----------------------------
(***************************************************************************)
(* System initialisation (system_init.c): seven stages in a fixed order,   *)
(* the first failure ends it; the tests may be run again at any time; safe *)
(* mode is advised from what they have left.  All stages succeed as they   *)
(* are written, except those that test the memory and the processor, which *)
(* may fail at any time here.  A progress callback sees each stage begin.  *)
(***************************************************************************)
EXTENDS Integers, Sequences

CONSTANT MaxBootCount   \* SYSTEM_MAX_BOOT_COUNT

ASSUME SystemInitAssumption == MaxBootCount \in Nat \ {0}

VARIABLES
  siStage,      \* stage under way in system_init, 0 outside
  siStatus,     \* init_status
  siMagic,      \* magic is SYSTEM_INIT_MAGIC
  siBoots,      \* boot_count
  siReason,     \* boot_reason
  siClock,      \* clock_freq_hz is set
  siTests,      \* selftest: cpu_test_passed and ram_test_passed
  siRamSeen,    \* history: result of the last memory test since the start
  siCpuSeen     \* history: result of the last self-test since the start

siVars == <<siStage, siStatus, siMagic, siBoots, siReason, siClock, siTests,
            siRamSeen, siCpuSeen>>

Stages == <<"Clocks", "Peripherals", "Watchdog", "Memory Test", "Config Load",
            "Boot Reason", "Self-Test">>

InitStatus == {"OK", "MEMORY", "SELFTEST", "FATAL"}
Untested == [cpu |-> FALSE, ram |-> FALSE]

-----------------------------------------------------------------------------
SiInit ==
  /\ siStage = 0
  /\ siStatus = "OK"
  /\ siMagic = FALSE
  /\ siBoots = 0
  /\ siReason = "POWER_ON"
  /\ siClock = FALSE
  /\ siTests = Untested
  /\ siRamSeen = FALSE
  /\ siCpuSeen = FALSE

(* system_init up to the first stage: system_early_init clears all of the  *)
(* context, the boot count with it.                                        *)
BeginInit ==
  /\ siStage = 0
  /\ siStage' = 1
  /\ siStatus' = "FATAL"
  /\ siMagic' = FALSE
  /\ siBoots' = 0
  /\ siReason' = "UNKNOWN"
  /\ siClock' = FALSE
  /\ siTests' = Untested
  /\ siRamSeen' = FALSE
  /\ siCpuSeen' = FALSE

(* system_memory_test: the first pattern that reads back wrong ends it. *)
MemoryTest(passed) ==
  /\ siTests' = [siTests EXCEPT !.ram = passed]
  /\ siRamSeen' = passed
  /\ UNCHANGED siCpuSeen

(* Mutant: the self-test reports the memory as good, like the devices. *)
SelfTests_RamGood(cpu) ==
  /\ siTests' = [cpu |-> cpu, ram |-> TRUE]
  /\ siCpuSeen' = cpu
  /\ UNCHANGED siRamSeen

(* system_run_selftests: the memory is not tested again. *)
SelfTests(cpu) ==
  /\ siTests' = [cpu |-> cpu, ram |-> siTests.ram]
  /\ siCpuSeen' = cpu
  /\ UNCHANGED siRamSeen

SelfTestsPass == siTests'.cpu /\ siTests'.ram

(* The end of system_init. *)
InitEnds ==
  /\ siStage' = 0
  /\ siStatus' = "OK"
  /\ siMagic' = TRUE
  /\ siBoots' = siBoots + 1

StageFails(status) == siStage' = 0 /\ siStatus' = status /\ UNCHANGED <<siMagic, siBoots>>
StagePasses == siStage' = siStage + 1 /\ UNCHANGED <<siStatus, siMagic, siBoots>>
AtStage(name) == siStage # 0 /\ Stages[siStage] = name

(* The stages that configure and load; simulation assumes a power-on. *)
ConfigureStage ==
  /\ \/ AtStage("Clocks") \/ AtStage("Peripherals") \/ AtStage("Watchdog")
     \/ AtStage("Config Load") \/ AtStage("Boot Reason")
  /\ siClock' = (siClock \/ AtStage("Clocks"))
  /\ siReason' = IF AtStage("Boot Reason") THEN "POWER_ON" ELSE siReason
  /\ StagePasses
  /\ UNCHANGED <<siTests, siRamSeen, siCpuSeen>>

MemoryStage(passed) ==
  /\ AtStage("Memory Test")
  /\ MemoryTest(passed)
  /\ IF passed THEN StagePasses ELSE StageFails("MEMORY")
  /\ UNCHANGED <<siReason, siClock>>

SelfTestStage(cpu) ==
  /\ AtStage("Self-Test")
  /\ SelfTests(cpu)
  /\ IF SelfTestsPass THEN InitEnds ELSE StageFails("SELFTEST")
  /\ UNCHANGED <<siReason, siClock>>

(* system_memory_test and system_run_selftests, called by the program. *)
TestMemory(passed) ==
  /\ siStage = 0
  /\ MemoryTest(passed)
  /\ UNCHANGED <<siStage, siStatus, siMagic, siBoots, siReason, siClock>>

RunSelfTests(cpu) ==
  /\ siStage = 0
  /\ SelfTests(cpu)
  /\ UNCHANGED <<siStage, siStatus, siMagic, siBoots, siReason, siClock>>

(* system_should_enter_safe_mode. *)
ShouldEnterSafeMode ==
  \/ siBoots >= MaxBootCount
  \/ ~siTests.cpu \/ ~siTests.ram
  \/ siReason = "WATCHDOG"

SiNext ==
  \/ BeginInit
  \/ ConfigureStage
  \/ \E passed \in BOOLEAN :
       \/ MemoryStage(passed) \/ SelfTestStage(passed)
       \/ TestMemory(passed) \/ RunSelfTests(passed)

-----------------------------------------------------------------------------
(* Types; the boot count never gets past one. *)
SiTypeOK ==
  /\ siStage \in 0..Len(Stages)
  /\ siStatus \in InitStatus
  /\ {siMagic, siClock, siRamSeen, siCpuSeen} \subseteq BOOLEAN
  /\ siBoots \in {0, 1}
  /\ siReason \in {"POWER_ON", "UNKNOWN"}
  /\ siTests \in [cpu : BOOLEAN, ram : BOOLEAN]

(***************************************************************************)
(* Safe mode is advised whenever the latest test of the memory or of the   *)
(* processor since the start has failed or has not been made, in whatever  *)
(* order initialisation and the single tests are called; and a context     *)
(* that is marked complete was initialised through its last stage.         *)
(***************************************************************************)
UntestedMeansSafe ==
  /\ ~siRamSeen \/ ~siCpuSeen => ShouldEnterSafeMode
  /\ siMagic => siStatus = "OK" /\ siBoots = 1 /\ siReason = "POWER_ON"
=============================================================================
