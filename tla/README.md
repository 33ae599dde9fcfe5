# A TLA+ verification project for the SMART-QSO flight software

SMART-QSO is a small satellite: an on-board computer running C flight software
(`src/software/flight`), a Jetson payload running Python
(`src/software/payload`), and Python ground tools (`src/software/ground`).
The flight program is one thread, a control loop; the payload is several
threads talking to it over a serial line. What can go wrong in it is a matter
of order: a crash between two file writes, a flag read before it is changed, a
counter at its limit, a callback in a state nobody expected, two threads on one
state variable.

Contents: [inventory](#inventory), [plan](#plan), [the modules and the
code](#the-modules-and-the-code), [what each run checks](#what-each-run-checks),
[fairness](#fairness), [proofs](#proofs), [disagreements](#disagreements-between-code-and-documents),
[what is not modelled](#what-is-not-modelled).

## Inventory

In the flight program, `main.c` calls the EPS, fault log, mission data, UART and
sensors. The other C files are libraries with unit tests that `main.c` does not
call (`scheduler.c` and `system_init.c` are not in the executable's source list
in `src/software/flight/CMakeLists.txt`, the others are); each is specified here
against any order of legal calls.

| Component | State | Operations | Hard behaviour | Correct when |
|---|---|---|---|---|
| Flight control loop, `main.c` | battery, sunlight, tick, last health check, last watchdog kick, shutdown flag | one loop iteration: integrate, choose mode, watchdog, recover, health check, telemetry, save; boot; shutdown | restarts, stale locals, clock steps | a low battery sheds load, whatever a restart left behind |
| EPS control, `eps_control.c` | four load switches, mode, limit, config file | set mode, four switches, save, load | each mode change is up to five file writes | the payload is on only in ACTIVE mode; file and memory agree |
| Fault log and recovery, `fault_mgmt.c` | log of 100 entries, file, watchdog flag | add, get, mark recovered, save, load, clear, recover | full log, file rewritten on every entry | newest entries survive |
| Mission data, `mission_data.c` | counters, phase, file | init, updates, save, load | saved rarely, overwritten by uptime | counters are cumulative |
| UART link, `uart_comm.c` | descriptor, configuration | init, send with one reinit, receive, health check, close | reinit fails half way | link state is true |
| Mode state machine, `state_machine.c` | current and previous state, history | event, force, check | table order, forced states | documented transitions only |
| Command handler, `cmd_handler.c`, `input_validation.c` | statistics, custom handlers | validate, check state and authorisation, execute, count | the order of the checks, two numberings of commands, counts kept in two functions | no command changes what the state forbids; each is counted once |
| System state, `system_state.c` | subsystem flags, dirty flag, file or flash | set, save, load | erase then write, reset in between | a clean state is the stored one |
| Antenna and panel deployment, `deployment.c` | phase, timers, retry counts, burn wire | init, process, force, inhibit | inhibit or force during a burn, retries, reboot | no early and no long burn; both elements are tried |
| Scheduler, `scheduler.c` | task table, tick, current task | register, enable, suspend, tick, run | a task that changes its own state, nested runs, tick wrap | a stopped task does not run; a due task runs soon |
| Watchdog manager, `watchdog_mgr.c` | task table, kick counts, statistics | register, report, kick, check | a stall is logged after several checks and does not stop the kicks | a stalled task is noticed once, a live one never |
| Flight log, `flight_log.c` | ring of records, indices, filters | write, read, peek, clear, callback | full ring, re-entrant callback | oldest records go first |
| Assertion handler, `assert_handler.c` | ring of 16 failures, callbacks | report, query, clear | wrap, duplicates | the latest failures are kept |
| ADCS, `adcs_control.c` | mode, estimates, timers | set mode, update, detumble | timers with a sentinel 0 | detumble ends |
| Beacon, telemetry, `beacon.c`, `telemetry.c` | schedule, sequence, statistics | due?, format, send | 32-bit time | beacon interval is kept |
| Sensors, `sensors.c`, `yaml_parser.c` | registered sensors | register, poll, load | none | a reading is of the sensor asked for |
| System initialisation, `system_init.c` | boot stage, boot count, error | run stages, self test | boot count lost | a failed stage stops the boot |
| Payload supervisor, `supervisor.py` | state, managed processes, two locks | start, stop, monitor, report, callbacks | four threads on one state, nested locks, joins | a shutdown ends the program and its processes |
| Health interface, `health_interface.py` | connection, last heartbeat, buffer | send, receive, reconnect | heartbeat timeout races a reconnect | a lost link is reported |
| HAL simulation `hal_sim.c`; CRC, strings, time; ground tools | buffers; none | read, write, compute | pure functions, I/O | a function of its arguments |

How they interact. In the flight program `main` calls everything, and the
shared state is `s_eps_state` and three files. Signals only set a flag. The
command library calls the validation, the system state and, through it, the
state machine; the system state is stored in a file or in flash. The deployment
library drives one output pin and reads one input pin. The scheduler calls task
functions, which call it back. On the payload, the receiving thread of the
health interface calls the supervisor's handlers, which share `_state`,
`_running` and two locks with its main, monitoring and reporting threads.

## Plan

Ordered by what the mission loses when it goes wrong.

| | Module | Composes | State |
|---|---|---|---|
| 1 | `EpsControl`, `FlightMain` | the control loop over the EPS and its file | done, with proofs |
| 2 | `Deployment` | | done, with proofs (`DeploymentProofs`) |
| 3 | `Scheduler` | | done, with proofs (`SchedulerProofs`) |
| 4 | `StateMachine`, `Commands` | commands over system state over state machine | done, with proofs (`CommandsProofs`) |
| 5 | `PayloadSupervisor` | supervisor and health interface | done; its locks proved (`SupervisorProofs`) |
| 6 | `FaultLog`, `MissionData`, `UartComm`, `Records` | what the flight program keeps across resets besides its configuration, and the link whose failures it logs | done, with proofs |
| 7 | `BoundedLog`, `DurableLog`, `DurableValue` | the abstract log that two rings implement, the abstract stored log and the abstract stored value | done; all five refinements proved |
| 8 | `WatchdogMgr`, `AssertHandler`, `Adcs` over `FaultLog`; `FlightLog`, `Beacon`, `Telemetry`, `SystemInit`, `SafeString`, `YamlParser`, `Sensors`; all in `Libraries` | the libraries that stand on their own | done, all their properties proved (`LibrariesProofs`, `LibraryDataProofs`) |

Abstract specifications:

- *a bounded log* (append, drop the oldest): `BoundedLog`, implemented by the
  flight log and the assertion handler;
- *a durable log* (the same, with a copy that is written as a whole to storage
  that may fail): `DurableLog`, implemented by the fault log;
- *a durable value* (a value in force, and the copy a restart yields):
  `DurableValue`, implemented by the EPS configuration and by the system state;
- still to be stated: *a mode controller* (the battery's bands and the modes
  allowed in each), for `FlightMain`.

Theorems to come: the mode controller's refinement, and of 5 what a thread may
write into `_state` after a shutdown began.

## The modules and the code

In every module a step is the code between two points at which something else
can happen with an effect. Within one thread such points are file writes (the
process may be killed there), calls of a callback, and the places where the
program waits; between threads, every access to a shared field or a lock.

**`EpsControl`** (`eps_control.c`). `eps` is `s_eps_state`, with the four
booleans as the set `eps.on`; `epsFile` is the configuration file. `call` is
the statement a running `eps_set_power_mode` has reached, and `saving` says
that a write is between `fopen("wb")`, which empties the file, and `fclose`.
A mode change is the chain mode, payload, radio, ADCS, beacon, limit with a
write after each switch that changes. The power limit counts tenths of a watt.

**`FlightMain`** (`main.c`, and recovery and watchdog of `fault_mgmt.c`). `at`
is the program's position; an iteration goes through `update`, `watch`,
`health` (with `thermal`, `power`, `comm`), `persist`, `sleep`. `current_mode`
is the local copy the loop keeps. Clock readings appear as the times since the
last health check and the last kick. `CanOverheat` admits readings above
40 degrees, which the simulated sensor (14 to 25 degrees) never gives but the
code handles. The battery level and its charge are integers in one unit.

**`MCFlightMain`** gives the clock steps of the two kinds of clock;
**`FlightMainProofs`** holds the proofs, as `DeploymentProofs`,
`SchedulerProofs`, `CommandsProofs`, `SupervisorProofs`, `RecordsProofs`,
`LibrariesProofs` and `LibraryDataProofs` do for theirs.

**`Deployment`** (`deployment.c`). `build` chooses between the flight build,
which reads the sense pin, and the simulation build, in which separation comes
after a number of calls and an element deploys at once. `age` is the unsigned
difference the code computes. `Tick` lets time pass between two calls of
`deployment_process`; `due` alternates the two. `Reset` is a reset of the
computer: the module's state is not stored (its save and load functions do
nothing), so all of it is lost. `sinceSep`, `lastBurn`, `burnFor` and `cooled`
are history and appear in no guard. `MaxForces` bounds the forced retries.

**`Scheduler`** (`scheduler.c`). `task` is the table, `stack` the slots whose
functions are executing, because `scheduler_run_now` may be called by a task;
`current` is `running_task`. Any operation may be called from outside or by
the innermost task. As built, both clock readings of the deadline check are 0,
so no run overruns; `Overruns` admits both outcomes, as on a board with a
timer. `calm` and `stopped` are history; `stopped` says of each slot whether a
suspension or disabling is in force and whether it was made while the task
executed (`inside`) or not (`outside`); one from inside ends with the return of
that run, which makes the task ready (`scheduler.c:624`). `MaxDepth` bounds the nesting.

**`StateMachine`** (`state_machine.c`) is the table in its order with the
search of the first row that matches, used by **`Commands`** (`cmd_handler.c`,
`input_validation.c`, `system_state.c`). `Frame` is `cmd_process` (form,
payload rules, state, authorisation, handler, counts), `Direct` is
`cmd_execute`. The payload rules number the commands differently from the
handlers, and both numberings are kept. Whether a frame is well formed is one
bit. `Measure` stands for the setters of measurements, which only make the
state dirty. A save erases, then writes. `Buffered` chooses between the two
builds: flash, whose driver reports a failing erase or write, and a file, where
`fwrite` fills a buffer and the write happens in `fclose`, whose result is
ignored. `Reset` zeroes the static data. `image` is the stored copy, whose
checksum rejects a torn one. Modes above
`POWER_MODE_ACTIVE` cannot be stored, as in the code.

**`PayloadSupervisor`** (`supervisor.py`, `health_interface.py`). `pc` is the
next statement of each of the four threads (main, monitor, status, receiver);
a test and the assignment that follows it are two steps. `processLock` and
`metricsLock` are the two locks; `threading.Lock` is not re-entrant, so a
thread that asks for one it holds waits for ever. A join has a timeout and
always ends; joining oneself raises an exception. A signal handler runs on the
main thread, between any two of its steps, once. There is one managed process,
or none (`registered`).

**`BoundedLog`** is abstract: `kept` is what the log holds, in memory only.
`FlightLog` and `AssertHandler` instantiate it with what a reader gets from
their rings.

**`DurableLog`** is abstract, too: `kept` is the log, `copy` what is in storage,
`writing` and `stale` say that a save is under way or that the last one failed.
The copy changes only to the log or to its beginning, it is the log when
neither holds, and a program that starts has the copy. `Records` instantiates
it with the stamps of the fault log and of its file.

**`DurableValue`** is abstract, too: `current` is the value in force while the
program is `on`, `copy` what a restart would yield, `pending` a change or save
that is not complete. A step of a running program may lose the copy, which
leaves the default, or make the value in force the copy, and nothing else; on
`Reliable` storage the two are equal when nothing is pending. `FlightMain`
instantiates it with the configuration and its file (pending while an EPS call
runs, reliable when the disk does not fail), `Commands` with the whole record
of the system state, the state machine's part included (pending while it is
dirty or being saved and when the machine has moved since, because an event
makes nothing dirty; reliable when only dirty states are saved and storage that
fails says so, `ReportedFailures`).

**`FaultLog`** (`fault_mgmt.c`). `faults` is the log, `faultFile` its file,
`faultWriting` the time between the `fopen` that empties the file and the
`fclose`. A full log is shifted by one, and each new entry rewrites the file.
An entry is a stamp and its mark of recovery. A file that does not open keeps
its entries, a write on a full disk leaves a prefix; the code looks at neither
result, and `faultCut`, which is history, remembers that the last save failed.

**`MissionData`** (`mission_data.c`). The record is the reset count and the
phase; the other counters are changed, saved and loaded with them in the same
way. A record is one `fwrite`, whole or absent; a file that is missing, short or
fails its checksum is `Unreadable`; one that does not open keeps its record.
`saved`, `saveFailed` and `counted` are history.

**`UartComm`** (`uart_comm.c`). `fd` is the descriptor, which stays open on a
device that has gone. `Send` is `uart_send` with its one reinitialisation,
`Sick` what `uart_check_health` asks. The serial adapter comes and goes.

**`Records`** composes the three as `main.c` does: boot, faults logged by the
update and the health check (any number of them), reopening the link, telemetry,
the periodic save, the two saves of the shutdown, kills anywhere. The
modes and switches of `FlightMain` are left out here, and it leaves out these:
the loop reads nothing of one in the other but whether the payload is powered,
which `Records` lets change at any time.

**`Libraries`** is the disjoint sum of ten modules: a behaviour belongs to one
of them, so that one run explores each without multiplying them.

- **`WatchdogMgr`** (`watchdog_mgr.c`, and the watchdog of `hal_sim.c`): the
  task table, the check that a kick makes once per interval, the hardware timer
  and the reset it ends in. Times are ages that stop counting where no guard
  tells them apart.
- **`AssertHandler`** (`assert_handler.c`): the ring of failures, in which a
  place appears once, and the two reactions that log a fault.
- **`Adcs`** (`adcs_control.c`): modes, the settling timer and the timeout of
  detumbling, what the torquers are told. A vector is whether the rate is below
  the threshold, whether the sun is seen, whether the dipole is zero.
- **`FlightLog`** (`flight_log.c`): the ring, with the callback as a step of its
  own between the write into the slot and the advance of the indices;
  `flCalls` is the stack of calls in which a callback runs.
- **`Beacon`**, **`Telemetry`** (`beacon.c`, `telemetry.c`): whether a beacon is
  due by a clock that starts at `ClockStart`, as milliseconds since the epoch do,
  where its text comes from and whether it fits, rates and frame counts.
- **`SystemInit`** (`system_init.c`): the seven stages, the tests that may be
  run again at any time, and the advice to enter SAFE mode.
- **`SafeString`** (`safe_string.c`): copies, concatenations and memory moves on
  a small memory, each against its definition, overlaps included.
- **`YamlParser`**, **`Sensors`** (`yaml_parser.c`, `sensors.c`): the path of
  keys that encloses a line, and the table that loading and polling fill; what a
  write behind the table overwrites is left out.

## What each run checks

Every property a run checks has a mutant: a plausible slip in one mapped definition, kept
in the module next to it, under which the property fails in the same instance.

| Run | Properties | What it shows |
|---|---|---|
| `flight_graceful` | `TypeOK`, `SwitchesMatchMode`, `NoFalseWatchdog`, `CriticalSocShedsLoads`, `ConfigIsDurable` | without kills, across shutdown and restart, switches and limit follow the mode; a restart finds the configuration that was in force; a critical battery gets its loads shed |
| `flight_crash` | `PayloadOnlyInActive`, `LowSocShedsPayload`, `CriticalSocMeansSafe`, `ConfigIsDurable` | the process is killed anywhere, also between emptying a file and filling it, with failing writes and a clock that stalls or is set back |
| `deploy` | `TypeOK`, `NoEarlyBurn`, `BurnBounded`, `CompleteMeansDeployed`, `FailedMeansRetriesUsed`, `RetriesBackOff`, `Settles` | burns start late enough, end in time and are apart; what the final states mean; the sequence ends |
| `deploy_forced_burn` | `BurnEnds` is violated | see below |
| `scheduler` | `TypeOK`, `StopHolds`, `ResponseBounded` | a stopped task stays stopped under nested runs and operations called by tasks, one stopped while it executes until that run returns; a due task waits for no more ticks than there are tasks that go before it, if none of those is due again too soon |
| `sched_nested` | `ExecutingStaysRegistered` is violated | see below |
| `commands` | `TypeOK`, `EveryCommandCounted`, `SafeStateShields`, `StateIsDurable` | counts balance although two functions keep them; SAFE shields payload and power mode; a restart finds a record that was in force, and the latest one if nothing is pending, on flash that fails |
| `commands_emergency` | `CriticalEventsReachEmergency` is violated | see below |
| `supervisor` | `TypeOK`, `BlocksExclusive`, `ShutdownEnds`, `MonitorLives` | no two threads are inside blocks of the process lock, a signal notwithstanding; a shutdown begun by any thread ends the program although others write `_state` meanwhile, as long as no process is registered |
| `supervisor_stop` | `StopStopsChild` is violated | see below |
| `records` | `TypeOK`, `FaultFileIsLog`, `ResetsCounted`, `FaultLogIsDurable`, `LinkRecovers` | over several sessions with kills, files that do not open, full disks and an adapter that is pulled: the fault log and its file are one durable log, the sessions that saved their record are counted, a lost link comes back |
| `libraries` | `TypeOK`, `NoFalseStall`, `UntestedMeansSafe`, `TextRight`, `RingsAreBoundedLogs`, `DetumbleEndsRightly` | no live task is called stalled; untested hardware means SAFE; text functions do what they promise; two rings are bounded logs; how detumbling ends |

**Bounds.** *Flight*: the battery is counted in steps of 5%, so the code's
thresholds 25, 30, 40, 55% are 5, 6, 8, 11 of 20. Three sunlit iterations of ten,
charging 2 and discharging 1 or 4, take the battery through every band, down to empty and
up again, in the two orbits of 20 iterations. Recovery, saving and the orbit have
50, 100 and 180 iterations in the code and 4, 5 and 10 here, so that the first
two meet every phase of the orbit. A health check every 3 units and a watchdog
of 6 keep the order of 10 s and 30 s. A prompt iteration takes 1 or 2 units; a
wild clock moves by 1, 7 (more than the watchdog) or -4. *Deployment*: wait 6, burns 2 and 3,
verification 2, retry delay 4, calls at most 2 apart, three retries as in the
code, and a counter of 12 values, more than each delay and a call period (the code's
2^32 ms is) and small enough to wrap; one forced retry. *Scheduler*: two slots are
the fewest with a nested run of another task, a reused slot and a tie; two
names, periods 1 and 2 (a task that comes at every tick and one that does not), ticks modulo 5,
or 6 in `sched_nested`. *Commands*: payloads for each rule and
each side of its limits, counters modulo 2 (a wrap at every second command), one custom
handler; flash that fails (the file whose `fclose` fails is covered by the proofs, for
either value of `Buffered`). *Supervisor*: one process, one signal; temperature and link
are free. *Records*: a log of two entries with two stamps, so
that it fills, shifts and can be told from a shifted one; a reset count modulo 2, one
phase, a save in every second iteration.
*Libraries*: rings of three slots
with four places and four sequence numbers, so that they wrap and are told apart; two
nested callbacks; watchdog periods 1 and 2 with a check every 2 and a threshold of 3, as
in the code; settling 2 and timeout 6; a clock from 7 to 11 whose stored part wraps at 5;
beacon intervals 1, 2, 3; a memory of four bytes of three values, the least in which moves overlap in both
directions; files of five lines and two indentations; three sensors
where a file names four.

**Deadlock** is checked in every run but those of the supervisor, where the
program's end is one; there `ShutdownEnds` and `MonitorLives` say which ends
are wanted.

## Fairness

- `FlightMain!FairSpec` is weak fairness of the program's own steps: a single
  thread that is not killed keeps executing. Boot, signals and kills are never
  forced to happen. The safety runs use `Spec`, without fairness.
- `Deployment` assumes that its caller keeps calling `deployment_process` and
  that time passes between calls: that is the function's contract in
  `deployment.h`. Separation, ground commands and resets have no fairness;
  the sense pin may read anything at every call.
- `Scheduler` and `Commands` have none: their properties are safety, and
  whether anybody ticks or sends commands is up to their callers.
- `Records!FairSpec` is weak fairness of the loop's steps and strong fairness of
  those that compete with calls from outside or with intervals: the loop ends
  its update and wakes from its sleep, and what its intervals make due, the health check
  that reopens a link or the telemetry that uses it, is done again and again. Nobody
  promises that a tick of the clock falls into the window in which
  `main.c` checks the link itself, so nothing is assumed of it; the link comes
  back without it. `Libraries` has no fairness: whoever calls them.
- `PayloadSupervisor` has weak fairness per thread, as the operating system
  gives, and strong fairness for the monitor, which competes for locks that
  the others take for moments between sleeps of a second. A heartbeat ages
  when the receiver has ended. Nothing makes a link come back, a signal
  arrive or a process end.

## Proofs

Eight modules hold theorems. Each is about every value of the constants that
satisfies the named assumptions of its component's module, and each rests on an
inductive invariant: a formula that holds initially, is kept by every step, and
implies the property.

`FlightMainProofs` holds nine theorems about the control loop, for every value
of the constants that satisfies three assumptions of `FlightMain`:
`ThresholdsAssumption` (SAFE <= health <= IDLE <= payload threshold, all
natural numbers, the initial charge at most full), `PeriodsAssumption`
(positive periods, integer clock steps) and `FileAssumption` (the two contents
of a file that is not a configuration are none).

| Theorem | Also assumes | Inductive invariant |
|---|---|---|
| `TypeCorrect` | | `TypeOK` and `TickInLoop` (a tick counted up is one the loop was entered with) |
| `PayloadOnlyInActiveHolds` | | `PayloadInv` |
| `CriticalSocMeansSafeHolds` | | `ShedInv` |
| `LowSocShedsPayloadHolds` | | `PayloadInv` and `ShedInv` |
| `RestartKeepsConfigHolds` | `~DiskCanFail` | the property itself, kept step by step |
| `NoFalseWatchdogHolds` | `PromptClock`, in the property | `WatchdogInv` |
| `SwitchesMatchModeHolds` | `~CanCrash`, `~DiskCanFail` | `PayloadInv`, `RestartKeepsConfig` and `MatchInv` |
| `ShutdownSavesHolds` | | `LastSave`: once the loop is left nothing but the last save runs, and after it the file of a disk that does not fail holds the configuration |
| `ConfigIsDurableHolds` | | on a disk that does not fail `RestartKeepsConfig`; on another the types suffice |

- `PayloadInv` adds `LagIsNotSaved`: while a call has assigned a mode but not
  reached the payload's switch, no write of the pair is under way. Without it,
  a kill between the two would leave the pair in the file.
- `ShedInv` adds that a battery below IDLE is not in ACTIVE mode, and that the
  thermal recovery, which ends with a mode change of its own, runs only on a
  battery above IDLE: this is why a stale `current_mode` cannot undo the
  choice of the same iteration.
- `WatchdogInv` relates the two clocks: the time since the last kick is at
  most the time since the last health check, which is less than its interval
  just before the program sleeps. One prompt iteration then cannot exceed the
  timeout.
- `MatchInv` says which switches of a running change already agree with the
  mode, and that what a clean end leaves in the file is a mode's configuration.

`DeploymentProofs` holds six, under `TimesAssumption` (positive times, each with
a call's gap within the range of the counter; a retry delay no longer than the
wait after separation: `deployment.h:33` and `:45` say 30 minutes and one).

| Theorem | Inductive invariant |
|---|---|
| `TypeCorrect` | `NumbersOK` and `NamesOK`, the two halves of `TypeOK`: one for arithmetic, one for sets |
| `CompleteMeansDeployedHolds` | `SequenceInv`: until a retry is forced, the wire is hot exactly in the ACTIVE state of the latest element, and the panels come after a confirmed antenna |
| `NoEarlyBurnHolds`, `BurnBoundedHolds`, `RetriesBackOffHolds` | `SequenceInv` and `TimeInv`: until a retry is forced, the times measured from outside (since separation, of the burn, since the last burn) agree with the one `time_in_state` the code has, in each state in its own way |
| `FailedMeansRetriesUsedHolds` | the property itself |

The retry delay matters to `RetriesBackOff` because of resets: a reset during
a burn forgets everything, and what keeps the next burn away is the wait.

`SchedulerProofs` holds four, under `TableAssumption` (positive sizes, at least
one task name, periods and offsets within the counter, of which one is the
longest).

| Theorem | Inductive invariant |
|---|---|
| `TypeCorrect` | `TypeOK`, which bounds the nested runs |
| `UniqueNamesHolds` | the property itself |
| `StopHoldsHolds` | `StoppedInv`: a task stopped from outside is not on the stack of executing functions, so no return makes it ready again; of one stopped from inside, the return that does also ends the claim |
| `ResponseBoundedHolds` | `CalmInv`: while an unhurried task s waits, at least as many of the tasks that go before it have been served since it became due as ticks have passed |

`StopHoldsHolds` covers a stop made while the task executes for as long as the
code honours it: through every nested run up to the return of that run.
`ResponseBoundedHolds` assumes nothing of the periods: the property itself is about the tasks that are
`Unhurried`, before which no task goes whose period is not longer than the
number of those that do. Others may starve, and nothing is claimed of them. The
bound is the number of the tasks that go before, which the tasks served cannot
exceed.

`CommandsProofs` holds six, under `CommandsAssumption` (bytes in payloads, a
positive range of the counters) and `StoredCopyAssumption` (the two contents of
the storage that are no copy are none).

| Theorem | Also assumes | Inductive invariant |
|---|---|---|
| `TypeCorrect`, `EmergencyNotEnteredHolds` | | `TypeInv`: types, and neither the state nor the stored copy is EMERGENCY. The stored half matters because a reload forces whatever was stored |
| `EveryCommandCountedHolds` | | the property, with arithmetic modulo the range |
| `CleanMeansSavedHolds` | `ReportedFailures`: only dirty states are saved, and storage is flash or never fails | `SavedInv`: a save under way has left the state dirty, so a failing write that is reported cannot leave a clean state without a copy |
| `SafeStateShieldsHolds` | | `TypeInv`; the commands SAFE lets through write neither field |
| `StateIsDurableHolds` | `ReportedFailures`, inside the property, for the equality of copy and record only | `SavedInv` and `SaveIsLoaded`: nothing is saved before the first load |

`EmergencyNotEnteredHolds` is no promise of the code: it says that the EMERGENCY
state its header documents is dead code, for all payloads and handlers, what the
run `commands_emergency` shows of one event.

`SupervisorProofs` holds three, without any assumption on constants: the
threads are four.

| Theorem | Inductive invariant |
|---|---|
| `TypeCorrect` | `LocksInv` and the values of the shared fields |
| `BlocksExclusiveHolds` | `LocksInv`: where each thread can be (`Places`), and who holds each lock there. The main thread needs a case of its own: a signal takes it out of a block while it keeps the lock, and its handler then comes no further than `stop_all` |
| `NeverReleasedHolds` | `LocksInv`: no other thread can release the lock, and the waiting one cannot move |

`NeverReleasedHolds` is the general form of the disagreement `StopStopsChild`:
nested calls and a handler on an interrupted block are the two ways into it.

`RecordsProofs` holds five, under `RecordsAssumption`, `FaultLogAssumption` and
`MissionAssumption` (positive depths, ranges and periods, more than one reset
number).

| Theorem | Inductive invariant |
|---|---|
| `TypeCorrect` | `TypeOK`, which bounds the log by its depth |
| `FileInvHolds`, `FaultFileIsLogHolds` | `FileInv`: the file is the log unless a write is under way or the last save failed, and neither is so while the program is off |
| `FaultLogIsDurableHolds` | the same; lemmas say how taking the stamps of a log commutes with appending, shifting and cutting it |
| `ResetsCountedHolds` | `SessionInv`: a readable file holds the number of sessions counted, a running write has made it unreadable, and a session past its first iteration has saved its record or had a save refused |

`FaultLogIsDurableHolds` is the refinement: `Spec => Log!Spec`, the initial
state and every step, for every depth.

`LibrariesProofs` holds three, each over the whole sum of modules.

| Theorem | Inductive invariant |
|---|---|
| `UntestedMeansSafeHolds` | `InitInv`: a result kept as passed is that of the latest test; no stage runs in a complete context; the last stage comes after the boot reason |
| `DetumbleEndsRightlyHolds` | `AdcsInv`: in DETUMBLE the settling timer is no older than the last estimate above the threshold. Outside it may be, which is why entering DETUMBLE must clear it |
| `NoFalseStallHolds` | `WatchdogInv`: an entry with m misses has been silent for its period, m - 1 whole intervals and the time since the last check |

`LibraryDataProofs` holds three, again over the whole sum of modules. Besides
the assumptions that name the sizes, widths and periods of each module they use
that the watchdog's tasks are finitely many (its table is an array), that one of
the sensors' periods is the longest, and that a byte can be 0 or 1.

| Theorem | Inductive invariant |
|---|---|
| `TypeCorrect` | `LibraryInv`, one conjunct per module. Indices and counters must agree for the types to hold: the assertion log's slots (`AsInv`), the flight log's indices and callback (`FlInv`), the frames not yet accounted for (`TmInv`), the sensors' table (`SnInv`) |
| `TextRightHolds` | `LibraryInv`, whose `StringsBounded` is the strings' half of the property, and `PathInv`: in a well indented document the path is the sequence of open keys, the a-th of level a - 1, where a key is open if no later one is as far out |
| `RingsAreBoundedLogsHolds` | `LibraryInv`: with it each step of a ring, a callback inside it included, is a step of `BoundedLog` or none |

Two parts of `TextRightHolds` are about recursive functions: the digits of a
number are built by division and read back by multiplication, and a copy goes
byte by byte. Their induction is done by the least counterexample: from the
well-foundedness of the natural numbers, a number for which the statement fails
while it holds for all smaller ones is shown not to exist (`LeastNumber`). That every
number has digits which show it and read back as it (`NumbersRead`) is proved
this way for every width.

Model-checked only: the liveness properties (`Settles`, `ShutdownEnds`,
`MonitorLives`, `CriticalSocShedsLoads`, `LinkRecovers`), since liveness under
fairness is outside what TLAPS proves here. Every invariant and every action
property of the passing runs, and each refinement, is proved.

Proved and in no passing run: `UniqueNames`; `RestartKeepsConfig` and
`ShutdownSaves`, which on a disk that does not fail speak of the single state or
step where a restart finds what `ConfigIsDurable` promises; and three that
mark the extent of a disagreement: `CleanMeansSaved` holds where storage
reports its failures, `EmergencyNotEntered` and `NeverReleased` say that what
`commands_emergency` and `supervisor_stop` show is so in every instance.

Where a theorem assumes more than the named assumptions of the constants, the
table says so.

## Disagreements between code and documents

Four runs end in a counterexample to something the repository says of the code.

1. `BurnEnds`: after a retry forced during a burn the switch may confirm the
   element, and then nothing turns the wire off ("Antenna deployment burn time
   (ms)", `deployment.h:35`; "< 5 seconds", `TP-MECH-002_Deployment.md:54`).
2. `ExecutingStaysRegistered`: a nested run lets a task unregister the one
   that called it ("Cannot unregister running task", `scheduler.c:176`).
3. `CriticalEventsReachEmergency`: the rows that lead to EMERGENCY stand after
   rows that match first ("Any state to EMERGENCY on critical events",
   `state_machine.c:86`).
4. `StopStopsChild`: with a registered process, `stop()` waits for a lock its
   own thread holds (`supervisor.py:522`, then 253).

Seen while reading and kept in the models, without a run of their own. Where a
property of a passing run is limited on account of one of these, the property's
comment says so.

- *EPS*: a kill between two saves of a change to SAFE mode leaves a file with a
  valid checksum, SAFE mode and radio or ADCS on (`smart_qso.h:98`: "minimum
  power, beacon only"), which the next boot puts in force. It lasts until the
  first iteration, whose battery estimate starts from 0.75 in sunlight
  (`main.c:71`, `:185`), so that it chooses ACTIVE mode and sets the switches.
- *Flight loop*: the health check leaves SAFE mode between 25 and 30% of
  charge; ACTIVE mode is kept between 40 and 55%; the recovery in ACTIVE mode
  uses the `current_mode` read before the mode changed (`main.c:235`).
- *Deployment*: a forced retry heats the wire before separation or before the
  end of the wait ("System shall wait 30 minutes after separation before
  deployment", `deployment.h:9`); the inhibit is read once (`deployment.c:120`); an antenna that
  fails ends the sequence, panels untried (`:144`); separation and both elements
  share one pin (`:378`).
- *Scheduler*: a task that suspends or disables itself is ready again when its
  function returns (`scheduler.c:624`; "Suspend a task temporarily", "Disable a
  task", `scheduler.h:226`, `:218`); next runs and ticks are compared without regard to the wrap of
  the counter (`scheduler.c:654`); tasks behind more important ones with short
  periods may starve (`:659`).
  `scheduler_delay_ms` in a task waits for ticks its own thread would have to
  make (`:464`).
- *Commands*: frames are checked with a numbering of commands that is not the
  handlers' (`cmd_handler.c:130`), so a NOP frame is rejected ("NOP always
  allowed", `:227`), and so are most others.
- *System state*: the result of `fclose` is ignored (`system_state.c:163`), so in
  the simulation build a full disk leaves a clean state without a copy
  ("SMART_QSO_OK on success", "needs saving", `system_state.h:176`, `:181`); an
  event moves the state machine in the stored record and makes nothing dirty
  (`system_state.c:504`).
- *Supervisor*: throttling that the SAFE power state asked for ends with the
  next cool temperature (`supervisor.py:455`).
- *Mission data*: `mission_data_update_uptime` puts the session's uptime where
  `mission_data.h:38` has the total.
- *Beacon*: the time of the last beacon is kept in 32 bits and the clock counts
  from the epoch (`beacon.c:361`, `smart_qso.h:245`), so every beacon is due at
  once (`beacon.h:44`, `SOFTWARE_REQUIREMENTS.md:103`). No property speaks of the
  interval between beacons, since the code keeps none. The limit on texts, 200, with the fields around them exceeds the
  payload of 256, so a long stored text makes every beacon fail until another
  is stored.
- *System initialisation*: the boot count is cleared with the context
  (`system_init.c:455`) and never exceeds 1, so its limit never advises SAFE; a
  memory test run again can withdraw the advice.
- *ADCS*: torquers keep their dipole after a mode change until the next update;
  a timeout also counts as detumbling complete; the first estimate, zero,
  counts as slow.
- *Flight log*: a callback that logs or clears breaks the order of the ring
  (`flight_log.c:260`); `RingsAreBoundedLogs` excludes it.
- *Sensors and configuration*: a file that fills the sensor table and cannot be
  closed is an error, after which the defaults are appended behind its end
  (`sensors.c:396`, `:436`; `test_sensors.c:60` asserts the bound); the rest of a line that begins with a dash is
  dropped (`sensors.c:354`), while `sensors.yaml:2` writes an id there; an empty section keeps its
  key in the paths after it (`yaml_parser.c:430`).

## What is not modelled

- Values: sensor readings, control laws and vectors, thresholds in
  configuration files, the layout of packets and frames, wording. The models
  keep what a decision asks of them.
- Mission data other than the reset count and the phase: counters that are
  added to or overwritten and saved with them.
- Checksums and time: pure functions without state. A torn or altered record
  fails its checksum, and that is all the models use of them.
- The simulated hardware layer, except its watchdog and the pins as deployment
  uses them: buffers that return what was written.
- The payload's text generation and the ground tools, which compute outputs
  from inputs and keep no state; documents and hardware files.
- Callbacks of the watchdog manager that are registered by nobody, and
  platform branches that are not built (a board's registers, reset causes).
