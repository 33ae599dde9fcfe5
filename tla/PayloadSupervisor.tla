-------------------------- MODULE PayloadSupervisor --------------------------
(***************************************************************************)
(* The supervisor of the payload computer (supervisor.py) and its serial   *)
(* link to the flight computer (health_interface.py): four threads, the    *)
(* fields they share, and two locks.                                       *)
(*                                                                         *)
(* A step is what a thread does between two points where another one can   *)
(* come in between with an effect: a test of a field and the assignment    *)
(* that follows it are two steps.  threading.Lock is not reentrant: a      *)
(* thread that asks for a lock it holds waits for ever.  A join has a      *)
(* timeout, so it always ends; joining itself raises an exception.  One    *)
(* managed process, with restart_on_failure, as in main(); restart_count   *)
(* is left out, as no restart returns.  A bad frame is no command.         *)
(***************************************************************************)
EXTENDS Naturals

VARIABLES
  pc,           \* the statement each thread is about to execute
  interrupted,  \* where the signal handler returns to; "none" before a signal
  state,        \* _state
  running,      \* _running of the supervisor
  listening,    \* _running of the health interface
  connected,    \* is_connected()
  fresh,        \* connected, with a heartbeat in the last HEARTBEAT_TIMEOUT_S
  processLock,  \* the thread that holds _process_lock, or "free"
  metricsLock,  \* the thread that holds _metrics_lock, or "free"
  registered,   \* is a process registered?
  handle,       \* its ProcessInfo.process is not None
  alive         \* the operating system's process runs

link == <<listening, connected, fresh>>
locks == <<processLock, metricsLock>>
child == <<registered, handle, alive>>
vars == <<pc, interrupted, state, running, link, locks, child>>

Threads == {"main", "monitor", "status", "rx"}

SupervisorState == {"STARTING", "RUNNING", "THROTTLING", "SHUTTING_DOWN", "STOPPED"}

(* Statements that ask for _process_lock, and the ones that follow.  Blocks *)
(* of the lock that ask for nothing else are one step of their own.        *)
AfterLock ==
  [start_process |-> "popen", stop_process |-> "terminate", stop_all |-> "stop_each",
   restart |-> "popen"]

(* Where a thread goes after reporting, and after a lost connection. *)
AfterSend == [status |-> "status", rx |-> "rx_check"]

(* The program ends when its main thread does: the others are daemons. *)
Go(t, from, to) ==
  /\ pc.main # "exited"
  /\ pc[t] = from
  /\ pc' = [pc EXCEPT ![t] = to]

AcquireProcesses(t) ==
  /\ pc[t] \in DOMAIN AfterLock
  /\ processLock = "free"
  /\ processLock' = t
  /\ Go(t, pc[t], AfterLock[pc[t]])
  /\ UNCHANGED <<interrupted, state, running, link, metricsLock, child>>

-----------------------------------------------------------------------------
(* stop(), which any thread but status may call *)

StopBegin(t) ==
  /\ Go(t, "stop", "stop_all")
  /\ state' = "SHUTTING_DOWN"
  /\ running' = FALSE
  /\ UNCHANGED <<interrupted, link, locks, child>>

(* _stop_all_processes holds the lock and calls stop_process. *)
StopEach(t) ==
  /\ \/ registered /\ Go(t, "stop_each", "stop_process") /\ UNCHANGED processLock
     \/ ~registered /\ Go(t, "stop_each", "stop_health") /\ processLock' = "free"
  /\ UNCHANGED <<interrupted, state, running, link, metricsLock, child>>

(* HealthInterface.stop; the receiving thread cannot join itself, and the  *)
(* exception ends stop() where the command is handled.                     *)
StopHealth(t) ==
  /\ Go(t, "stop_health", IF t = "rx" THEN "rx_check" ELSE "close")
  /\ listening' = FALSE
  /\ UNCHANGED <<interrupted, state, running, connected, fresh, locks, child>>

(* The port is closed.  The monitor cannot join itself either: its loop    *)
(* catches the exception.                                                  *)
Close(t) ==
  /\ Go(t, "close", IF t = "monitor" THEN "monitor" ELSE "stopped")
  /\ connected' = FALSE /\ fresh' = FALSE
  /\ UNCHANGED <<interrupted, state, running, listening, locks, child>>

(* stop() returns to the statement that a signal interrupted, or main ends. *)
StopEnd ==
  /\ Go("main", "stopped", IF interrupted \in {"none", "done"} THEN "exited" ELSE interrupted)
  /\ interrupted' = IF interrupted = "none" THEN "none" ELSE "done"
  /\ state' = "STOPPED"
  /\ UNCHANGED <<running, link, locks, child>>

-----------------------------------------------------------------------------
(* The main thread: the end of start(), one start_process, a loop, stop() *)

Started ==
  /\ Go("main", "starting", IF registered THEN "start_process" ELSE "loop")
  /\ state' = "RUNNING"
  /\ UNCHANGED <<interrupted, running, link, locks, child>>

(* start_process; the process may fail to start. *)
Popen ==
  /\ Go("main", "popen", "loop")
  /\ processLock' = "free"
  /\ \/ handle' = TRUE /\ alive' = TRUE
     \/ UNCHANGED <<handle, alive>>
  /\ UNCHANGED <<interrupted, state, running, link, metricsLock, registered>>

(* stop_process, when it gets the lock. *)
Terminate ==
  /\ Go("main", "terminate", "loop")
  /\ processLock' = "free"
  /\ handle' = FALSE /\ alive' = FALSE
  /\ UNCHANGED <<interrupted, state, running, link, metricsLock, registered>>

(* Mutant: the age of the last heartbeat is not looked at. *)
IsHealthy_NoTimeout == state \in {"RUNNING", "THROTTLING"} /\ connected

IsHealthy == state \in {"RUNNING", "THROTTLING"} /\ fresh

(* The loop ends when the supervisor is not healthy; until then the        *)
(* application may stop the process.                                       *)
Loop ==
  /\ \/ ~IsHealthy /\ Go("main", "loop", "stop")
     \/ registered /\ Go("main", "loop", "stop_process")
  /\ UNCHANGED <<interrupted, state, running, link, locks, child>>

(* SIGTERM or SIGINT, once: the handler runs stop() in the main thread,    *)
(* between any two of its statements.                                      *)
Signal ==
  /\ interrupted = "none"
  /\ pc.main # "starting"
  /\ Go("main", pc.main, "stop")
  /\ interrupted' = pc.main
  /\ UNCHANGED <<state, running, link, locks, child>>

-----------------------------------------------------------------------------
(* The monitoring thread *)

Monitor ==
  /\ Go("monitor", "monitor", IF running THEN "thermal" ELSE "ended")
  /\ UNCHANGED <<interrupted, state, running, link, locks, child>>

(* _update_metrics and _check_thermal, up to the assignment of _state. *)
CheckThermal ==
  /\ metricsLock = "free"
  /\ \E temperature \in {"cool", "hot", "critical"} :
       Go("monitor", "thermal",
          CASE temperature = "critical" -> "stop"
            [] temperature = "hot" /\ state # "THROTTLING" -> "throttle"
            [] temperature = "cool" /\ state = "THROTTLING" -> "unthrottle"
            [] OTHER -> "check")
  /\ UNCHANGED <<interrupted, state, running, link, locks, child>>

Throttle ==
  /\ \/ Go("monitor", "throttle", "check") /\ state' = "THROTTLING"
     \/ Go("monitor", "unthrottle", "check") /\ state' = "RUNNING"
  /\ UNCHANGED <<interrupted, running, link, locks, child>>

(* _check_processes calls start_process inside the lock's block. *)
CheckProcesses ==
  /\ processLock = "free"
  /\ \/ /\ handle /\ ~alive
        /\ Go("monitor", "check", "restart")
        /\ processLock' = "monitor"
     \/ /\ ~handle \/ alive
        /\ Go("monitor", "check", "monitor")
        /\ UNCHANGED processLock
  /\ handle' = (handle /\ alive)
  /\ UNCHANGED <<interrupted, state, running, link, metricsLock, registered, alive>>

-----------------------------------------------------------------------------
(* The status thread, and _send_status in it and in the receiving thread *)

Status ==
  /\ \/ ~running /\ Go("status", "status", "ended")
     \/ running /\ connected /\ Go("status", "status", "send")
  /\ UNCHANGED <<interrupted, state, running, link, locks, child>>

AcquireMetrics(t) ==
  /\ metricsLock = "free"
  /\ metricsLock' = t
  /\ Go(t, "send", "report")
  /\ UNCHANGED <<interrupted, state, running, link, processLock, child>>

(* Mutant: the metrics lock is not released. *)
Report_KeepsMetrics(t) ==
  /\ processLock = "free"
  /\ Go(t, "report", "write")
  /\ UNCHANGED <<interrupted, state, running, link, locks, child>>

(* Mutant: the process lock is not released. *)
Report_KeepsProcesses(t) ==
  /\ processLock = "free" /\ processLock' = t
  /\ metricsLock' = "free"
  /\ Go(t, "report", "write")
  /\ UNCHANGED <<interrupted, state, running, link, child>>

(* _get_process_status needs the other lock, too. *)
Report(t) ==
  /\ processLock = "free"
  /\ metricsLock' = "free"
  /\ Go(t, "report", "write")
  /\ UNCHANGED <<interrupted, state, running, link, processLock, child>>

(* send_response; when writing fails the port is closed. *)
Write(t) ==
  /\ \/ Go(t, "write", AfterSend[t]) /\ UNCHANGED <<connected, fresh>>
     \/ connected /\ Go(t, "write", "lost") /\ connected' = FALSE /\ fresh' = FALSE
  /\ UNCHANGED <<interrupted, state, running, listening, locks, child>>

(* _handle_obc_disconnect *)
Lost(t) ==
  /\ \/ Go(t, "lost", AfterSend[t])
     \/ t = "rx" /\ Go(t, "rx_lost", "rx")
  /\ state' = "THROTTLING"
  /\ UNCHANGED <<interrupted, running, link, locks, child>>

-----------------------------------------------------------------------------
(* The receiving thread *)

Listen ==
  /\ \/ ~listening /\ Go("rx", "rx", "ended")
     \/ listening /\ ~connected /\ Go("rx", "rx", "rx_connect")
  /\ UNCHANGED <<interrupted, state, running, link, locks, child>>

(* _attempt_reconnect; opening the port counts as a heartbeat. *)
Reconnect ==
  /\ Go("rx", "rx_connect", "rx")
  /\ \/ connected' = TRUE /\ fresh' = TRUE
     \/ connected' = FALSE /\ fresh' = FALSE
  /\ UNCHANGED <<interrupted, state, running, listening, locks, child>>

(* _handle_power_state_change, up to the assignment of _state. *)
AfterPower(power) ==
  CASE power = "SAFE" -> "rx_throttle"
    [] power = "IDLE" /\ state # "THROTTLING" -> "rx_check"
    [] OTHER -> "rx_run"

(* One frame, or none. *)
Command ==
  /\ listening /\ connected
  /\ \/ /\ \E power \in {"SAFE", "IDLE", "ACTIVE"} : Go("rx", "rx", AfterPower(power))
        /\ fresh' \in {fresh, TRUE}   \* POWER_STATE or HEARTBEAT
     \/ /\ \E next \in {"send", "stop", "restart_all", "rx_check"} : Go("rx", "rx", next)
        /\ UNCHANGED fresh
  /\ UNCHANGED <<interrupted, state, running, listening, connected, locks, child>>

SetPower ==
  /\ \/ Go("rx", "rx_throttle", "rx_check") /\ state' = "THROTTLING"
     \/ Go("rx", "rx_run", "rx_check") /\ state' = "RUNNING"
  /\ UNCHANGED <<interrupted, running, link, locks, child>>

(* Mutant: the block of _restart_all_processes does not wait for the lock. *)
RestartAll_NoWait ==
  /\ \/ registered /\ Go("rx", "restart_all", "stop_process") /\ processLock' = "rx"
     \/ ~registered /\ Go("rx", "restart_all", "rx_check") /\ UNCHANGED processLock
  /\ UNCHANGED <<interrupted, state, running, link, metricsLock, child>>

(* _restart_all_processes calls stop_process inside the lock's block. *)
RestartAll ==
  /\ processLock = "free"
  /\ \/ registered /\ Go("rx", "restart_all", "stop_process") /\ processLock' = "rx"
     \/ ~registered /\ Go("rx", "restart_all", "rx_check") /\ UNCHANGED processLock
  /\ UNCHANGED <<interrupted, state, running, link, metricsLock, child>>

(* The heartbeat is checked after every read; a read may fail. *)
RxCheck ==
  /\ \/ fresh /\ Go("rx", "rx_check", "rx") /\ UNCHANGED <<connected, fresh>>
     \/ /\ \/ ~fresh /\ Go("rx", "rx_check", "rx_lost")
           \/ listening /\ connected /\ Go("rx", "rx", "rx_lost")
        /\ connected' = FALSE /\ fresh' = FALSE
  /\ UNCHANGED <<interrupted, state, running, listening, locks, child>>

-----------------------------------------------------------------------------
(* HEARTBEAT_TIMEOUT_S pass without a heartbeat. *)
Expire ==
  /\ pc.main # "exited"
  /\ fresh /\ fresh' = FALSE
  /\ UNCHANGED <<pc, interrupted, state, running, listening, connected, locks, child>>

(* The managed process ends by itself. *)
ChildExits ==
  /\ pc.main # "exited"
  /\ alive /\ alive' = FALSE
  /\ UNCHANGED <<pc, interrupted, state, running, link, locks, registered, handle>>

(* start() has opened the port, or not, and started the threads. *)
Init ==
  /\ state = "STARTING" /\ running = TRUE /\ interrupted = "none"
  /\ connected \in BOOLEAN /\ listening = connected /\ fresh = connected
  /\ pc = [main |-> "starting", monitor |-> "monitor", status |-> "status",
           rx |-> IF connected THEN "rx" ELSE "ended"]
  /\ processLock = "free" /\ metricsLock = "free"
  /\ registered \in BOOLEAN
  /\ handle = FALSE /\ alive = FALSE

Stop(t) == StopBegin(t) \/ StopEach(t) \/ StopHealth(t) \/ Close(t)
SendStatus(t) == AcquireMetrics(t) \/ Report(t) \/ Write(t) \/ Lost(t)

MainThread == AcquireProcesses("main") \/ Stop("main") \/ StopEnd \/ Started \/ Popen \/ Terminate \/ Loop
MonitorThread ==
  AcquireProcesses("monitor") \/ Stop("monitor") \/ Monitor \/ CheckThermal \/ Throttle \/ CheckProcesses
StatusThread == AcquireProcesses("status") \/ Status \/ SendStatus("status")
RxThread ==
  \/ AcquireProcesses("rx") \/ Stop("rx") \/ SendStatus("rx")
  \/ Listen \/ Reconnect \/ Command \/ SetPower \/ RestartAll \/ RxCheck

Next == MainThread \/ MonitorThread \/ StatusThread \/ RxThread \/ Signal \/ Expire \/ ChildExits

(* The operating system runs every thread that can go on, and lets the     *)
(* monitor, which waits for a lock that others take for moments between    *)
(* their sleeps, have it at some time; a heartbeat that no thread can      *)
(* refresh grows old.                                                      *)
Fairness ==
  /\ WF_vars(MainThread) /\ SF_vars(MonitorThread) /\ WF_vars(StatusThread) /\ WF_vars(RxThread)
  /\ WF_vars(Expire /\ pc.rx = "ended")

Spec == Init /\ [][Next]_vars /\ Fairness

-----------------------------------------------------------------------------

(* Statements inside the with blocks of the two locks. *)
ProcessBlock ==
  {"popen", "terminate", "stop_each", "stop_process", "restart"}
MetricsBlock == {"report"}

At(t) == {pc[t]} \union IF t = "main" THEN {interrupted} ELSE {}

(* Every field holds a value of its type, and a lock is held only by a     *)
(* thread inside the lock's block, or interrupted there.                   *)
TypeOK ==
  /\ DOMAIN pc = Threads
  /\ state \in SupervisorState
  /\ {running, listening, connected, fresh, registered, handle, alive} \subseteq BOOLEAN
  /\ processLock = "free" \/ At(processLock) \intersect ProcessBlock # {}
  /\ metricsLock = "free" \/ At(metricsLock) \intersect MetricsBlock # {}

(* Two threads are never inside blocks of the process lock, even when a    *)
(* signal takes the main thread out of one.  A call of stop_process from   *)
(* the application is not inside yet.                                      *)
Inside(t) ==
  \/ At(t) \intersect (ProcessBlock \ {"stop_process"}) # {}
  \/ t # "main" /\ pc[t] = "stop_process"

BlocksExclusive == \A t, u \in Threads : Inside(t) /\ Inside(u) => t = u

(* Without a registered process, a shutdown that anyone starts ends the    *)
(* program, whatever the other threads write into _state meanwhile: stop() *)
(* started by the receiving or the monitoring thread is cut short, and the *)
(* main loop has to notice and do it again.  The exception is a signal     *)
(* that interrupts the main thread while it holds the lock.                *)
ShutdownEnds ==
  (state = "SHUTTING_DOWN" /\ ~registered)
    ~> (pc.main = "exited" \/ interrupted \in ProcessBlock)

(* Without a registered process the temperature is checked again and again *)
(* until the monitor's loop or the program ends, with the same exception:  *)
(* no thread keeps a lock from it.                                         *)
MonitorLives ==
  registered \/ []<>(pc.monitor \in {"monitor", "ended"} \/ pc.main = "exited"
                        \/ interrupted \in ProcessBlock)

(* stop(): "Stop the supervisor and all managed processes."                *)
StopStopsChild == (state = "SHUTTING_DOWN" /\ alive) ~> ~alive
=============================================================================
