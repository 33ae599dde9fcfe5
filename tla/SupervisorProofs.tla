--------------------------- MODULE SupervisorProofs ---------------------------
(***************************************************************************)
(* Theorems about the locks of the payload supervisor.  They hold for any  *)
(* interleaving of its threads, so no fairness is used.                    *)
(***************************************************************************)
EXTENDS PayloadSupervisor, TLAPS

-----------------------------------------------------------------------------
(* Where the threads can be. *)
MainAt == {"starting", "start_process", "popen", "stop_process", "terminate", "loop",
           "stop", "stop_all", "stop_each", "stop_health", "close", "stopped", "exited"}
MonitorAt == {"monitor", "thermal", "throttle", "unthrottle", "check", "restart", "ended",
              "stop", "stop_all", "stop_each", "stop_process", "stop_health", "close"}
StatusAt == {"status", "send", "report", "write", "lost", "ended"}
RxAt == {"rx", "rx_connect", "rx_lost", "rx_throttle", "rx_run", "rx_check", "restart_all",
         "send", "report", "write", "lost", "ended",
         "stop", "stop_all", "stop_each", "stop_process", "stop_health"}

Places ==
  /\ pc = [t \in Threads |-> pc[t]]
  /\ pc.main \in MainAt /\ pc.monitor \in MonitorAt /\ pc.status \in StatusAt /\ pc.rx \in RxAt
  /\ interrupted \in {"none", "done"} \union MainAt

Values ==
  /\ state \in SupervisorState
  /\ {running, listening, connected, fresh, registered, handle, alive} \subseteq BOOLEAN

(* What holds the process lock: the main thread in a block, or in the      *)
(* signal handler that interrupted one, where it comes no further than     *)
(* stop_all; and another thread in a block.                                *)
MainHolds ==
  /\ processLock = "main" =>
       \/ pc.main \in ProcessBlock
       \/ interrupted \in ProcessBlock /\ pc.main \in {"stop", "stop_all"}
  /\ pc.main \in {"popen", "terminate", "stop_each"} => processLock = "main"
  /\ interrupted \in {"popen", "terminate", "stop_each"} =>
       processLock = "main" /\ pc.main \in {"stop", "stop_all"}

OthersHold ==
  /\ processLock \in {"free"} \union Threads
  /\ \A t \in {"monitor", "rx"} : processLock = t <=> pc[t] \in ProcessBlock
  /\ processLock # "status"

MetricsHeld ==
  /\ metricsLock \in {"free", "status", "rx"}
  /\ \A t \in {"status", "rx"} : metricsLock = t <=> pc[t] = "report"

LocksInv == Places /\ MainHolds /\ OthersHold /\ MetricsHeld

LEMMA Moves ==
  ASSUME Places, NEW t \in Threads, NEW from, NEW to, Go(t, from, to)
  PROVE  /\ pc' = [u \in Threads |-> pc'[u]] /\ pc[t] = from /\ pc'[t] = to
         /\ \A u \in Threads : u # t => pc'[u] = pc[u]
         /\ pc.main # "exited"
  BY DEF Places, Go

LEMMA ThreadNames ==
  /\ Threads = {"main", "monitor", "status", "rx"}
  /\ DOMAIN AfterLock = {"start_process", "stop_process", "stop_all", "restart"}
  /\ AfterLock["start_process"] = "popen" /\ AfterLock["stop_process"] = "terminate"
  /\ AfterLock["stop_all"] = "stop_each" /\ AfterLock["restart"] = "popen"
  /\ AfterSend["status"] = "status" /\ AfterSend["rx"] = "rx_check"
  BY DEF Threads, AfterLock, AfterSend

(* What a step may do to the locks.  The main thread has its own case, as   *)
(* a signal may take it out of a block. *)
PlacesOf == [monitor |-> MonitorAt, status |-> StatusAt, rx |-> RxAt]

ProcessLockFollows(t, from, to) ==
  \/ processLock' = processLock /\ (to \in ProcessBlock <=> from \in ProcessBlock)
  \/ processLock \in {"free", t} /\ processLock' = t /\ to \in ProcessBlock /\ t # "status"
  \/ processLock = t /\ processLock' = "free" /\ to \notin ProcessBlock

MetricsLockFollows(t, from, to) ==
  \/ metricsLock' = metricsLock /\ (to = "report" <=> from = "report")
  \/ metricsLock = "free" /\ metricsLock' = t /\ to = "report" /\ t # "monitor"
  \/ metricsLock = t /\ metricsLock' = "free" /\ to # "report"

LEMMA OtherKeeps ==
  ASSUME LocksInv, NEW t \in {"monitor", "status", "rx"}, NEW from, NEW to, Go(t, from, to),
         interrupted' = interrupted, to \in PlacesOf[t],
         ProcessLockFollows(t, from, to), MetricsLockFollows(t, from, to)
  PROVE  LocksInv'
<1>1. /\ pc' = [u \in Threads |-> pc'[u]] /\ pc[t] = from /\ pc'[t] = to
      /\ \A u \in Threads : u # t => pc'[u] = pc[u]
  BY Moves, ThreadNames DEF LocksInv
<1>2. Places'
  BY <1>1, ThreadNames DEF LocksInv, Places, PlacesOf
<1>3. pc'.main = pc.main
  BY <1>1, ThreadNames
<1>4. MainHolds' /\ OthersHold'
  <2>1. CASE processLock' = processLock /\ (to \in ProcessBlock <=> from \in ProcessBlock)
    BY <1>1, <1>3, <2>1, ThreadNames DEF LocksInv, MainHolds, OthersHold
  <2>2. CASE processLock \in {"free", t} /\ processLock' = t /\ to \in ProcessBlock /\ t # "status"
    BY <1>1, <1>3, <2>2, ThreadNames DEF LocksInv, MainHolds, OthersHold
  <2>3. CASE processLock = t /\ processLock' = "free" /\ to \notin ProcessBlock
    BY <1>1, <1>3, <2>3, ThreadNames DEF LocksInv, MainHolds, OthersHold
  <2>4. QED
    BY <2>1, <2>2, <2>3 DEF ProcessLockFollows
<1>5. MetricsHeld'
  BY <1>1, ThreadNames DEF LocksInv, MetricsHeld, MetricsLockFollows
<1>6. QED
  BY <1>2, <1>4, <1>5 DEF LocksInv

LEMMA MainKeeps ==
  ASSUME LocksInv, NEW from, NEW to, Go("main", from, to), metricsLock' = metricsLock,
         to \in MainAt, interrupted' \in {"none", "done"} \union MainAt,
         \/ processLock' = processLock
         \/ {processLock, processLock'} \subseteq {"free", "main"},
         MainHolds'
  PROVE  LocksInv'
<1>1. /\ pc' = [u \in Threads |-> pc'[u]] /\ pc'.main = to
      /\ \A u \in Threads : u # "main" => pc'[u] = pc[u]
  BY Moves, ThreadNames DEF LocksInv
<1>2. Places'
  BY <1>1, ThreadNames DEF LocksInv, Places
<1>3. OthersHold' /\ MetricsHeld'
  BY <1>1, ThreadNames DEF LocksInv, OthersHold, MetricsHeld
<1>4. QED
  BY <1>2, <1>3 DEF LocksInv

LEMMA FrameKeeps ==
  ASSUME LocksInv, UNCHANGED <<pc, interrupted, locks>>
  PROVE  LocksInv'
  BY DEF LocksInv, Places, MainHolds, OthersHold, MetricsHeld, locks

(* stop() and the acquisitions, in the main thread and in the others. *)
LEMMA MainStopKeeps ==
  ASSUME LocksInv, AcquireProcesses("main") \/ Stop("main")
  PROVE  LocksInv'
<1>1. CASE AcquireProcesses("main")
  <2>1. /\ Go("main", pc.main, AfterLock[pc.main]) /\ pc.main \in DOMAIN AfterLock
        /\ processLock = "free" /\ processLock' = "main"
        /\ interrupted' = interrupted /\ metricsLock' = metricsLock
    BY <1>1 DEF AcquireProcesses
  <2>2. pc.main # "restart"
    BY DEF LocksInv, Places, MainAt
  <2>3. AfterLock[pc.main] \in {"popen", "terminate", "stop_each"} /\ pc'.main = AfterLock[pc.main]
    BY <2>1, <2>2, Moves, ThreadNames DEF LocksInv
  <2>4. MainHolds'
    BY <2>1, <2>3 DEF LocksInv, MainHolds, ProcessBlock
  <2>5. QED
    BY <2>1, <2>3, <2>4, MainKeeps DEF MainAt, LocksInv, Places
<1>2. ASSUME NEW from, NEW to, Go("main", from, to), from \in {"stop", "stop_health", "close"},
             to \in {"stop_all", "close", "stopped"}, from = "stop" <=> to = "stop_all",
             UNCHANGED <<interrupted, locks>>
      PROVE  LocksInv'
  <2>1. pc.main = from /\ pc'.main = to
    BY <1>2, Moves, ThreadNames DEF LocksInv
  <2>2. MainHolds'
    BY <1>2, <2>1 DEF LocksInv, MainHolds, ProcessBlock, locks
  <2>3. QED
    BY <1>2, <2>2, MainKeeps DEF MainAt, LocksInv, Places, locks
<1>3. CASE StopBegin("main") \/ StopHealth("main") \/ Close("main")
  <2>1. \/ Go("main", "stop", "stop_all") \/ Go("main", "stop_health", "close")
        \/ Go("main", "close", "stopped")
    BY <1>3 DEF StopBegin, StopHealth, Close
  <2>2. UNCHANGED <<interrupted, locks>>
    BY <1>3 DEF StopBegin, StopHealth, Close
  <2>3. QED
    BY <1>2, <2>1, <2>2
<1>4. CASE StopEach("main")
  <2>1. PICK to \in {"stop_process", "stop_health"} :
          /\ Go("main", "stop_each", to) /\ UNCHANGED <<interrupted, metricsLock>>
          /\ processLock' = IF to = "stop_process" THEN processLock ELSE "free"
    BY <1>4 DEF StopEach
  <2>2. pc.main = "stop_each" /\ pc'.main = to
    BY <2>1, Moves, ThreadNames DEF LocksInv
  <2>3. processLock = "main" /\ MainHolds'
    BY <2>1, <2>2 DEF LocksInv, MainHolds, ProcessBlock
  <2>4. QED
    BY <2>1, <2>3, MainKeeps DEF MainAt, LocksInv, Places
<1>5. QED
  BY <1>1, <1>3, <1>4 DEF Stop

LEMMA MainThreadKeeps ==
  ASSUME LocksInv, MainThread \/ Signal
  PROVE  LocksInv'
<1>1. CASE StopEnd
  <2> DEFINE to == IF interrupted \in {"none", "done"} THEN "exited" ELSE interrupted
  <2>1. /\ Go("main", "stopped", to) /\ UNCHANGED locks
        /\ interrupted' \in {"none", "done"}
    BY <1>1 DEF StopEnd
  <2>2. pc.main = "stopped" /\ pc'.main = to
    BY <2>1, Moves, ThreadNames DEF LocksInv
  <2>3. to \in MainAt /\ processLock # "main"
        /\ interrupted \notin {"popen", "terminate", "stop_each"}
    BY <2>2 DEF LocksInv, Places, MainHolds, ProcessBlock, MainAt
  <2>4. MainHolds'
    BY <2>1, <2>2, <2>3 DEF MainHolds, ProcessBlock, locks
  <2>5. QED
    BY <2>1, <2>3, <2>4, MainKeeps DEF locks
<1>2. ASSUME NEW from, NEW to, Go("main", from, to), UNCHANGED <<interrupted, locks>>,
             from \in {"starting", "loop"}, to \in {"start_process", "loop", "stop", "stop_process"}
      PROVE  LocksInv'
  <2>1. pc.main = from /\ pc'.main = to
    BY <1>2, Moves, ThreadNames DEF LocksInv
  <2>2. MainHolds'
    BY <1>2, <2>1 DEF LocksInv, MainHolds, ProcessBlock, locks
  <2>3. QED
    BY <1>2, <2>2, MainKeeps DEF MainAt, LocksInv, Places, locks
<1>3. CASE Started \/ Loop
  <2>1. UNCHANGED <<interrupted, locks>>
    BY <1>3 DEF Started, Loop
  <2>2. \E from \in {"starting", "loop"}, to \in {"start_process", "loop", "stop", "stop_process"} :
          Go("main", from, to)
    BY <1>3 DEF Started, Loop
  <2>3. QED
    BY <1>2, <2>1, <2>2
<1>4. CASE Popen \/ Terminate
  <2>1. PICK from \in {"popen", "terminate"} :
          /\ Go("main", from, "loop") /\ processLock' = "free"
          /\ interrupted' = interrupted /\ metricsLock' = metricsLock
    BY <1>4 DEF Popen, Terminate
  <2>2. pc.main = from /\ pc'.main = "loop"
    BY <2>1, Moves, ThreadNames DEF LocksInv
  <2>3. processLock = "main" /\ MainHolds'
    BY <2>1, <2>2 DEF LocksInv, MainHolds, ProcessBlock
  <2>4. QED
    BY <2>1, <2>3, MainKeeps DEF MainAt, LocksInv, Places
<1>5. CASE Signal
  <2>1. /\ interrupted = "none" /\ interrupted' = pc.main /\ Go("main", pc.main, "stop")
        /\ UNCHANGED locks
    BY <1>5 DEF Signal
  <2>2. pc'.main = "stop" /\ pc.main \in MainAt
    BY <2>1, Moves, ThreadNames DEF LocksInv, Places
  <2>3. MainHolds'
    BY <2>1, <2>2 DEF LocksInv, MainHolds, ProcessBlock, locks
  <2>4. QED
    BY <2>1, <2>2, <2>3, MainKeeps DEF MainAt, locks
<1>6. QED
  BY <1>1, <1>3, <1>4, <1>5, MainStopKeeps DEF MainThread

(* stop() and the acquisitions in the monitoring and receiving threads. *)
LEMMA OtherStopKeeps ==
  ASSUME LocksInv, NEW t \in {"monitor", "rx"}, Stop(t)
  PROVE  LocksInv'
<1>1. \E from \in {"stop", "stop_health", "close"},
         to \in {"stop_all", "close", "stopped", "monitor", "rx_check"} :
        /\ Go(t, from, to) /\ UNCHANGED <<interrupted, locks>>
        /\ t = "monitor" => to \in {"stop_all", "close", "monitor"}
        /\ t = "rx" => to \in {"stop_all", "rx_check", "stopped"} /\ (to = "stopped" => from = "close")
      \/ StopEach(t)
  BY DEF Stop, StopBegin, StopHealth, Close
<1>2. CASE StopEach(t)
  <2>1. PICK to \in {"stop_process", "stop_health"} :
          /\ Go(t, "stop_each", to) /\ UNCHANGED <<interrupted, metricsLock>>
          /\ processLock' = IF to = "stop_process" THEN processLock ELSE "free"
    BY <1>2 DEF StopEach
  <2>2. pc[t] = "stop_each"
    BY <2>1, Moves, ThreadNames DEF LocksInv
  <2>3. processLock = t
    BY <2>2 DEF LocksInv, OthersHold, ProcessBlock
  <2>4. ProcessLockFollows(t, "stop_each", to) /\ MetricsLockFollows(t, "stop_each", to)
    BY <2>1, <2>3 DEF ProcessLockFollows, MetricsLockFollows, ProcessBlock
  <2>5. QED
    BY <2>1, <2>4, OtherKeeps DEF PlacesOf, MonitorAt, RxAt
<1>3. ASSUME NEW from \in {"stop", "stop_health", "close"},
             NEW to \in {"stop_all", "close", "stopped", "monitor", "rx_check"},
             Go(t, from, to), UNCHANGED <<interrupted, locks>>,
             t = "monitor" => to \in {"stop_all", "close", "monitor"},
             t = "rx" => to \in {"stop_all", "rx_check", "stopped"} /\ (to = "stopped" => from = "close")
      PROVE  LocksInv'
  <2>1. pc[t] = from
    BY <1>3, Moves, ThreadNames DEF LocksInv
  <2>2. to \in PlacesOf[t]
    BY <1>3, <2>1 DEF LocksInv, Places, PlacesOf, MonitorAt, RxAt
  <2>3. ProcessLockFollows(t, from, to) /\ MetricsLockFollows(t, from, to)
    BY <1>3 DEF ProcessLockFollows, MetricsLockFollows, ProcessBlock, locks
  <2>4. QED
    BY <1>3, <2>2, <2>3, OtherKeeps
<1>4. QED
  BY <1>1, <1>2, <1>3

LEMMA OtherAcquires ==
  ASSUME LocksInv, NEW t \in {"monitor", "status", "rx"}, AcquireProcesses(t)
  PROVE  LocksInv'
<1>1. /\ Go(t, pc[t], AfterLock[pc[t]]) /\ pc[t] \in DOMAIN AfterLock
      /\ processLock = "free" /\ processLock' = t
      /\ interrupted' = interrupted /\ metricsLock' = metricsLock
  BY DEF AcquireProcesses
<1>2. pc[t] = "stop_all" /\ t # "status"
  BY <1>1, ThreadNames DEF LocksInv, Places, OthersHold, ProcessBlock, MonitorAt, StatusAt, RxAt
<1>3. /\ AfterLock[pc[t]] = "stop_each"
      /\ ProcessLockFollows(t, pc[t], "stop_each") /\ MetricsLockFollows(t, pc[t], "stop_each")
  BY <1>1, <1>2, ThreadNames DEF ProcessLockFollows, MetricsLockFollows, ProcessBlock
<1>4. QED
  BY <1>1, <1>2, <1>3, OtherKeeps DEF PlacesOf, MonitorAt, RxAt

(* A step of the two threads within or without the locks' blocks. *)
LEMMA PlainKeeps ==
  ASSUME LocksInv, NEW t \in {"monitor", "status", "rx"}, NEW from, NEW to,
         Go(t, from, to), UNCHANGED <<interrupted, locks>>, to \in PlacesOf[t],
         {from, to} \intersect (ProcessBlock \union MetricsBlock) = {}
  PROVE  LocksInv'
<1>1. ProcessLockFollows(t, from, to) /\ MetricsLockFollows(t, from, to)
  BY DEF ProcessLockFollows, MetricsLockFollows, MetricsBlock, locks
<1>2. QED
  BY <1>1, OtherKeeps

LEMMA MonitorThreadKeeps ==
  ASSUME LocksInv, MonitorThread
  PROVE  LocksInv'
<1>1. CASE CheckProcesses
  <2>1. PICK to \in {"restart", "monitor"} :
          /\ Go("monitor", "check", to) /\ UNCHANGED <<interrupted, metricsLock>>
          /\ processLock = "free" /\ processLock' = IF to = "restart" THEN "monitor" ELSE "free"
    BY <1>1 DEF CheckProcesses
  <2>2. /\ ProcessLockFollows("monitor", "check", to) /\ MetricsLockFollows("monitor", "check", to)
    BY <2>1 DEF ProcessLockFollows, MetricsLockFollows, ProcessBlock
  <2>3. QED
    BY <2>1, <2>2, OtherKeeps DEF PlacesOf, MonitorAt
<1>2. CASE Monitor \/ CheckThermal \/ Throttle
  <2>1. UNCHANGED <<interrupted, locks>>
    BY <1>2 DEF Monitor, CheckThermal, Throttle
  <2>2. \E from \in {"monitor", "thermal", "throttle", "unthrottle"},
           to \in {"thermal", "ended", "stop", "throttle", "unthrottle", "check"} :
          Go("monitor", from, to)
    BY <1>2 DEF Monitor, CheckThermal, Throttle
  <2>3. QED
    BY <2>1, <2>2, PlainKeeps DEF PlacesOf, MonitorAt, ProcessBlock, MetricsBlock
<1>3. QED
  BY <1>1, <1>2, OtherStopKeeps, OtherAcquires DEF MonitorThread

LEMMA SendStatusKeeps ==
  ASSUME LocksInv, NEW t \in {"status", "rx"}, SendStatus(t)
  PROVE  LocksInv'
<1>1. CASE AcquireMetrics(t)
  <2>1. /\ Go(t, "send", "report") /\ UNCHANGED <<interrupted, processLock>>
        /\ metricsLock = "free" /\ metricsLock' = t
    BY <1>1 DEF AcquireMetrics
  <2>2. ProcessLockFollows(t, "send", "report") /\ MetricsLockFollows(t, "send", "report")
    BY <2>1 DEF ProcessLockFollows, MetricsLockFollows, ProcessBlock
  <2>3. QED
    BY <2>1, <2>2, OtherKeeps DEF PlacesOf, StatusAt, RxAt
<1>2. CASE Report(t)
  <2>1. /\ Go(t, "report", "write") /\ UNCHANGED <<interrupted, processLock>>
        /\ metricsLock' = "free"
    BY <1>2 DEF Report
  <2>2. pc[t] = "report"
    BY <2>1, Moves, ThreadNames DEF LocksInv
  <2>3. metricsLock = t
    BY <2>2 DEF LocksInv, MetricsHeld
  <2>4. ProcessLockFollows(t, "report", "write") /\ MetricsLockFollows(t, "report", "write")
    BY <2>1, <2>3 DEF ProcessLockFollows, MetricsLockFollows, ProcessBlock
  <2>5. QED
    BY <2>1, <2>4, OtherKeeps DEF PlacesOf, StatusAt, RxAt
<1>3. CASE Write(t) \/ Lost(t)
  <2>1. UNCHANGED <<interrupted, locks>>
    BY <1>3 DEF Write, Lost
  <2>2. \E from \in {"write", "lost", "rx_lost"}, to \in {"status", "rx_check", "lost", "rx"} :
          Go(t, from, to) /\ to \in PlacesOf[t]
    BY <1>3, ThreadNames DEF Write, Lost, PlacesOf, StatusAt, RxAt
  <2>3. QED
    BY <2>1, <2>2, PlainKeeps DEF ProcessBlock, MetricsBlock
<1>4. QED
  BY <1>1, <1>2, <1>3 DEF SendStatus

LEMMA StatusThreadKeeps ==
  ASSUME LocksInv, StatusThread
  PROVE  LocksInv'
<1>1. CASE Status
  <2>1. UNCHANGED <<interrupted, locks>>
        /\ \E to \in {"ended", "send"} : Go("status", "status", to)
    BY <1>1 DEF Status
  <2>2. QED
    BY <2>1, PlainKeeps DEF PlacesOf, StatusAt, ProcessBlock, MetricsBlock
<1>2. QED
  BY <1>1, SendStatusKeeps, OtherAcquires DEF StatusThread

LEMMA RxThreadKeeps ==
  ASSUME LocksInv, RxThread
  PROVE  LocksInv'
<1>1. CASE RestartAll
  <2>1. PICK to \in {"stop_process", "rx_check"} :
          /\ Go("rx", "restart_all", to) /\ UNCHANGED <<interrupted, metricsLock>>
          /\ processLock = "free" /\ processLock' = IF to = "stop_process" THEN "rx" ELSE "free"
    BY <1>1 DEF RestartAll
  <2>2. ProcessLockFollows("rx", "restart_all", to) /\ MetricsLockFollows("rx", "restart_all", to)
    BY <2>1 DEF ProcessLockFollows, MetricsLockFollows, ProcessBlock
  <2>3. QED
    BY <2>1, <2>2, OtherKeeps DEF PlacesOf, RxAt
<1>2. CASE Listen \/ Reconnect \/ Command \/ SetPower \/ RxCheck
  <2>1. UNCHANGED <<interrupted, locks>>
    BY <1>2 DEF Listen, Reconnect, Command, SetPower, RxCheck
  <2>2. \E from \in {"rx", "rx_connect", "rx_throttle", "rx_run", "rx_check"},
           to \in {"ended", "rx_connect", "rx", "rx_throttle", "rx_check", "rx_run", "send",
                   "stop", "restart_all", "rx_lost"} :
          Go("rx", from, to)
    BY <1>2 DEF Listen, Reconnect, Command, AfterPower, SetPower, RxCheck
  <2>3. QED
    BY <2>1, <2>2, PlainKeeps DEF PlacesOf, RxAt, ProcessBlock, MetricsBlock
<1>3. QED
  BY <1>1, <1>2, SendStatusKeeps, OtherStopKeeps, OtherAcquires DEF RxThread

LEMMA LocksInvStep ==
  ASSUME LocksInv, [Next]_vars
  PROVE  LocksInv'
<1>1. CASE Expire \/ ChildExits \/ UNCHANGED vars
  BY <1>1, FrameKeeps DEF Expire, ChildExits, vars, locks
<1>2. QED
  BY <1>1, MainThreadKeeps, MonitorThreadKeeps, StatusThreadKeeps, RxThreadKeeps DEF Next

LEMMA LocksInvStart == Init => LocksInv
<1>1. SUFFICES ASSUME Init
               PROVE  LocksInv
  OBVIOUS
<1>2. /\ pc = [main |-> "starting", monitor |-> "monitor", status |-> "status",
               rx |-> IF connected THEN "rx" ELSE "ended"]
      /\ interrupted = "none" /\ processLock = "free" /\ metricsLock = "free"
  BY <1>1 DEF Init
<1>3. /\ pc = [t \in Threads |-> pc[t]] /\ pc.main = "starting" /\ pc.monitor = "monitor"
      /\ pc.status = "status" /\ pc.rx \in {"rx", "ended"}
  BY <1>2 DEF Threads
<1>4. QED
  BY <1>2, <1>3
     DEF LocksInv, Places, MainHolds, OthersHold, MetricsHeld, ProcessBlock, MainAt, MonitorAt,
         StatusAt, RxAt

LEMMA LocksInvAlways == Spec => []LocksInv
<1>1. LocksInv /\ [Next]_vars => LocksInv'
  BY LocksInvStep
<1>2. QED
  BY LocksInvStart, <1>1, PTL DEF Spec

LEMMA ValuesStep ==
  ASSUME Values, [Next]_vars
  PROVE  Values'
<1>1. CASE UNCHANGED vars
  BY <1>1 DEF Values, vars, link, child
<1>2. ASSUME NEW t \in Threads, AcquireProcesses(t)
      PROVE  Values'
  BY <1>2 DEF AcquireProcesses, Values, link, child
<1>3. ASSUME NEW t \in Threads, Stop(t)
      PROVE  Values'
  BY <1>3 DEF Stop, StopBegin, StopEach, StopHealth, Close, Values, SupervisorState, link, child
<1>4. ASSUME NEW t \in Threads, SendStatus(t)
      PROVE  Values'
  BY <1>4 DEF SendStatus, AcquireMetrics, Report, Write, Lost, Values, SupervisorState, link, child
<1>5. CASE MainThread \/ Signal
  <2>1. CASE StopEnd \/ Started \/ Loop \/ Signal
    BY <2>1 DEF StopEnd, Started, Loop, Signal, Values, SupervisorState, link, child
  <2>2. CASE Popen \/ Terminate
    BY <2>2 DEF Popen, Terminate, Values, link
  <2>3. QED
    BY <1>2, <1>3, <1>5, <2>1, <2>2, ThreadNames DEF MainThread
<1>6. CASE MonitorThread
  <2>1. CASE Monitor \/ CheckThermal \/ Throttle
    BY <2>1 DEF Monitor, CheckThermal, Throttle, Values, SupervisorState, link, child
  <2>2. CASE CheckProcesses
    BY <2>2 DEF CheckProcesses, Values, link
  <2>3. QED
    BY <1>2, <1>3, <1>6, <2>1, <2>2, ThreadNames DEF MonitorThread
<1>7. CASE StatusThread
  <2>1. CASE Status
    BY <2>1 DEF Status, Values, link, child
  <2>2. QED
    BY <1>2, <1>4, <1>7, <2>1, ThreadNames DEF StatusThread
<1>8. CASE RxThread
  <2>1. CASE Listen \/ SetPower \/ RestartAll
    BY <2>1 DEF Listen, SetPower, RestartAll, Values, SupervisorState, link, child
  <2>2. CASE Reconnect \/ RxCheck
    BY <2>2 DEF Reconnect, RxCheck, Values, child
  <2>3. CASE Command
    <3>1. fresh' \in {fresh, TRUE} /\ UNCHANGED <<state, running, listening, connected, child>>
      BY <2>3 DEF Command
    <3>2. QED
      BY <3>1 DEF Values, child
  <2>4. QED
    BY <1>2, <1>3, <1>4, <1>8, <2>1, <2>2, <2>3, ThreadNames DEF RxThread
<1>9. CASE Expire \/ ChildExits
  BY <1>9 DEF Expire, ChildExits, Values, link, child
<1>10. QED
  BY <1>1, <1>5, <1>6, <1>7, <1>8, <1>9 DEF Next

(***************************************************************************)
(* Every field of the supervisor has its type, and a lock is held only by  *)
(* a thread inside the lock's block, or taken out of it by a signal.       *)
(***************************************************************************)
THEOREM TypeCorrect == Spec => []TypeOK
<1>1. Init => Values
  BY DEF Init, Values, SupervisorState
<1>2. Values /\ [Next]_vars => Values'
  BY ValuesStep
<1>3. LocksInv /\ Values => TypeOK
  <2>1. SUFFICES ASSUME LocksInv, Values
                 PROVE  TypeOK
    OBVIOUS
  <2>2. DOMAIN pc = Threads
    BY <2>1 DEF LocksInv, Places
  <2>3. processLock = "free" \/ At(processLock) \intersect ProcessBlock # {}
    BY <2>1, ThreadNames DEF LocksInv, MainHolds, OthersHold, At
  <2>4. metricsLock = "free" \/ At(metricsLock) \intersect MetricsBlock # {}
    BY <2>1 DEF LocksInv, MetricsHeld, At, MetricsBlock
  <2>5. QED
    BY <2>1, <2>2, <2>3, <2>4 DEF TypeOK, Values
<1>4. QED
  BY <1>1, <1>2, <1>3, LocksInvAlways, PTL DEF Spec

(***************************************************************************)
(* _process_lock keeps the threads' blocks apart: start_process, stop_all  *)
(* and the restarts never overlap, not even when a signal takes the main   *)
(* thread out of one of them.                                              *)
(***************************************************************************)
THEOREM BlocksExclusiveHolds == Spec => []BlocksExclusive
<1>1. ASSUME LocksInv, NEW t \in Threads, Inside(t)
      PROVE  processLock = t
  <2>1. CASE t = "main"
    BY <1>1, <2>1 DEF LocksInv, Places, MainHolds, Inside, At, ProcessBlock, MainAt
  <2>2. CASE t = "status"
    BY <1>1, <2>2 DEF LocksInv, Places, Inside, At, ProcessBlock, StatusAt
  <2>3. CASE t \in {"monitor", "rx"}
    BY <1>1, <2>3 DEF LocksInv, OthersHold, Inside, At, ProcessBlock
  <2>4. QED
    BY <2>1, <2>2, <2>3, ThreadNames
<1>2. LocksInv => BlocksExclusive
  BY <1>1 DEF BlocksExclusive
<1>3. QED
  BY <1>2, LocksInvAlways, PTL

-----------------------------------------------------------------------------
(* How far the disagreement that the run supervisor_stop shows goes: once  *)
(* a thread waits for itself nothing it or the others do undoes it.  This  *)
(* describes the code; it is not something the code should keep.           *)

(* A thread that holds the process lock and asks for it again, or a main   *)
(* thread whose signal handler is about to, never gets it and never gives  *)
(* it back: what waits for the lock then waits for ever.                   *)
WaitsForItself(t) ==
  /\ processLock = t
  /\ \/ pc[t] \in DOMAIN AfterLock
     \/ t = "main" /\ pc.main = "stop" /\ interrupted \in ProcessBlock

NeverReleased ==
  [][\A t \in Threads : WaitsForItself(t) =>
       /\ WaitsForItself(t)'
       /\ t # "main" => pc'[t] = pc[t]]_vars

(* What the other threads do while a thread holds the process lock. *)
LEMMA GoLeaves ==
  ASSUME LocksInv, NEW u \in Threads, NEW from, NEW to, Go(u, from, to)
  PROVE  pc[u] = from /\ \A t \in Threads : t # u => pc'[t] = pc[t]
  BY Moves DEF LocksInv

LEMMA AcquireBlocked ==
  ASSUME NEW u, processLock # "free", AcquireProcesses(u)
  PROVE  FALSE
  BY DEF AcquireProcesses

LEMMA StopLeaves ==
  ASSUME LocksInv, NEW t \in Threads, processLock = t,
         NEW u \in {"main", "monitor", "rx"}, u # t, Stop(u)
  PROVE  processLock' = t /\ pc'[t] = pc[t] /\ interrupted' = interrupted
<1>1. CASE StopEach(u)
  <2>1. \E to : Go(u, "stop_each", to)
    BY <1>1 DEF StopEach
  <2>2. pc[u] = "stop_each"
    BY <2>1, GoLeaves, ThreadNames
  <2>3. processLock = u
    BY <2>2 DEF LocksInv, MainHolds, OthersHold, ProcessBlock
  <2>4. QED
    BY <2>3
<1>2. CASE StopBegin(u) \/ StopHealth(u) \/ Close(u)
  <2>1. UNCHANGED <<interrupted, locks>> /\ \E from, to : Go(u, from, to)
    BY <1>2 DEF StopBegin, StopHealth, Close
  <2>2. pc'[t] = pc[t]
    BY <2>1, GoLeaves, ThreadNames
  <2>3. QED
    BY <2>1, <2>2 DEF locks
<1>3. QED
  BY <1>1, <1>2 DEF Stop

LEMMA SendLeaves ==
  ASSUME LocksInv, NEW t \in Threads, processLock = t,
         NEW u \in {"status", "rx"}, u # t, SendStatus(u)
  PROVE  processLock' = t /\ pc'[t] = pc[t] /\ interrupted' = interrupted
<1>1. UNCHANGED <<interrupted, processLock>> /\ \E from, to : Go(u, from, to)
  BY DEF SendStatus, AcquireMetrics, Report, Write, Lost, locks
<1>2. QED
  BY <1>1, GoLeaves, ThreadNames

LEMMA MainLeaves ==
  ASSUME LocksInv, NEW t \in Threads, processLock = t, t # "main", MainThread \/ Signal
  PROVE  processLock' = t /\ pc'[t] = pc[t]
<1>0. t # "free"
  BY ThreadNames
<1>1. CASE Popen \/ Terminate
  <2>1. \E from \in {"popen", "terminate"} : Go("main", from, "loop")
    BY <1>1 DEF Popen, Terminate
  <2>2. pc.main \in {"popen", "terminate"}
    BY <2>1, GoLeaves, ThreadNames
  <2>3. QED
    BY <2>2 DEF LocksInv, MainHolds
<1>2. CASE StopEnd \/ Started \/ Loop \/ Signal
  <2>1. UNCHANGED locks /\ \E from, to : Go("main", from, to)
    BY <1>2 DEF StopEnd, Started, Loop, Signal
  <2>2. pc'[t] = pc[t]
    BY <2>1, GoLeaves, ThreadNames
  <2>3. QED
    BY <2>1, <2>2 DEF locks
<1>3. QED
  BY <1>0, <1>1, <1>2, AcquireBlocked, StopLeaves DEF MainThread

LEMMA MonitorLeaves ==
  ASSUME LocksInv, NEW t \in Threads, processLock = t, t # "monitor", MonitorThread
  PROVE  processLock' = t /\ pc'[t] = pc[t] /\ interrupted' = interrupted
<1>0. t # "free"
  BY ThreadNames
<1>1. CASE Monitor \/ CheckThermal \/ Throttle
  <2>1. UNCHANGED <<interrupted, locks>> /\ \E from, to : Go("monitor", from, to)
    BY <1>1 DEF Monitor, CheckThermal, Throttle
  <2>2. pc'[t] = pc[t]
    BY <2>1, GoLeaves, ThreadNames
  <2>3. QED
    BY <2>1, <2>2 DEF locks
<1>2. ~CheckProcesses
  BY <1>0 DEF CheckProcesses
<1>3. QED
  BY <1>0, <1>1, <1>2, AcquireBlocked, StopLeaves DEF MonitorThread

LEMMA StatusLeaves ==
  ASSUME LocksInv, NEW t \in Threads, processLock = t, t # "status", StatusThread
  PROVE  processLock' = t /\ pc'[t] = pc[t] /\ interrupted' = interrupted
<1>0. t # "free"
  BY ThreadNames
<1>1. CASE Status
  <2>1. UNCHANGED <<interrupted, locks>> /\ \E from, to : Go("status", from, to)
    BY <1>1 DEF Status
  <2>2. pc'[t] = pc[t]
    BY <2>1, GoLeaves, ThreadNames
  <2>3. QED
    BY <2>1, <2>2 DEF locks
<1>2. QED
  BY <1>0, <1>1, AcquireBlocked, SendLeaves DEF StatusThread

LEMMA RxLeaves ==
  ASSUME LocksInv, NEW t \in Threads, processLock = t, t # "rx", RxThread
  PROVE  processLock' = t /\ pc'[t] = pc[t] /\ interrupted' = interrupted
<1>0. t # "free"
  BY ThreadNames
<1>1. CASE Listen \/ Reconnect \/ Command \/ SetPower \/ RxCheck
  <2>1. UNCHANGED <<interrupted, locks>> /\ \E from, to : Go("rx", from, to)
    BY <1>1 DEF Listen, Reconnect, Command, SetPower, RxCheck
  <2>2. pc'[t] = pc[t]
    BY <2>1, GoLeaves, ThreadNames
  <2>3. QED
    BY <2>1, <2>2 DEF locks
<1>2. ~RestartAll
  BY <1>0 DEF RestartAll
<1>3. QED
  BY <1>0, <1>1, <1>2, AcquireBlocked, StopLeaves, SendLeaves DEF RxThread

(* What such a thread itself can do: nothing, unless it is the main thread *)
(* and a signal comes. *)
LEMMA WaitingPlaces ==
  ASSUME LocksInv, NEW t \in Threads, WaitsForItself(t)
  PROVE  /\ t \in {"main", "monitor", "rx"}
         /\ t # "main" => pc[t] \in {"stop_process", "restart"}
         /\ t = "main" => \/ pc.main = "stop_process"
                          \/ pc.main \in {"stop", "stop_all"} /\ interrupted \in ProcessBlock
<1>1. processLock = t /\ t \in {"main", "monitor", "rx"}
  BY ThreadNames DEF WaitsForItself, LocksInv, OthersHold
<1>2. CASE t = "main"
  <2>1. pc.main \in {"start_process", "stop_process", "stop_all", "restart", "stop"}
    BY <1>2, ThreadNames DEF WaitsForItself
  <2>2. pc.main # "restart"
    BY DEF LocksInv, Places, MainAt
  <2>3. \/ pc.main \in ProcessBlock
        \/ interrupted \in ProcessBlock /\ pc.main \in {"stop", "stop_all"}
    BY <1>1, <1>2 DEF LocksInv, MainHolds
  <2>4. QED
    BY <1>2, <2>1, <2>2, <2>3 DEF ProcessBlock
<1>3. CASE t # "main"
  <2>1. pc[t] \in {"start_process", "stop_process", "stop_all", "restart"}
    BY <1>3, ThreadNames DEF WaitsForItself
  <2>2. pc[t] \in ProcessBlock
    BY <1>1, <1>3 DEF LocksInv, OthersHold
  <2>3. QED
    BY <1>1, <1>3, <2>1, <2>2 DEF ProcessBlock
<1>4. QED
  BY <1>1, <1>2, <1>3

LEMMA OthersStand ==
  ASSUME LocksInv, NEW t \in {"monitor", "rx"}, WaitsForItself(t)
  PROVE  (t = "monitor" => ~MonitorThread) /\ (t = "rx" => ~RxThread)
<1>1. /\ pc[t] \in {"stop_process", "restart"} /\ processLock # "free"
  BY WaitingPlaces, ThreadNames DEF WaitsForItself
<1>2. \A from, to : Go(t, from, to) => from \in {"stop_process", "restart"}
  BY <1>1 DEF Go
<1>3. ~AcquireProcesses(t) /\ ~Stop(t) /\ ~SendStatus(t)
  BY <1>1, <1>2
     DEF AcquireProcesses, Stop, StopBegin, StopEach, StopHealth, Close, SendStatus,
         AcquireMetrics, Report, Write, Lost
<1>4. t = "monitor" => ~(Monitor \/ CheckThermal \/ Throttle \/ CheckProcesses)
  BY <1>1, <1>2 DEF Monitor, CheckThermal, Throttle, CheckProcesses
<1>5. t = "rx" => ~(Listen \/ Reconnect \/ Command \/ SetPower \/ RestartAll \/ RxCheck)
  <2>1. Listen \/ Reconnect \/ Command \/ SetPower \/ RestartAll \/ RxCheck =>
          \E from \in {"rx", "rx_connect", "rx_throttle", "rx_run", "restart_all", "rx_check"} :
            \E to : Go("rx", from, to)
    BY DEF Listen, Reconnect, Command, SetPower, RestartAll, RxCheck
  <2>2. QED
    BY <1>2, <2>1
<1>6. QED
  BY <1>3, <1>4, <1>5 DEF MonitorThread, RxThread

LEMMA MainWaits ==
  ASSUME LocksInv, WaitsForItself("main"), MainThread \/ Signal
  PROVE  WaitsForItself("main")'
<1>1. /\ processLock = "main"
      /\ \/ pc.main = "stop_process"
         \/ pc.main \in {"stop", "stop_all"} /\ interrupted \in ProcessBlock
  BY WaitingPlaces, ThreadNames DEF WaitsForItself
<1>2. \A from, to : Go("main", from, to) => pc.main = from /\ pc'.main = to
  BY GoLeaves, Moves, ThreadNames DEF LocksInv
<1>3. CASE Signal
  <2>1. /\ interrupted = "none" /\ interrupted' = pc.main /\ processLock' = processLock
        /\ Go("main", pc.main, "stop")
    BY <1>3 DEF Signal, locks
  <2>2. interrupted \notin ProcessBlock /\ pc'.main = "stop"
    BY <1>2, <2>1 DEF ProcessBlock
  <2>3. QED
    BY <1>1, <2>1, <2>2 DEF WaitsForItself, ProcessBlock
<1>4. CASE StopBegin("main")
  <2>1. Go("main", "stop", "stop_all") /\ processLock' = processLock
    BY <1>4 DEF StopBegin, locks
  <2>2. pc'.main = "stop_all"
    BY <1>2, <2>1
  <2>3. QED
    BY <1>1, <2>1, <2>2, ThreadNames DEF WaitsForItself
<1>5. ~AcquireProcesses("main")
  BY <1>1 DEF AcquireProcesses
<1>6. ~(StopEach("main") \/ StopHealth("main") \/ Close("main"))
  BY <1>1, <1>2 DEF StopEach, StopHealth, Close
<1>7. ~(StopEnd \/ Started \/ Popen \/ Terminate \/ Loop)
  BY <1>1, <1>2 DEF StopEnd, Started, Popen, Terminate, Loop
<1>8. QED
  BY <1>3, <1>4, <1>5, <1>6, <1>7 DEF MainThread, Stop

(***************************************************************************)
(* Why StopStopsChild fails: a thread that holds _process_lock and asks    *)
(* for it again stays where it is and keeps the lock.  So the first        *)
(* shutdown or restart with a managed process is the last thing the        *)
(* supervisor does with it, however the threads are scheduled:             *)
(* start_process and stop_process need the lock.                           *)
(***************************************************************************)
THEOREM NeverReleasedHolds == Spec => NeverReleased
<1>1. ASSUME LocksInv, LocksInv', [Next]_vars, NEW t \in Threads, WaitsForItself(t)
      PROVE  WaitsForItself(t)' /\ (t # "main" => pc'[t] = pc[t])
  <2>1. processLock = t
    BY <1>1 DEF WaitsForItself
  <2>2. ASSUME processLock' = t, pc'[t] = pc[t], interrupted' = interrupted \/ t # "main"
        PROVE  WaitsForItself(t)' /\ (t # "main" => pc'[t] = pc[t])
    BY <1>1, <2>2 DEF WaitsForItself
  <2>3. CASE MainThread \/ Signal
    <3>1. CASE t = "main"
      BY <1>1, <2>3, <3>1, MainWaits
    <3>2. CASE t # "main"
      BY <1>1, <2>1, <2>2, <2>3, <3>2, MainLeaves
    <3>3. QED
      BY <3>1, <3>2
  <2>4. CASE MonitorThread
    <3>1. t # "monitor"
      BY <1>1, <2>4, OthersStand
    <3>2. QED
      BY <1>1, <2>1, <2>2, <2>4, <3>1, MonitorLeaves
  <2>5. CASE StatusThread
    <3>1. t # "status"
      BY <1>1, WaitingPlaces
    <3>2. QED
      BY <1>1, <2>1, <2>2, <2>5, <3>1, StatusLeaves
  <2>6. CASE RxThread
    <3>1. t # "rx"
      BY <1>1, <2>6, OthersStand
    <3>2. QED
      BY <1>1, <2>1, <2>2, <2>6, <3>1, RxLeaves
  <2>7. CASE Expire \/ ChildExits \/ UNCHANGED vars
    <3>1. UNCHANGED <<pc, interrupted, locks>>
      BY <2>7 DEF Expire, ChildExits, vars
    <3>2. processLock' = t /\ pc'[t] = pc[t] /\ interrupted' = interrupted
      BY <2>1, <3>1 DEF locks
    <3>3. QED
      BY <2>2, <3>2
  <2>8. QED
    BY <1>1, <2>3, <2>4, <2>5, <2>6, <2>7 DEF Next
<1>2. LocksInv /\ LocksInv' /\ [Next]_vars =>
        [\A t \in Threads : WaitsForItself(t) =>
           /\ WaitsForItself(t)'
           /\ t # "main" => pc'[t] = pc[t]]_vars
  BY <1>1
<1>3. QED
  BY <1>2, LocksInvAlways, PTL DEF Spec, NeverReleased
=============================================================================
