--------------------------- MODULE SleepHandshake ---------------------------
(* How four threads agree on when USB storage may be touched: the flag      *)
(* monitor (sm_shellcore_flags.c) enters and leaves sleep mode, the scanner  *)
(* (sm_scanner.c) closes its USB watches, the game lifecycle watcher         *)
(* (sm_game_lifecycle.c) then releases USB sources, and a storage job        *)
(* (sm_api_service.c) asks the scanner to let go of a drive it ejects.       *)
(* They share atomics and wake each other through two pipes.                 *)
EXTENDS Naturals

CONSTANTS
    MaxSleeps,      \* bound: how often the console enters sleep
    MaxEjects       \* bound: how many eject jobs run

ASSUME BoundsAssumption == MaxSleeps \in Nat /\ MaxEjects \in Nat

VARIABLES
    sleeping,       \* g_runtime_sleep_mode_active
    stop,           \* should_stop_requested()
    suspended,      \* g_usb_watches_suspended
    eject,          \* g_usb_eject_pause
    watches,        \* the scanner holds USB directory descriptors open
    cycle,          \* holder of g_scanner_cycle_mutex
    pipe,           \* the wake pipes of the scanner and of the watcher
    sleeps,         \* sleeps entered so far
    monitor,        \* where the flag monitor is
    scanner,        \* [pc, was_sleeping, reload] of the main thread; reload
                    \* is g_scanner_config_reload_pending
    watcher,        \* [pc, sleep_cleanup_done, stop] of the watcher
    job             \* [pc, count, epoch] of the eject job

vars == <<sleeping, stop, suspended, eject, watches, cycle, pipe, sleeps,
          monitor, scanner, watcher, job>>

power == <<sleeping, stop, sleeps>>
usb == <<suspended, eject, watches>>

EjectPause == {"idle", "requested", "paused", "resuming"}

(* A pipe is "empty"; "ready" when it holds bytes kevent has not reported    *)
(* (EV_CLEAR); "stale" when kevent reported them but nobody read them.       *)
PipeState == {"empty", "ready", "stale"}

ScannerSteps ==
    {"top", "ejFlag", "ejAck", "ejTest", "ejSelect", "ejLeave", "ejClear",
     "ejIdle", "sleep", "slFlag", "slWake", "slSelect", "rsFlag", "work",
     "lock", "scan", "rebuild", "aborted", "wait",
     "done", "stopMonitor", "stopWatcher", "joinWatcher", "ended"}

(* The steps that follow sm_scanner_run_loop: main is taking the daemon down *)
ShutdownSteps ==
    {"done", "stopMonitor", "stopWatcher", "joinWatcher", "ended"}

WatcherSteps ==
    {"top", "check", "cleanup", "cleanWait", "sweep", "select", "drain", "recheck",
     "wait", "ended"}

JobSteps ==
    {"idle", "request", "wake", "await", "unmount", "resume", "rewake"}

HandshakeInit ==
    /\ sleeping = FALSE
    /\ stop = FALSE
    /\ suspended = FALSE
    /\ eject = "idle"
    /\ watches = TRUE
    /\ cycle = "nobody"
    /\ pipe = [t \in {"scanner", "watcher"} |-> "empty"]
    /\ sleeps = 0
    /\ monitor = "poll"
    /\ scanner = [pc |-> "top", was_sleeping |-> FALSE, reload |-> FALSE]
    /\ watcher = [pc |-> "top", sleep_cleanup_done |-> FALSE, stop |-> FALSE]
    /\ job = [pc |-> "idle", count |-> 0, epoch |-> 0]

-----------------------------------------------------------------------------
(* The wake pipes.                                                           *)

\* sm_scanner_wake and wake_game_lifecycle_watcher write one byte.
Wake(t) == pipe' = [pipe EXCEPT ![t] = "ready"]

\* select returns as soon as there are bytes, and the caller drains them.
SelectAndDrain(t) ==
    /\ pipe[t] # "empty"
    /\ pipe' = [pipe EXCEPT ![t] = "empty"]

\* kevent returns the pipe only for bytes it has not reported before.
KeventAndDrain(t) ==
    /\ pipe[t] = "ready"
    /\ pipe' = [pipe EXCEPT ![t] = "empty"]

\* A kevent sweep with a zero timeout that drains what it was told of.
DrainReported(t) ==
    pipe' = IF pipe[t] = "ready" THEN [pipe EXCEPT ![t] = "empty"] ELSE pipe

\* The watcher's sweep consumes the report and leaves the bytes.
DiscardReport(t) ==
    pipe' = IF pipe[t] = "ready" THEN [pipe EXCEPT ![t] = "stale"] ELSE pipe

-----------------------------------------------------------------------------
(* The flag monitor: request_runtime_sleep_mode sets the flag, then wakes    *)
(* the scanner, then the watcher; request_shutdown_stop does the same.       *)

EnterSleep ==
    /\ monitor = "poll"
    /\ ~sleeping
    /\ sleeps < MaxSleeps
    /\ sleeping' = TRUE
    /\ sleeps' = sleeps + 1
    /\ monitor' = "wakeScanner"
    /\ UNCHANGED <<stop, usb, cycle, pipe, scanner, watcher, job>>

LeaveSleep ==
    /\ monitor = "poll"
    /\ sleeping
    /\ sleeping' = FALSE
    /\ monitor' = "wakeScanner"
    /\ UNCHANGED <<stop, usb, cycle, pipe, sleeps, scanner, watcher, job>>

RequestStop ==
    /\ monitor = "poll" /\ ~stop
    /\ stop' = TRUE
    /\ monitor' = "wakeScanner"
    /\ UNCHANGED <<sleeping, usb, cycle, pipe, sleeps, scanner, watcher,
                   job>>

MonitorWakesScanner ==
    /\ monitor = "wakeScanner"
    /\ Wake("scanner")
    /\ monitor' = "wakeWatcher"
    /\ UNCHANGED <<power, usb, cycle, scanner, watcher, job>>

MonitorWakesWatcher ==
    /\ monitor = "wakeWatcher"
    /\ Wake("watcher")
    /\ monitor' = "poll"
    /\ UNCHANGED <<power, usb, cycle, scanner, watcher, job>>

\* publish_app_focus wakes the watcher; the pass over the flags that enters
\* sleep may still report one.
AppFocusChanges ==
    /\ monitor = "poll"
    /\ Wake("watcher")
    /\ UNCHANGED <<power, usb, cycle, monitor, scanner, watcher, job>>

\* The monitor's loop ends on a stop request, or when main asks it to.
MonitorEnds ==
    /\ monitor = "poll"
    /\ stop \/ scanner.pc = "stopMonitor"
    /\ monitor' = "ended"
    /\ UNCHANGED <<power, usb, cycle, pipe, scanner, watcher, job>>

\* on_signal: a termination signal wakes the scanner only.
Signal ==
    /\ ~stop
    /\ stop' = TRUE
    /\ Wake("scanner")
    /\ UNCHANGED <<sleeping, usb, cycle, sleeps, monitor, scanner, watcher,
                   job>>

\* should_stop_requested finds the kill file, in whichever thread asks.
KillFile ==
    /\ ~stop
    /\ stop' = TRUE
    /\ pipe' = [t \in {"scanner", "watcher"} |-> "ready"]
    /\ UNCHANGED <<sleeping, usb, cycle, sleeps, monitor, scanner, watcher,
                   job>>

-----------------------------------------------------------------------------
(* The scanner, sm_scanner_run_loop.                                         *)

Goto(step) == scanner' = [scanner EXCEPT !.pc = step]

OthersOfScanner == UNCHANGED <<power, monitor, watcher, job>>

\* The head of the loop and the head of handle_usb_eject_pause, which closes
\* the USB watches when a job asks for it.
ScanTop ==
    /\ scanner.pc = "top"
    /\ \/ /\ stop
          /\ watches' = FALSE
          /\ Goto("done")
          /\ UNCHANGED eject
       \/ /\ ~stop
          /\ eject \in {"idle", "resuming"}
          /\ eject' = "idle"
          /\ Goto("sleep")
          /\ UNCHANGED watches
       \/ /\ ~stop
          /\ eject \in {"requested", "paused"}
          /\ watches' = FALSE
          /\ Goto("ejFlag")
          /\ UNCHANGED eject
    /\ UNCHANGED <<suspended, cycle, pipe>>
    /\ OthersOfScanner

EjectFlag ==
    /\ scanner.pc = "ejFlag"
    /\ suspended' = TRUE
    /\ Goto("ejAck")
    /\ UNCHANGED <<eject, watches, cycle, pipe>>
    /\ OthersOfScanner

\* The compare-and-exchange that acknowledges the request.
EjectAck ==
    /\ scanner.pc = "ejAck"
    /\ eject' = IF eject = "requested" THEN "paused" ELSE eject
    /\ Goto("ejTest")
    /\ UNCHANGED <<suspended, watches, cycle, pipe>>
    /\ OthersOfScanner

\* Mutant of EjectSelect: any wake ends the pause.
EjectSelectOnce ==
    /\ scanner.pc = "ejSelect"
    /\ SelectAndDrain("scanner")
    /\ Goto("ejLeave")
    /\ UNCHANGED <<usb, cycle>>
    /\ OthersOfScanner

EjectTest ==
    /\ scanner.pc = "ejTest"
    /\ Goto(IF eject = "paused" /\ ~stop /\ ~sleeping THEN "ejSelect"
                                                      ELSE "ejLeave")
    /\ UNCHANGED <<usb, cycle, pipe>>
    /\ OthersOfScanner

EjectSelect ==
    /\ scanner.pc = "ejSelect"
    /\ SelectAndDrain("scanner")
    /\ Goto("ejTest")
    /\ UNCHANGED <<usb, cycle>>
    /\ OthersOfScanner

\* The flags are read again: only an awake scanner reopens its watches.
EjectLeave ==
    /\ scanner.pc = "ejLeave"
    /\ \/ /\ ~stop /\ ~sleeping
          /\ watches' = TRUE
          /\ Goto("ejClear")
       \/ /\ stop \/ sleeping
          /\ Goto("ejIdle")
          /\ UNCHANGED watches
    /\ UNCHANGED <<suspended, eject, cycle, pipe>>
    /\ OthersOfScanner

EjectClear ==
    /\ scanner.pc = "ejClear"
    /\ suspended' = FALSE
    /\ Goto("ejIdle")
    /\ UNCHANGED <<eject, watches, cycle, pipe>>
    /\ OthersOfScanner

EjectIdle ==
    /\ scanner.pc = "ejIdle"
    /\ eject' = "idle"
    /\ Goto("sleep")
    /\ UNCHANGED <<suspended, watches, cycle, pipe>>
    /\ OthersOfScanner

\* Mutant of ScanSleep: no reload is scheduled after a sleep, so that the next
\* wait has no deadline.
ScanSleepNoReload ==
    /\ scanner.pc = "sleep"
    /\ \/ /\ sleeping /\ ~scanner.was_sleeping
          /\ watches' = FALSE
          /\ Goto("slFlag")
          /\ UNCHANGED pipe
       \/ /\ sleeping /\ scanner.was_sleeping
          /\ Goto("slSelect")
          /\ UNCHANGED <<watches, pipe>>
       \/ /\ ~sleeping /\ scanner.was_sleeping
          /\ DrainReported("scanner")
          /\ watches' = TRUE
          /\ Goto("rsFlag")
       \/ /\ ~sleeping /\ ~scanner.was_sleeping
          /\ Goto("work")
          /\ UNCHANGED <<watches, pipe>>
    /\ UNCHANGED <<suspended, eject, cycle>>
    /\ OthersOfScanner

\* Asleep: close the watches once, then wait. Awake again: discard what was
\* queued, schedule a reload, reopen the watches. Otherwise: go on to the work of the loop.
ScanSleep ==
    /\ scanner.pc = "sleep"
    /\ \/ /\ sleeping /\ ~scanner.was_sleeping
          /\ watches' = FALSE
          /\ Goto("slFlag")
          /\ UNCHANGED pipe
       \/ /\ sleeping /\ scanner.was_sleeping
          /\ Goto("slSelect")
          /\ UNCHANGED <<watches, pipe>>
       \/ /\ ~sleeping /\ scanner.was_sleeping
          /\ DrainReported("scanner")
          /\ watches' = TRUE
          /\ scanner' = [scanner EXCEPT !.pc = "rsFlag", !.reload = TRUE]
       \/ /\ ~sleeping /\ ~scanner.was_sleeping
          /\ Goto("work")
          /\ UNCHANGED <<watches, pipe>>
    /\ UNCHANGED <<suspended, eject, cycle>>
    /\ OthersOfScanner

SleepFlag ==
    /\ scanner.pc = "slFlag"
    /\ suspended' = TRUE
    /\ Goto("slWake")
    /\ UNCHANGED <<eject, watches, cycle, pipe>>
    /\ OthersOfScanner

\* Mutant of SleepWake: the watcher is not told that the watches are closed.
SleepNoWake ==
    /\ scanner.pc = "slWake"
    /\ scanner' = [scanner EXCEPT !.pc = "slSelect", !.was_sleeping = TRUE]
    /\ UNCHANGED <<usb, cycle, pipe>>
    /\ OthersOfScanner

SleepWake ==
    /\ scanner.pc = "slWake"
    /\ Wake("watcher")
    /\ scanner' = [scanner EXCEPT !.pc = "slSelect", !.was_sleeping = TRUE]
    /\ UNCHANGED <<usb, cycle>>
    /\ OthersOfScanner

SleepSelect ==
    /\ scanner.pc = "slSelect"
    /\ SelectAndDrain("scanner")
    /\ Goto("top")
    /\ UNCHANGED <<usb, cycle>>
    /\ OthersOfScanner

ResumeFlag ==
    /\ scanner.pc = "rsFlag"
    /\ suspended' = FALSE
    /\ scanner' = [scanner EXCEPT !.pc = "work", !.was_sleeping = FALSE]
    /\ UNCHANGED <<eject, watches, cycle, pipe>>
    /\ OthersOfScanner

\* One branch of the loop's body: work under the cycle mutex, a due reload or
\* probe (which may rebuild the watches), or the wait for events.
ScanWork ==
    /\ scanner.pc = "work"
    /\ \/ Goto("lock") /\ UNCHANGED watches
       \/ Goto("wait") /\ UNCHANGED watches
       \/ /\ watches' \in {watches, TRUE}
          /\ scanner' = [scanner EXCEPT !.pc = "top", !.reload = FALSE]
    /\ UNCHANGED <<suspended, eject, cycle, pipe>>
    /\ OthersOfScanner

ScanLock ==
    /\ scanner.pc = "lock"
    /\ cycle = "nobody"
    /\ cycle' = "scanner"
    /\ Goto("scan")
    /\ UNCHANGED <<usb, pipe>>
    /\ OthersOfScanner

\* run_full_scan_cycle and run_targeted_scan_cycle report an incomplete cycle
\* only if a stop or a sleep is on when they decide.
ScanEnd ==
    /\ scanner.pc = "scan"
    /\ cycle' = "nobody"
    /\ \/ Goto("rebuild")
       \/ /\ stop \/ sleeping
          /\ Goto("aborted")
    /\ UNCHANGED <<usb, pipe>>
    /\ OthersOfScanner

\* A complete cycle refreshes the watches it must and drains the events.
ScanRebuild ==
    /\ scanner.pc = "rebuild"
    /\ watches' \in {watches, TRUE}
    /\ DrainReported("scanner")
    /\ Goto("top")
    /\ UNCHANGED <<suspended, eject, cycle>>
    /\ OthersOfScanner

\* After an incomplete cycle the loop looks at the sleep flag once more; it
\* goes on if the sleep lasts and leaves the loop if not.
ScanAborted ==
    /\ scanner.pc = "aborted"
    /\ \/ /\ sleeping
          /\ Goto("top")
          /\ UNCHANGED watches
       \/ /\ ~sleeping
          /\ watches' = FALSE
          /\ Goto("done")
    /\ UNCHANGED <<suspended, eject, cycle, pipe>>
    /\ OthersOfScanner

ScanWait ==
    /\ scanner.pc = "wait"
    /\ KeventAndDrain("scanner")
    /\ Goto("top")
    /\ UNCHANGED <<usb, cycle>>
    /\ OthersOfScanner

\* A scheduled reload puts a deadline on the wait.
ScanDeadline ==
    /\ scanner.pc = "wait"
    /\ scanner.reload
    /\ Goto("top")
    /\ UNCHANGED <<usb, cycle, pipe>>
    /\ OthersOfScanner

\* Other deadlines and file events, which need not come.
ScanOtherEvent ==
    /\ scanner.pc = "wait"
    /\ Goto("top")
    /\ UNCHANGED <<usb, cycle, pipe>>
    /\ OthersOfScanner

\* request_scanner_shutdown: a watch or a wait failed.
ScanFails ==
    /\ \/ scanner.pc = "top" /\ ~stop /\ eject \in {"requested", "paused"}
       \/ scanner.pc = "ejLeave" /\ ~stop /\ ~sleeping
       \/ scanner.pc = "sleep" /\ sleeping # scanner.was_sleeping
       \/ scanner.pc \in {"ejSelect", "slSelect", "work", "rebuild", "wait"}
    /\ watches' = FALSE
    /\ stop' = TRUE
    /\ pipe' = [t \in {"scanner", "watcher"} |-> "ready"]
    /\ Goto("done")
    /\ UNCHANGED <<sleeping, sleeps, suspended, eject, cycle, monitor,
                   watcher, job>>

\* main after the loop: sm_api_service_stop waits for the job,
MainStopsJobs ==
    /\ scanner.pc = "done"
    /\ job.pc = "idle"
    /\ Goto("stopMonitor")
    /\ UNCHANGED <<usb, cycle, pipe>>
    /\ OthersOfScanner

\* sm_shellcore_flags_stop joins the monitor,
MainJoinsMonitor ==
    /\ scanner.pc = "stopMonitor"
    /\ monitor = "ended"
    /\ Goto("stopWatcher")
    /\ UNCHANGED <<usb, cycle, pipe>>
    /\ OthersOfScanner

\* stop_game_lifecycle_watcher sets its flag, wakes the watcher
MainStopsWatcher ==
    /\ scanner.pc = "stopWatcher"
    /\ watcher' = [watcher EXCEPT !.stop = TRUE]
    /\ Wake("watcher")
    /\ Goto("joinWatcher")
    /\ UNCHANGED <<power, usb, cycle, monitor, job>>

\* and joins it; sm_scanner_shutdown follows.
MainEnds ==
    /\ scanner.pc = "joinWatcher"
    /\ watcher.pc = "ended"
    /\ eject' = "idle"
    /\ suspended' = TRUE
    /\ Goto("ended")
    /\ UNCHANGED <<watches, cycle, pipe>>
    /\ OthersOfScanner

-----------------------------------------------------------------------------
(* The game lifecycle watcher, game_lifecycle_watcher_main.                  *)

WatchGoto(step) == watcher' = [watcher EXCEPT !.pc = step]

OthersOfWatcher == UNCHANGED <<power, usb, cycle, monitor, scanner, job>>

WatchTop ==
    /\ watcher.pc = "top"
    /\ WatchGoto(CASE watcher.stop \/ stop -> "ended"
                   [] sleeping /\ ~watcher.stop /\ ~stop -> "check"
                   [] OTHER -> IF watcher.sleep_cleanup_done THEN "drain"
                                                             ELSE "wait")
    /\ UNCHANGED pipe
    /\ OthersOfWatcher

\* Cleanup runs once per sleep, after the scanner has let go of USB.
WatchCheck ==
    /\ watcher.pc = "check"
    /\ WatchGoto(IF ~watcher.sleep_cleanup_done /\ suspended
                 THEN "cleanup" ELSE "select")
    /\ UNCHANGED pipe
    /\ OthersOfWatcher

\* terminate_game_for_sleep and wait_for_shellcore_exit_cleanup_for_sleep look
\* for a stop, then wait for a process event; they end with the exit they wait
\* for, at their deadline, or on a stop.
CleanupTest ==
    /\ watcher.pc = "cleanup"
    /\ WatchGoto(IF watcher.stop \/ stop THEN "sweep" ELSE "cleanWait")
    /\ UNCHANGED pipe
    /\ OthersOfWatcher

CleanupEnds ==
    /\ watcher.pc = "cleanWait"
    /\ WatchGoto("sweep")
    /\ UNCHANGED pipe
    /\ OthersOfWatcher

\* A wake byte that comes meanwhile is drained and the loop goes on.
CleanupDrainsWake ==
    /\ watcher.pc = "cleanWait"
    /\ KeventAndDrain("watcher")
    /\ WatchGoto("cleanup")
    /\ OthersOfWatcher

\* The aliases and, if all went well, the USB sources are released; cleanup
\* counts as done for this sleep either way.
CleanupSweep ==
    /\ watcher.pc = "sweep"
    /\ watcher' = [watcher EXCEPT !.pc = "select",
                                  !.sleep_cleanup_done = TRUE]
    /\ UNCHANGED pipe
    /\ OthersOfWatcher

WatchSelect ==
    /\ watcher.pc = "select"
    /\ SelectAndDrain("watcher")
    /\ WatchGoto("top")
    /\ OthersOfWatcher

\* drain_game_lifecycle_events_nowait at the first awake turn.
WatchDrain ==
    /\ watcher.pc = "drain"
    /\ DiscardReport("watcher")
    /\ watcher' = [watcher EXCEPT !.pc = "recheck",
                                  !.sleep_cleanup_done = FALSE]
    /\ OthersOfWatcher

WatchRecheck ==
    /\ watcher.pc = "recheck"
    /\ WatchGoto(IF sleeping THEN "top" ELSE "wait")
    /\ UNCHANGED pipe
    /\ OthersOfWatcher

WatchWait ==
    /\ watcher.pc = "wait"
    /\ KeventAndDrain("watcher")
    /\ WatchGoto("top")
    /\ OthersOfWatcher

\* Process events and poll deadlines, which need not come.
WatchOtherEvent ==
    /\ watcher.pc = "wait"
    /\ WatchGoto("top")
    /\ UNCHANGED pipe
    /\ OthersOfWatcher

\* A failed wait or sweep ends the watcher for good.
WatchFails ==
    /\ watcher.pc \in {"select", "drain", "wait"}
    /\ WatchGoto("ended")
    /\ UNCHANGED pipe
    /\ OthersOfWatcher

-----------------------------------------------------------------------------
(* The eject job, run_usb_eject_job and sm_scanner_suspend_usb_for_eject.    *)

JobGoto(step) == job' = [job EXCEPT !.pc = step]

OthersOfJob == UNCHANGED <<power, suspended, watches, monitor, scanner, watcher>>

\* A job that cannot take the cycle mutex at once fails without a trace.
JobStarts ==
    /\ job.pc = "idle"
    /\ job.count < MaxEjects
    /\ scanner.pc \notin ShutdownSteps \ {"done"}
    /\ cycle = "nobody"
    /\ cycle' = "job"
    /\ job' = [job EXCEPT !.pc = "request", !.count = @ + 1]
    /\ UNCHANGED <<eject, pipe>>
    /\ OthersOfJob

\* The drive is busy, the job cancelled, or the pause refused or unavailable.
JobRefused ==
    /\ job.pc = "request"
    /\ cycle' = "nobody"
    /\ JobGoto("idle")
    /\ UNCHANGED <<eject, pipe>>
    /\ OthersOfJob

JobRequests ==
    /\ job.pc = "request"
    /\ ~stop /\ ~sleeping
    /\ eject = "idle"
    /\ eject' = "requested"
    /\ job' = [job EXCEPT !.pc = "wake", !.epoch = sleeps]
    /\ UNCHANGED <<cycle, pipe>>
    /\ OthersOfJob

JobWakes ==
    /\ job.pc = "wake"
    /\ Wake("scanner")
    /\ JobGoto("await")
    /\ UNCHANGED <<eject, cycle>>
    /\ OthersOfJob

\* Mutant of JobAwaits: the job waits for the acknowledgement without a limit.
JobAwaitsForever ==
    /\ job.pc = "await"
    /\ \/ /\ eject = "paused"
          /\ ~stop /\ ~sleeping
          /\ JobGoto("unmount")
       \/ /\ stop \/ sleeping
          /\ JobGoto("resume")
    /\ UNCHANGED <<eject, cycle, pipe>>
    /\ OthersOfJob

\* Up to 200 looks at the pause, 10 ms apart; it gives up on a stop, on a
\* sleep, and after the last look.
JobAwaits ==
    /\ job.pc = "await"
    /\ \/ /\ eject = "paused"
          /\ ~stop /\ ~sleeping
          /\ JobGoto("unmount")
       \/ job' = [job EXCEPT !.pc = "resume", !.epoch = 0]
    /\ UNCHANGED <<eject, cycle, pipe>>
    /\ OthersOfJob

\* The checks after the handshake and sm_usb_request_eject.
JobUnmounts ==
    /\ job.pc = "unmount"
    /\ job' = [job EXCEPT !.pc = "resume", !.epoch = 0]
    /\ UNCHANGED <<eject, cycle, pipe>>
    /\ OthersOfJob

\* sm_scanner_resume_usb_after_eject stores, then wakes.
JobResumes ==
    /\ job.pc = "resume"
    /\ eject' = "resuming"
    /\ JobGoto("rewake")
    /\ UNCHANGED <<cycle, pipe>>
    /\ OthersOfJob

\* The wake, and the job gives the mutex back.
JobRewakes ==
    /\ job.pc = "rewake"
    /\ Wake("scanner")
    /\ cycle' = "nobody"
    /\ JobGoto("idle")
    /\ UNCHANGED eject
    /\ OthersOfJob

-----------------------------------------------------------------------------
MonitorDelivers == MonitorWakesScanner \/ MonitorWakesWatcher \/ MonitorEnds

ScannerStep ==
    \/ ScanTop \/ EjectFlag \/ EjectAck \/ EjectTest \/ EjectSelect
    \/ EjectLeave \/ EjectClear \/ EjectIdle
    \/ ScanSleep \/ SleepFlag \/ SleepWake \/ SleepSelect \/ ResumeFlag
    \/ ScanWork \/ ScanLock \/ ScanEnd \/ ScanRebuild \/ ScanAborted
    \/ ScanWait \/ ScanDeadline
    \/ MainStopsJobs \/ MainJoinsMonitor \/ MainStopsWatcher \/ MainEnds

WatcherStep ==
    \/ WatchTop \/ WatchCheck \/ CleanupTest \/ CleanupEnds
    \/ CleanupSweep \/ WatchSelect \/ WatchDrain \/ WatchRecheck \/ WatchWait

JobStep ==
    \/ JobRefused \/ JobRequests \/ JobWakes \/ JobAwaits \/ JobUnmounts
    \/ JobResumes \/ JobRewakes

\* The daemon has ended; nothing moves.
Terminated == scanner.pc = "ended" /\ UNCHANGED vars

HandshakeNext ==
    \/ EnterSleep \/ LeaveSleep \/ RequestStop \/ AppFocusChanges
    \/ MonitorDelivers \/ Signal \/ KillFile
    \/ ScannerStep \/ ScanOtherEvent \/ ScanFails
    \/ WatcherStep \/ CleanupDrainsWake \/ WatchOtherEvent \/ WatchFails
    \/ JobStarts \/ JobStep
    \/ Terminated

HandshakeSpec == HandshakeInit /\ [][HandshakeNext]_vars

\* Each thread is scheduled while it can run, and the waits of the cleanup end
\* at their deadline however often they are woken. Nothing obliges an event, a
\* failure, a sleep, a job or a stop to come.
HandshakeFairSpec ==
    /\ HandshakeSpec
    /\ WF_vars(MonitorDelivers)
    /\ WF_vars(ScannerStep)
    /\ WF_vars(WatcherStep)
    /\ WF_vars(JobStep)
    /\ SF_vars(CleanupEnds)

-----------------------------------------------------------------------------
(* Properties.                                                               *)

ShuttingDown == stop \/ scanner.pc \in ShutdownSteps

\* Types, and the cycle mutex is held by exactly the thread inside it: the
\* scanner during a cycle, the job from its trylock to its unlock
\* (g_scanner_cycle_mutex).
HandshakeTypeOK ==
    /\ sleeping \in BOOLEAN /\ stop \in BOOLEAN
    /\ suspended \in BOOLEAN /\ watches \in BOOLEAN
    /\ eject \in EjectPause
    /\ cycle = IF scanner.pc = "scan" THEN "scanner"
               ELSE IF job.pc # "idle" THEN "job" ELSE "nobody"
    /\ pipe \in [{"scanner", "watcher"} -> PipeState]
    /\ sleeps \in 0..MaxSleeps
    /\ monitor \in {"poll", "wakeScanner", "wakeWatcher", "ended"}
    /\ scanner \in [pc : ScannerSteps, was_sleeping : BOOLEAN,
                    reload : BOOLEAN]
    /\ watcher \in [pc : WatcherSteps, sleep_cleanup_done : BOOLEAN,
                    stop : BOOLEAN]
    /\ job \in [pc : JobSteps, count : 0..MaxEjects, epoch : 0..MaxSleeps]

\* While the job ejects the drive the scanner holds no USB descriptor, as long
\* as no stop is on and no sleep began since the job asked (sm_scanner_suspend_usb_for_eject:
\* the acknowledgement comes after the watches are closed and they stay closed
\* until the job resumes the scanner).
EjectOnClosedWatches ==
    job.pc = "unmount" /\ job.epoch = sleeps /\ ~stop => ~watches /\ suspended

\* The daemon leaves the scanner loop only after a stop request
\* (sm_scanner_run_loop).
LoopRunsUntilStop == scanner.pc \in ShutdownSteps => stop

\* An eject job always ends, whatever the scanner is doing, although it holds
\* the cycle mutex while it waits for the scanner; and the pause is taken back,
\* so that another drive can be ejected later, unless a sleep or the shutdown
\* comes first (sm_scanner_suspend_usb_for_eject, handle_usb_eject_pause).
EjectEnds ==
    job.pc # "idle" \/ eject # "idle"
        ~> /\ job.pc = "idle"
           /\ eject = "idle" \/ sleeping \/ ShuttingDown

\* A sleep that lasts is answered: the scanner hands over to the watcher and
\* the watcher, unless it has failed, cleans up (the flag is polled by both
\* before they block). One exception: an eject pause taken before the loop has
\* handled the end of a sleep reopens the watches, and with was_sleeping still
\* set a sleep that follows at once does not close them.
SleepIsAnswered ==
    sleeping ~> \/ watcher.sleep_cleanup_done \/ watcher.pc = "ended"
                \/ scanner.was_sleeping /\ watches
                \/ ~sleeping \/ ShuttingDown

\* After a stop request, from whichever thread or signal, the scanner leaves
\* its loop, the job and the monitor end and main asks the watcher to stop
\* (request_shutdown_stop, on_signal, main): none of them waits on another for
\* good, and no wake is lost on the way. One exception: handle_usb_eject_pause
\* drains the wake of a stop that cuts an eject pause short, and the loop goes
\* on to its next wait without looking for the stop again.
StopReachesWatcher ==
    stop ~> \/ scanner.pc \in {"joinWatcher", "ended"}
            \/ scanner.pc \in {"wait", "slSelect"} /\ job.count > 0

=============================================================================
