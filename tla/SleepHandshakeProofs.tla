------------------------ MODULE SleepHandshakeProofs ------------------------
(* The safety of the eject handshake, for any number of sleeps and jobs.    *)
EXTENDS SleepHandshake, TLAPS

ScannerRecords ==
    [pc : ScannerSteps, was_sleeping : BOOLEAN, reload : BOOLEAN]

JobRecords ==
    [pc : JobSteps, count : 0..MaxEjects, epoch : 0..MaxSleeps]

\* The typing of HandshakeTypeOK and, apart from it, who holds the mutex.
Typed ==
    /\ sleeping \in BOOLEAN /\ stop \in BOOLEAN
    /\ suspended \in BOOLEAN /\ watches \in BOOLEAN
    /\ eject \in EjectPause
    /\ pipe \in [{"scanner", "watcher"} -> PipeState]
    /\ sleeps \in 0..MaxSleeps
    /\ monitor \in {"poll", "wakeScanner", "wakeWatcher", "ended"}
    /\ scanner \in ScannerRecords
    /\ watcher \in [pc : WatcherSteps, sleep_cleanup_done : BOOLEAN,
                    stop : BOOLEAN]
    /\ job \in JobRecords

CycleHeld ==
    /\ cycle = "scanner" <=> scanner.pc = "scan"
    /\ cycle = "job" <=> job.pc # "idle"
    /\ cycle \in {"nobody", "scanner", "job"}

\* Each thread's steps keep the types.
LEMMA MonitorTyped ==
    ASSUME Typed,
           \/ EnterSleep \/ LeaveSleep \/ RequestStop \/ AppFocusChanges
           \/ MonitorDelivers \/ Signal \/ KillFile
    PROVE  Typed'
  <1> USE BoundsAssumption DEF Typed, power, usb
  <1>1. CASE EnterSleep  BY <1>1 DEF EnterSleep
  <1>2. CASE LeaveSleep  BY <1>2, Zenon DEF LeaveSleep
  <1>3. CASE RequestStop  BY <1>3 DEF RequestStop
  <1>4. CASE AppFocusChanges  BY <1>4 DEF AppFocusChanges, Wake, PipeState
  <1>5. CASE MonitorWakesScanner
    BY <1>5 DEF MonitorWakesScanner, Wake, PipeState
  <1>6. CASE MonitorWakesWatcher
    BY <1>6 DEF MonitorWakesWatcher, Wake, PipeState
  <1>7. CASE MonitorEnds  BY <1>7 DEF MonitorEnds
  <1>8. CASE Signal  BY <1>8 DEF Signal, Wake, PipeState
  <1>9. CASE KillFile  BY <1>9 DEF KillFile, PipeState
  <1> QED
    BY <1>1, <1>2, <1>3, <1>4, <1>5, <1>6, <1>7, <1>8, <1>9
    DEF MonitorDelivers

(* The steps of sm_scanner_run_loop and of the shutdown are typed.            *)
LEMMA ScannerTyped ==
    ASSUME Typed, ScannerStep \/ ScanOtherEvent \/ ScanFails
    PROVE  Typed'
  <1> USE BoundsAssumption
      DEF Typed, ScannerRecords, power, usb, Goto, OthersOfScanner,
          ScannerSteps, EjectPause, PipeState
  <1>1. CASE ScanTop
    <2>1. scanner' \in ScannerRecords  BY <1>1 DEF ScanTop
    <2>2. watches' \in BOOLEAN  BY <1>1, Zenon DEF ScanTop
    <2> QED  BY <1>1, <2>1, <2>2 DEF ScanTop
  <1>2. CASE EjectFlag  BY <1>2 DEF EjectFlag
  <1>3. CASE EjectAck  BY <1>3 DEF EjectAck
  <1>4. CASE EjectTest  BY <1>4 DEF EjectTest
  <1>5. CASE EjectSelect  BY <1>5 DEF EjectSelect, SelectAndDrain
  <1>6. CASE EjectLeave
    <2>1. scanner' \in ScannerRecords  BY <1>6 DEF EjectLeave
    <2>2. watches' \in BOOLEAN  BY <1>6, Zenon DEF EjectLeave
    <2> QED  BY <1>6, <2>1, <2>2 DEF EjectLeave
  <1>7. CASE EjectClear  BY <1>7, ZenonT(30) DEF EjectClear
  <1>8. CASE EjectIdle  BY <1>8 DEF EjectIdle
  <1>9. CASE ScanSleep
    <2>1. scanner' \in ScannerRecords  BY <1>9, ZenonT(30) DEF ScanSleep, DrainReported
    <2>2. watches' \in BOOLEAN  BY <1>9, Zenon DEF ScanSleep, DrainReported
    <2>3. pipe' \in [{"scanner", "watcher"} -> PipeState]  BY <1>9 DEF ScanSleep, DrainReported
    <2> QED  BY <1>9, <2>1, <2>2, <2>3 DEF ScanSleep, DrainReported
  <1>10. CASE SleepFlag  BY <1>10 DEF SleepFlag
  <1>11. CASE SleepWake
    <2>1. scanner' \in ScannerRecords  BY <1>11, Zenon DEF SleepWake, Wake
    <2>2. pipe' \in [{"scanner", "watcher"} -> PipeState]  BY <1>11 DEF SleepWake, Wake
    <2> QED  BY <1>11, <2>1, <2>2 DEF SleepWake, Wake
  <1>12. CASE SleepSelect  BY <1>12 DEF SleepSelect, SelectAndDrain
  <1>13. CASE ResumeFlag  BY <1>13, ZenonT(30) DEF ResumeFlag
  <1>14. CASE ScanWork
    <2>1. scanner' \in ScannerRecords  BY <1>14, ZenonT(30) DEF ScanWork
    <2>2. watches' \in BOOLEAN  BY <1>14, Zenon DEF ScanWork
    <2> QED  BY <1>14, <2>1, <2>2 DEF ScanWork
  <1>15. CASE ScanLock  BY <1>15 DEF ScanLock
  <1>16. CASE ScanEnd  BY <1>16 DEF ScanEnd
  <1>17. CASE ScanRebuild
    <2>1. scanner' \in ScannerRecords  BY <1>17 DEF ScanRebuild, DrainReported
    <2>2. watches' \in BOOLEAN  BY <1>17, Zenon DEF ScanRebuild, DrainReported
    <2>3. pipe' \in [{"scanner", "watcher"} -> PipeState]  BY <1>17 DEF ScanRebuild, DrainReported
    <2> QED  BY <1>17, <2>1, <2>2, <2>3 DEF ScanRebuild, DrainReported
  <1>18. CASE ScanAborted
    <2>1. scanner' \in ScannerRecords  BY <1>18 DEF ScanAborted
    <2>2. watches' \in BOOLEAN  BY <1>18, Zenon DEF ScanAborted
    <2> QED  BY <1>18, <2>1, <2>2 DEF ScanAborted
  <1>19. CASE ScanWait  BY <1>19 DEF ScanWait, KeventAndDrain
  <1>20. CASE ScanDeadline  BY <1>20 DEF ScanDeadline
  <1>21. CASE MainStopsJobs  BY <1>21 DEF MainStopsJobs
  <1>22. CASE MainJoinsMonitor  BY <1>22 DEF MainJoinsMonitor
  <1>23. CASE MainStopsWatcher  BY <1>23, ZenonT(30) DEF MainStopsWatcher, Wake
  <1>24. CASE MainEnds  BY <1>24 DEF MainEnds
  <1>25. CASE ScanOtherEvent  BY <1>25 DEF ScanOtherEvent
  <1>26. CASE ScanFails  BY <1>26, ZenonT(30) DEF ScanFails
  <1> QED
    BY <1>1, <1>2, <1>3, <1>4, <1>5, <1>6, <1>7, <1>8, <1>9, <1>10, <1>11,
       <1>12, <1>13, <1>14, <1>15, <1>16, <1>17, <1>18, <1>19, <1>20,
       <1>21, <1>22, <1>23, <1>24, <1>25, <1>26
    DEF ScannerStep

(* The steps of game_lifecycle_watcher_main are typed.                        *)
LEMMA WatcherTyped ==
    ASSUME Typed, WatcherStep \/ CleanupDrainsWake \/ WatchOtherEvent \/ WatchFails
    PROVE  Typed'
  <1> USE BoundsAssumption DEF Typed, power, usb, WatchGoto, OthersOfWatcher,
    WatcherSteps, PipeState
  <1>1. CASE WatchTop  BY <1>1 DEF WatchTop
  <1>2. CASE WatchCheck  BY <1>2 DEF WatchCheck
  <1>3. CASE CleanupTest  BY <1>3 DEF CleanupTest
  <1>4. CASE CleanupEnds  BY <1>4 DEF CleanupEnds
  <1>5. CASE CleanupSweep  BY <1>5, Zenon DEF CleanupSweep
  <1>6. CASE WatchSelect  BY <1>6 DEF WatchSelect, SelectAndDrain
  <1>7. CASE WatchDrain  BY <1>7, Zenon DEF WatchDrain, DiscardReport
  <1>8. CASE WatchRecheck  BY <1>8 DEF WatchRecheck
  <1>9. CASE WatchWait  BY <1>9 DEF WatchWait, KeventAndDrain
  <1>10. CASE CleanupDrainsWake
    BY <1>10 DEF CleanupDrainsWake, KeventAndDrain
  <1>11. CASE WatchOtherEvent  BY <1>11 DEF WatchOtherEvent
  <1>12. CASE WatchFails  BY <1>12 DEF WatchFails
  <1> QED
    BY <1>1, <1>2, <1>3, <1>4, <1>5, <1>6, <1>7, <1>8, <1>9, <1>10, <1>11,
       <1>12
    DEF WatcherStep

(* The steps of run_usb_eject_job are typed.                                  *)
LEMMA JobTyped ==
    ASSUME Typed, JobStarts \/ JobStep
    PROVE  Typed'
  <1> USE BoundsAssumption DEF Typed, JobRecords, power, usb, JobGoto, OthersOfJob,
    JobSteps, EjectPause, PipeState
  <1>1. CASE JobStarts
    <2>1. job.count + 1 \in 0..MaxEjects  BY <1>1 DEF JobStarts
    <2>2. job' = [job EXCEPT !.pc = "request", !.count = job.count + 1]
      BY <1>1 DEF JobStarts
    <2>3. job' \in JobRecords  BY <2>1, <2>2, Zenon
    <2> QED  BY <1>1, <2>3 DEF JobStarts
  <1>2. CASE JobRefused  BY <1>2 DEF JobRefused
  <1>3. CASE JobRequests  BY <1>3, Zenon DEF JobRequests
  <1>4. CASE JobWakes  BY <1>4 DEF JobWakes, Wake
  <1> 0 \in 0..MaxSleeps  OBVIOUS
  <1>5. CASE JobAwaits
    <2>1. job' \in JobRecords  BY <1>5, Zenon DEF JobAwaits
    <2> QED  BY <1>5, <2>1 DEF JobAwaits
  <1>6. CASE JobUnmounts
    <2>1. job' \in JobRecords  BY <1>6, Zenon DEF JobUnmounts
    <2> QED  BY <1>6, <2>1 DEF JobUnmounts
  <1>7. CASE JobResumes  BY <1>7 DEF JobResumes
  <1>8. CASE JobRewakes  BY <1>8 DEF JobRewakes, Wake
  <1> QED
    BY <1>1, <1>2, <1>3, <1>4, <1>5, <1>6, <1>7, <1>8
    DEF JobStep

(* Every step is typed.                                                       *)
LEMMA NextTyped == ASSUME Typed, [HandshakeNext]_vars PROVE Typed'
  <1>1. CASE Terminated \/ UNCHANGED vars
    BY <1>1 DEF Typed, vars, Terminated
  <1> QED
    BY <1>1, MonitorTyped, ScannerTyped, WatcherTyped, JobTyped
    DEF HandshakeNext

-----------------------------------------------------------------------------
(* The cycle mutex.                                                          *)

\* The monitor and the watcher leave the mutex, the scanner and the job alone.
LEMMA BystandersKeep ==
    ASSUME \/ EnterSleep \/ LeaveSleep \/ RequestStop \/ AppFocusChanges
           \/ MonitorDelivers \/ Signal \/ KillFile
           \/ WatcherStep \/ CleanupDrainsWake \/ WatchOtherEvent \/ WatchFails
           \/ Terminated \/ UNCHANGED vars
    PROVE  UNCHANGED <<usb, cycle, scanner, job>>
  BY DEF EnterSleep, LeaveSleep, RequestStop, AppFocusChanges,
         MonitorWakesScanner, MonitorWakesWatcher, MonitorEnds, Signal,
         KillFile, MonitorDelivers, WatchTop, WatchCheck, CleanupTest,
         CleanupEnds, CleanupSweep, WatchSelect, WatchDrain,
         WatchRecheck, WatchWait, CleanupDrainsWake, WatchOtherEvent,
         WatchFails, WatcherStep, OthersOfWatcher, Terminated, vars, usb

\* The scanner and the job take the mutex only when it is free and give back
\* only their own.
LEMMA ScannerCycleHeld ==
    ASSUME Typed, CycleHeld, ScannerStep \/ ScanOtherEvent \/ ScanFails
    PROVE  CycleHeld'
  <1> USE DEF CycleHeld, Typed, ScannerRecords, Goto, OthersOfScanner
  <1>1. CASE ScanTop  BY <1>1 DEF ScanTop
  <1>2. CASE EjectFlag  BY <1>2 DEF EjectFlag
  <1>3. CASE EjectAck  BY <1>3 DEF EjectAck
  <1>4. CASE EjectTest  BY <1>4 DEF EjectTest
  <1>5. CASE EjectSelect  BY <1>5 DEF EjectSelect
  <1>6. CASE EjectLeave  BY <1>6 DEF EjectLeave
  <1>7. CASE EjectClear  BY <1>7 DEF EjectClear
  <1>8. CASE EjectIdle  BY <1>8 DEF EjectIdle
  <1>9. CASE ScanSleep  BY <1>9, Zenon DEF ScanSleep
  <1>10. CASE SleepFlag  BY <1>10 DEF SleepFlag
  <1>11. CASE SleepWake  BY <1>11 DEF SleepWake
  <1>12. CASE SleepSelect  BY <1>12 DEF SleepSelect
  <1>13. CASE ResumeFlag  BY <1>13 DEF ResumeFlag
  <1>14. CASE ScanWork  BY <1>14, Zenon DEF ScanWork
  <1>15. CASE ScanLock  BY <1>15 DEF ScanLock
  <1>16. CASE ScanEnd  BY <1>16 DEF ScanEnd
  <1>17. CASE ScanRebuild  BY <1>17 DEF ScanRebuild
  <1>18. CASE ScanAborted  BY <1>18 DEF ScanAborted
  <1>19. CASE ScanWait  BY <1>19 DEF ScanWait
  <1>20. CASE ScanDeadline  BY <1>20 DEF ScanDeadline
  <1>21. CASE MainStopsJobs  BY <1>21 DEF MainStopsJobs
  <1>22. CASE MainJoinsMonitor  BY <1>22 DEF MainJoinsMonitor
  <1>23. CASE MainStopsWatcher  BY <1>23 DEF MainStopsWatcher
  <1>24. CASE MainEnds  BY <1>24 DEF MainEnds
  <1>25. CASE ScanOtherEvent  BY <1>25 DEF ScanOtherEvent
  <1>26. CASE ScanFails  BY <1>26 DEF ScanFails
  <1> QED
    BY <1>1, <1>2, <1>3, <1>4, <1>5, <1>6, <1>7, <1>8, <1>9, <1>10, <1>11,
       <1>12, <1>13, <1>14, <1>15, <1>16, <1>17, <1>18, <1>19, <1>20, <1>21,
       <1>22, <1>23, <1>24, <1>25, <1>26
    DEF ScannerStep

(* The job holds the cycle mutex exactly inside its critical section.         *)
LEMMA JobCycleHeld ==
    ASSUME Typed, CycleHeld, JobStarts \/ JobStep
    PROVE  CycleHeld'
  <1> USE DEF CycleHeld, Typed, JobRecords, JobGoto, OthersOfJob
  <1>1. CASE JobStarts  BY <1>1 DEF JobStarts
  <1>2. CASE JobRefused  BY <1>2 DEF JobRefused
  <1>3. CASE JobRequests  BY <1>3 DEF JobRequests
  <1>4. CASE JobWakes  BY <1>4 DEF JobWakes
  <1>5. CASE JobAwaits  BY <1>5, Zenon DEF JobAwaits
  <1>6. CASE JobUnmounts  BY <1>6 DEF JobUnmounts
  <1>7. CASE JobResumes  BY <1>7 DEF JobResumes
  <1>8. CASE JobRewakes  BY <1>8 DEF JobRewakes
  <1> QED
    BY <1>1, <1>2, <1>3, <1>4, <1>5, <1>6, <1>7, <1>8
    DEF JobStep

(* The cycle mutex is held by exactly the thread inside it.                   *)
LEMMA NextCycleHeld ==
    ASSUME Typed, CycleHeld, [HandshakeNext]_vars
    PROVE  CycleHeld'
  <1>1. CASE UNCHANGED <<cycle, scanner, job>>  BY <1>1 DEF CycleHeld
  <1> QED
    BY <1>1, BystandersKeep, ScannerCycleHeld, JobCycleHeld DEF HandshakeNext

\* The state at the head of the scanner loop is well typed.
LEMMA InitTyped ==
    ASSUME HandshakeInit
    PROVE  Typed
  <1> USE BoundsAssumption DEF HandshakeInit
  <1>1. scanner \in ScannerRecords  BY DEF ScannerRecords, ScannerSteps
  <1>2. job \in JobRecords
    <2>1. 0 \in 0..MaxEjects /\ 0 \in 0..MaxSleeps  OBVIOUS
    <2> QED  BY <2>1 DEF JobRecords, JobSteps
  <1>3. watcher \in [pc : WatcherSteps, sleep_cleanup_done : BOOLEAN,
                     stop : BOOLEAN]
    BY DEF WatcherSteps
  <1>4. pipe \in [{"scanner", "watcher"} -> PipeState]  BY DEF PipeState
  <1>5. sleeps \in 0..MaxSleeps  OBVIOUS
  <1>6. /\ sleeping \in BOOLEAN /\ stop \in BOOLEAN
        /\ suspended \in BOOLEAN /\ watches \in BOOLEAN
    BY Zenon
  <1>7. /\ eject \in EjectPause
        /\ monitor \in {"poll", "wakeScanner", "wakeWatcher", "ended"}
    BY DEF EjectPause
  <1> QED
    BY <1>1, <1>2, <1>3, <1>4, <1>5, <1>6, <1>7 DEF Typed

\* The types hold, and the mutex is held by exactly the thread inside it, in
\* every behaviour of sm_scanner_run_loop, the watcher, the monitor and the
\* jobs: pthread_mutex_lock and its unlocks in the scan cycles and in
\* run_usb_eject_job pair up on every path.
THEOREM HandshakeTypes == HandshakeSpec => []HandshakeTypeOK
  <1>1. HandshakeInit => Typed /\ CycleHeld
    <2>1. HandshakeInit => CycleHeld  BY DEF HandshakeInit, CycleHeld
    <2> QED  BY <2>1, InitTyped
  <1>2. Typed /\ CycleHeld /\ [HandshakeNext]_vars => (Typed /\ CycleHeld)'
    BY NextTyped, NextCycleHeld
  <1>3. Typed /\ CycleHeld => HandshakeTypeOK
    BY DEF Typed, CycleHeld, HandshakeTypeOK, ScannerRecords, JobRecords
  <1> QED
    BY <1>1, <1>2, <1>3, PTL DEF HandshakeSpec

-----------------------------------------------------------------------------
(* The eject handshake. A job whose request is still good (no sleep began    *)
(* since, no stop is on) sees "paused" only while the scanner waits inside   *)
(* the pause, with its watches closed.                                       *)

JobWaits == job.pc \in {"wake", "await", "unmount"}

RequestGood == JobWaits /\ job.epoch = sleeps /\ ~stop

EjectInv ==
    /\ scanner.pc = "ejFlag" => ~watches
    /\ scanner.pc \in {"ejAck", "ejTest", "ejSelect"} => ~watches /\ suspended
    /\ job.epoch <= sleeps
    /\ JobWaits /\ job.epoch = sleeps => ~sleeping
    /\ RequestGood /\ eject = "paused" => scanner.pc \in {"ejTest", "ejSelect"}
    /\ RequestGood /\ job.pc = "unmount" => eject = "paused"

\* A sleep ends the epoch of the request, a stop ends the request.
LEMMA MonitorEjectInv ==
    ASSUME Typed, EjectInv,
           \/ EnterSleep \/ LeaveSleep \/ RequestStop \/ AppFocusChanges
           \/ MonitorDelivers \/ Signal \/ KillFile
    PROVE  EjectInv'
  <1> USE BoundsAssumption
      DEF Typed, JobRecords, EjectInv, RequestGood, JobWaits, power, usb
  <1>1. CASE EnterSleep  BY <1>1 DEF EnterSleep
  <1>2. CASE LeaveSleep  BY <1>2 DEF LeaveSleep
  <1>3. CASE RequestStop  BY <1>3 DEF RequestStop
  <1>4. CASE AppFocusChanges  BY <1>4 DEF AppFocusChanges
  <1>5. CASE MonitorWakesScanner  BY <1>5 DEF MonitorWakesScanner
  <1>6. CASE MonitorWakesWatcher  BY <1>6 DEF MonitorWakesWatcher
  <1>7. CASE MonitorEnds  BY <1>7 DEF MonitorEnds
  <1>8. CASE Signal  BY <1>8 DEF Signal
  <1>9. CASE KillFile  BY <1>9, Zenon DEF KillFile
  <1> QED
    BY <1>1, <1>2, <1>3, <1>4, <1>5, <1>6, <1>7, <1>8, <1>9
    DEF MonitorDelivers

\* The scanner closes its watches before it acknowledges, and leaves the pause
\* of a good request only after the job has resumed it.
LEMMA ScannerEjectInv ==
    ASSUME Typed, EjectInv, ScannerStep \/ ScanOtherEvent \/ ScanFails
    PROVE  EjectInv'
  <1> USE DEF Typed, ScannerRecords, EjectInv, RequestGood, JobWaits, Goto,
              OthersOfScanner, power, usb
  <1>1. CASE ScanTop  BY <1>1 DEF ScanTop
  <1>2. CASE EjectFlag  BY <1>2 DEF EjectFlag
  <1>3. CASE EjectAck  BY <1>3 DEF EjectAck
  <1>4. CASE EjectTest  BY <1>4 DEF EjectTest
  <1>5. CASE EjectSelect  BY <1>5 DEF EjectSelect
  <1>6. CASE EjectLeave  BY <1>6 DEF EjectLeave
  <1>7. CASE EjectClear  BY <1>7 DEF EjectClear
  <1>8. CASE EjectIdle  BY <1>8 DEF EjectIdle
  <1>9. CASE ScanSleep
    <2>1. scanner'.pc \in {"slFlag", "slSelect", "rsFlag", "work"}
      BY <1>9, Zenon DEF ScanSleep
    <2>2. scanner.pc = "sleep" /\ UNCHANGED <<power, eject, job>>
      BY <1>9 DEF ScanSleep
    <2> QED  BY <2>1, <2>2
  <1>10. CASE SleepFlag  BY <1>10 DEF SleepFlag
  <1>11. CASE SleepWake  BY <1>11 DEF SleepWake
  <1>12. CASE SleepSelect  BY <1>12 DEF SleepSelect
  <1>13. CASE ResumeFlag  BY <1>13 DEF ResumeFlag
  <1>14. CASE ScanWork  BY <1>14, Zenon DEF ScanWork
  <1>15. CASE ScanLock  BY <1>15 DEF ScanLock
  <1>16. CASE ScanEnd  BY <1>16 DEF ScanEnd
  <1>17. CASE ScanRebuild  BY <1>17 DEF ScanRebuild
  <1>18. CASE ScanAborted  BY <1>18 DEF ScanAborted
  <1>19. CASE ScanWait  BY <1>19 DEF ScanWait
  <1>20. CASE ScanDeadline  BY <1>20 DEF ScanDeadline
  <1>21. CASE MainStopsJobs  BY <1>21 DEF MainStopsJobs
  <1>22. CASE MainJoinsMonitor  BY <1>22 DEF MainJoinsMonitor
  <1>23. CASE MainStopsWatcher  BY <1>23 DEF MainStopsWatcher
  <1>24. CASE MainEnds  BY <1>24 DEF MainEnds
  <1>25. CASE ScanOtherEvent  BY <1>25 DEF ScanOtherEvent
  <1>26. CASE ScanFails  BY <1>26 DEF ScanFails
  <1> QED
    BY <1>1, <1>2, <1>3, <1>4, <1>5, <1>6, <1>7, <1>8, <1>9, <1>10, <1>11,
       <1>12, <1>13, <1>14, <1>15, <1>16, <1>17, <1>18, <1>19, <1>20, <1>21,
       <1>22, <1>23, <1>24, <1>25, <1>26, Zenon
    DEF ScannerStep

(* The watcher takes no part in the pause of an eject.                        *)
LEMMA WatcherEjectInv ==
    ASSUME EjectInv, WatcherStep \/ CleanupDrainsWake \/ WatchOtherEvent \/ WatchFails
    PROVE  EjectInv'
  <1>1. UNCHANGED <<power, usb, scanner, job>>
    BY Zenon DEF WatchTop, WatchCheck, CleanupTest, CleanupEnds,
           CleanupSweep, WatchSelect, WatchDrain, WatchRecheck, WatchWait,
           CleanupDrainsWake, WatchOtherEvent, WatchFails, WatcherStep,
           OthersOfWatcher
  <1> QED
    BY <1>1 DEF EjectInv, RequestGood, JobWaits, power, usb

\* The job enters the eject on an acknowledgement it has just seen.
LEMMA JobEjectInv ==
    ASSUME Typed, EjectInv, JobStarts \/ JobStep
    PROVE  EjectInv'
  <1> USE BoundsAssumption
      DEF Typed, JobRecords, EjectInv, RequestGood, JobWaits, JobGoto,
          OthersOfJob, power, usb
  <1>1. CASE JobStarts  BY <1>1 DEF JobStarts
  <1>2. CASE JobRefused  BY <1>2 DEF JobRefused
  <1>3. CASE JobRequests  BY <1>3 DEF JobRequests
  <1>4. CASE JobWakes  BY <1>4 DEF JobWakes
  <1>5. CASE JobAwaits
    <2>1. CASE job'.pc = "unmount"
      <3>1. eject = "paused" /\ job' = [job EXCEPT !.pc = "unmount"]
        BY <1>5, <2>1, Zenon DEF JobAwaits
      <3> QED  BY <1>5, <2>1, <3>1 DEF JobAwaits
    <2>2. CASE job'.pc # "unmount"
      <3>1. job'.pc = "resume" /\ job'.epoch = 0
        BY <1>5, <2>2, Zenon DEF JobAwaits
      <3> QED  BY <1>5, <3>1 DEF JobAwaits
    <2> QED  BY <2>1, <2>2
  <1>6. CASE JobUnmounts  BY <1>6 DEF JobUnmounts
  <1>7. CASE JobResumes  BY <1>7 DEF JobResumes
  <1>8. CASE JobRewakes  BY <1>8 DEF JobRewakes
  <1> QED
    BY <1>1, <1>2, <1>3, <1>4, <1>5, <1>6, <1>7, <1>8
    DEF JobStep

\* While a job ejects the drive the scanner holds no USB descriptor, as long as
\* no stop is on and no sleep began since the request, for any number of jobs
\* and sleeps: between the acknowledgement of handle_usb_eject_pause and
\* sm_scanner_resume_usb_after_eject nothing reopens the watches.
THEOREM EjectSafe == HandshakeSpec => []EjectOnClosedWatches
  <1>1. HandshakeInit => Typed /\ EjectInv
    <2>1. HandshakeInit => EjectInv
      BY DEF HandshakeInit, EjectInv, RequestGood, JobWaits
    <2> QED  BY <2>1, InitTyped
  <1>2. Typed /\ EjectInv /\ [HandshakeNext]_vars => (Typed /\ EjectInv)'
    <2> SUFFICES ASSUME Typed, EjectInv, [HandshakeNext]_vars
                 PROVE  EjectInv'
      BY NextTyped
    <2>1. CASE UNCHANGED vars
      BY <2>1 DEF vars, EjectInv, RequestGood, JobWaits
    <2> QED
      BY <2>1, MonitorEjectInv, ScannerEjectInv, WatcherEjectInv, JobEjectInv
      DEF HandshakeNext, Terminated
  <1>3. EjectInv => EjectOnClosedWatches
    BY DEF EjectInv, RequestGood, JobWaits, EjectOnClosedWatches
  <1> QED
    BY <1>1, <1>2, <1>3, PTL DEF HandshakeSpec

=============================================================================
