------------------------------ MODULE ScanLoop ------------------------------
(***************************************************************************)
(* The scanner thread's loop (sm_scanner_run_loop): which scan it runs     *)
(* next, what a scan and a watch rebuild do to queued change events, and   *)
(* how sleep, ejects, running games and the periodic resync interact.      *)
(*                                                                         *)
(* unseen[r] says that scan root r has changed, or a scan of it has been   *)
(* requested, since a scan last walked it.  A change queues a vnode event  *)
(* only while r is watched, and closing a descriptor drops its event.  A   *)
(* timer is off, in the future ("later") or reached ("due").               *)
(***************************************************************************)
EXTENDS Naturals

CONSTANTS
    ScanRoots,      \* configured scan paths
    UsbRoots,       \* those under /mnt/usbN
    MaxHappenings   \* bound on changes, sleeps, games and interrupted scans

VARIABLES
    unseen,     \* the ghost described above
    watch,      \* roots with open watch descriptors
    event,      \* the queued vnode event of each root
    root,       \* g_scanner_root_states: dirty, cleanup_pending, watch_tree_stale
    timers,     \* next_full_resync_us, manual_scan_due_us, config_reload_ready_after_us
    loop,       \* the thread: pc, roots left to walk, its local flags
    wake,       \* the scan request (request_scan_now) and a byte in the wake pipe
    world       \* sleep flag, background work blocked, eject pause, happenings

loopVars == <<unseen, watch, event, root, timers, loop, wake, world>>

Clean == [dirty |-> "no", cleanup |-> FALSE, stale |-> FALSE]
NoEvents == [r \in ScanRoots |-> "none"]
clear_all_dirty_scan_roots == [r \in ScanRoots |-> Clean]
GoTo(where) == loop' = [loop EXCEPT !.pc = where]
drain_scanner_wake_pipe == wake' = [wake EXCEPT !.token = FALSE]

LoopInit ==
    /\ unseen = [r \in ScanRoots |-> FALSE]
    /\ watch = ScanRoots
    /\ event = NoEvents
    /\ root = clear_all_dirty_scan_roots
    /\ timers = [resync |-> "later", manual |-> "off", reload |-> "off"]
    /\ loop = [pc |-> "top", left |-> {}, before |-> Clean,
               was_sleeping |-> FALSE, blocked |-> FALSE]
    /\ wake = [scan |-> FALSE, token |-> FALSE]
    /\ world = [asleep |-> FALSE, busy |-> FALSE, eject |-> "idle", count |-> 0]

schedule_scan_root_dirty(s, immediate) ==
    [s EXCEPT !.dirty = IF immediate THEN "due" ELSE "later"]

\* What process_scanner_events makes of one root's event: a delete, rename or
\* revoke is urgent and asks for a cleanup pass, any change stales the tree.
AfterEvent(s, e) ==
    IF e = "none" THEN s
    ELSE [schedule_scan_root_dirty(s, e = "gone") EXCEPT
             !.cleanup = @ \/ e = "gone", !.stale = TRUE]

process_scanner_events(roots, events) ==
    /\ root' = [r \in ScanRoots |-> AfterEvent(roots[r], events[r])]
    /\ event' = NoEvents

suspend_usb_scan_root_watch_trees ==
    /\ watch' = watch \ UsbRoots
    /\ event' = [r \in ScanRoots |-> IF r \in UsbRoots THEN "none" ELSE event[r]]

\* Every USB root is watched again, and the mounted ones are scanned at once.
resume_usb_scan_root_watch_trees ==
    /\ watch' = ScanRoots
    /\ \E mounted \in SUBSET UsbRoots :
         root' = [r \in ScanRoots |->
                    IF r \in mounted THEN schedule_scan_root_dirty(root[r], TRUE)
                    ELSE root[r]]

-----------------------------------------------------------------------------
(* Before the body: an eject's pause, and sleep.                            *)

EjectPause ==
    /\ loop.pc = "top" /\ world.eject = "requested"
    /\ suspend_usb_scan_root_watch_trees
    /\ world' = [world EXCEPT !.eject = "paused"]
    /\ GoTo("paused")
    /\ UNCHANGED <<unseen, root, timers, wake>>

EjectResume ==
    /\ loop.pc = "paused" /\ (wake.token \/ world.asleep \/ world.eject # "paused")
    /\ drain_scanner_wake_pipe
    /\ IF world.eject = "paused" /\ ~world.asleep
       THEN UNCHANGED <<watch, event, root, world, loop>>
       ELSE /\ IF world.asleep THEN UNCHANGED <<watch, event, root>>
               ELSE resume_usb_scan_root_watch_trees /\ UNCHANGED event
            /\ world' = [world EXCEPT !.eject = "idle"]
            /\ GoTo("top")
    /\ UNCHANGED <<unseen, timers>>

AtTop == loop.pc = "top" /\ world.eject # "requested"

SuspendForSleep ==
    /\ AtTop /\ world.asleep
    /\ IF loop.was_sleeping THEN UNCHANGED <<watch, event, root>>
       ELSE suspend_usb_scan_root_watch_trees /\ root' = clear_all_dirty_scan_roots
    /\ loop' = [loop EXCEPT !.pc = "nap", !.was_sleeping = TRUE]
    /\ UNCHANGED <<unseen, timers, wake, world>>

NapEnds ==
    /\ loop.pc = "nap" /\ wake.token
    /\ drain_scanner_wake_pipe
    /\ GoTo("top")
    /\ UNCHANGED <<unseen, watch, event, root, timers, world>>

FoundAwake ==
    /\ AtTop /\ ~world.asleep
    /\ GoTo(IF loop.was_sleeping THEN "resume" ELSE "body")
    /\ UNCHANGED <<unseen, watch, event, root, timers, wake, world>>

\* Resuming discards every queued event, the wake byte included, and arms a
\* config reload, a manual scan and a full resync in their place.
ResumeFromSleep ==
    /\ loop.pc = "resume"
    /\ event' = NoEvents
    /\ drain_scanner_wake_pipe
    /\ resume_usb_scan_root_watch_trees
    /\ timers' = [resync |-> "later", manual |-> "later", reload |-> "later"]
    /\ loop' = [loop EXCEPT !.pc = "body", !.was_sleeping = FALSE]
    /\ UNCHANGED <<unseen, world>>

-----------------------------------------------------------------------------
(* The body: one branch per iteration, in this order.                       *)

UnblockForgets ==
    /\ loop.pc = "body"
    /\ loop' = [loop EXCEPT !.pc = "choose", !.blocked = world.busy]
    /\ timers' = [timers EXCEPT !.resync = IF world.busy THEN "off" ELSE @]
    /\ UNCHANGED <<unseen, watch, event, root, wake, world>>

\* While games prepare or release, the resync is off; it is due as soon as
\* the loop finds the block gone.
update_scan_work_blocked ==
    /\ loop.pc = "body"
    /\ loop' = [loop EXCEPT !.pc = "choose", !.blocked = world.busy]
    /\ timers' = [timers EXCEPT !.resync = IF world.busy THEN "off"
                                          ELSE IF loop.blocked THEN "due" ELSE @]
    /\ UNCHANGED <<unseen, watch, event, root, wake, world>>

Choosing == loop.pc = "choose"
find_pending_cleanup_scan_root == {r \in ScanRoots : root[r].cleanup}
find_due_dirty_scan_root == {r \in ScanRoots : root[r].dirty = "due"}
FullScanDue == timers.manual = "due" \/ timers.resync = "due"
BeginFull == loop' = [loop EXCEPT !.pc = "full", !.left = ScanRoots]

StartRequestedScan ==
    /\ Choosing /\ ~loop.blocked /\ wake.scan
    /\ wake' = [wake EXCEPT !.scan = FALSE]
    /\ BeginFull
    /\ UNCHANGED <<unseen, watch, event, root, timers, world>>

NotRequested == Choosing /\ (loop.blocked \/ ~wake.scan)

\* A reload that changes the scan topology replaces all watches and root
\* states, discards the queue and makes the resync due.
apply_runtime_config_reload_effects ==
    /\ watch' = ScanRoots /\ event' = NoEvents
    /\ root' = clear_all_dirty_scan_roots
    /\ drain_scanner_wake_pipe

ConfigReload ==
    /\ NotRequested /\ timers.reload = "due"
    /\ \/ timers' = [timers EXCEPT !.reload = "off"] /\ UNCHANGED <<watch, event, root, wake>>
       \/ /\ timers' = [timers EXCEPT !.reload = "off", !.resync = "later"]
          /\ UNCHANGED <<watch, event, root, wake>>
       \/ /\ timers' = [timers EXCEPT !.reload = "off", !.resync = "due"]
          /\ apply_runtime_config_reload_effects
    /\ GoTo("top")
    /\ UNCHANGED <<unseen, world>>

Quiet == NotRequested /\ timers.reload # "due"

StartDueScan ==
    /\ Quiet /\ ~loop.blocked /\ FullScanDue
    /\ timers' = [timers EXCEPT !.manual = IF @ = "due" THEN "off" ELSE @]
    /\ BeginFull
    /\ UNCHANGED <<unseen, watch, event, root, wake, world>>

CleanupRoot ==
    /\ Quiet /\ ~loop.blocked /\ ~FullScanDue
    /\ \E r \in find_pending_cleanup_scan_root : root' = [root EXCEPT ![r].cleanup = FALSE]
    /\ GoTo("top")
    /\ UNCHANGED <<unseen, watch, event, timers, wake, world>>

StartTargetedScan ==
    /\ Quiet /\ ~loop.blocked /\ ~FullScanDue /\ find_pending_cleanup_scan_root = {}
    /\ \E r \in find_due_dirty_scan_root :
         /\ loop' = [loop EXCEPT !.pc = "walk", !.left = {r}, !.before = root[r]]
         /\ root' = [root EXCEPT ![r] = Clean]
    /\ UNCHANGED <<unseen, watch, event, timers, wake, world>>

Idle ==
    /\ Quiet
    /\ ~loop.blocked =>
         ~FullScanDue /\ find_pending_cleanup_scan_root \cup find_due_dirty_scan_root = {}
    /\ GoTo("wait")
    /\ UNCHANGED <<unseen, watch, event, root, timers, wake, world>>

\* compute_next_scan_deadline_us: manual scans and dirty roots count only
\* while background work is not blocked.
DeadlineReached ==
    \/ timers.resync = "due" \/ timers.reload = "due"
    \/ ~loop.blocked /\ (timers.manual = "due" \/ find_due_dirty_scan_root # {})

WaitEnds ==
    /\ loop.pc = "wait"
    /\ wake.token \/ event # NoEvents \/ DeadlineReached
    /\ process_scanner_events(root, event)
    /\ drain_scanner_wake_pipe
    /\ GoTo("top")
    /\ UNCHANGED <<unseen, watch, timers, world>>

-----------------------------------------------------------------------------
(* A full scan, root by root, and a targeted one.                           *)

WalkRoot(r) ==
    /\ loop.pc = "full" /\ ~world.asleep /\ r \in loop.left
    /\ unseen' = [unseen EXCEPT ![r] = FALSE]
    /\ loop' = [loop EXCEPT !.left = @ \ {r}]
    /\ UNCHANGED <<watch, event, root, timers, wake, world>>

Happens == world.count < MaxHappenings
Count(w) == world' = [w EXCEPT !.count = @ + 1]

\* A game that blocks background work, or a refused claim, ends a scan early;
\* it counts as complete but unstable, and is tried again.
ScanInterrupted ==
    /\ loop.pc = "full" /\ ~world.asleep /\ loop.left # {}
    /\ IF world.busy THEN UNCHANGED world ELSE Happens /\ Count(world)
    /\ loop' = [loop EXCEPT !.left = {}]
    /\ UNCHANGED <<unseen, watch, event, root, timers, wake>>

\* Afterwards the marks are cleared and every watch tree is rebuilt, which
\* drops the events queued during the walk except those of descriptors that
\* stay shared; these are drained.
EndFullScan ==
    /\ loop.pc = "full" /\ ~world.asleep /\ loop.left = {}
    /\ watch' = ScanRoots
    /\ \E shared \in SUBSET ScanRoots :
         process_scanner_events(clear_all_dirty_scan_roots,
             [r \in ScanRoots |-> IF r \in shared THEN event[r] ELSE "none"])
    /\ drain_scanner_wake_pipe
    /\ timers' = [timers EXCEPT !.resync = "later"]
    /\ GoTo("top")
    /\ UNCHANGED <<unseen, world>>

TargetedScan ==
    /\ loop.pc = "walk" /\ ~world.asleep
    /\ \E r \in loop.left :
         \/ unseen' = [unseen EXCEPT ![r] = FALSE] /\ GoTo("walked") /\ UNCHANGED world
         \/ /\ IF world.busy THEN UNCHANGED world ELSE Happens /\ Count(world)
            /\ GoTo("unstable") /\ UNCHANGED unseen
    /\ UNCHANGED <<watch, event, root, timers, wake>>

\* The stale subtree is rebuilt, the queue drained, and an unfinished scan
\* marks its root again.
EndTargetedScan ==
    /\ loop.pc \in {"walked", "unstable"}
    /\ \E r \in loop.left :
         LET kept == [event EXCEPT ![r] = IF loop.before.stale THEN "none" ELSE @]
             done == [q \in ScanRoots |-> AfterEvent(root[q], kept[q])]
         IN  root' = IF loop.pc = "walked" THEN done
                     ELSE [done EXCEPT ![r] = schedule_scan_root_dirty(@, FALSE)]
    /\ event' = NoEvents
    /\ drain_scanner_wake_pipe
    /\ loop' = [loop EXCEPT !.pc = "top", !.left = {}]
    /\ UNCHANGED <<unseen, watch, timers, world>>

\* A cycle cut short by sleep returns false; the loop then reads the sleep
\* flag once more and leaves for good if the console is awake again.
ScanSleeps ==
    /\ loop.pc \in {"full", "walk"} /\ world.asleep
    /\ loop' = [loop EXCEPT !.pc = "aborted", !.left = IF loop.pc = "walk" THEN @ ELSE {}]
    /\ UNCHANGED <<unseen, watch, event, root, timers, wake, world>>

Unfinished(r) ==
    schedule_scan_root_dirty([root[r] EXCEPT !.cleanup = @ \/ loop.before.cleanup,
                                             !.stale = @ \/ loop.before.stale], TRUE)

AfterAbort ==
    /\ loop.pc = "aborted"
    /\ IF world.asleep
       THEN /\ root' = [r \in ScanRoots |-> IF r \in loop.left THEN Unfinished(r) ELSE root[r]]
            /\ loop' = [loop EXCEPT !.pc = "top", !.left = {}]
       ELSE GoTo("over") /\ UNCHANGED root
    /\ UNCHANGED <<unseen, watch, event, timers, wake, world>>

-----------------------------------------------------------------------------
(* Time, the file system, games, sleep, ejects and requests.                *)

TimersRun ==
    /\ \/ /\ \E t \in DOMAIN timers : timers[t] = "later" /\ timers' = [timers EXCEPT ![t] = "due"]
          /\ UNCHANGED root
       \/ /\ \E r \in ScanRoots :
               root[r].dirty = "later" /\ root' = [root EXCEPT ![r].dirty = "due"]
          /\ UNCHANGED timers
    /\ UNCHANGED <<unseen, watch, event, loop, wake, world>>

RootChanges(r) ==
    /\ Happens /\ Count(world)
    /\ unseen' = [unseen EXCEPT ![r] = TRUE]
    /\ \E e \in {"write", "gone"} :
         event' = [event EXCEPT ![r] = IF r \notin watch \/ @ = "gone" THEN @ ELSE e]
    /\ UNCHANGED <<watch, root, timers, loop, wake>>

\* A write to the manual list or a config file is a vnode event of its own.
FileEdited ==
    /\ Happens /\ Count(world)
    /\ \E t \in {"manual", "reload"} : timers' = [timers EXCEPT ![t] = "later"]
    /\ wake' = [wake EXCEPT !.token = TRUE]
    /\ UNCHANGED <<unseen, watch, event, root, loop>>

\* sm_scanner_wake follows every change of the sleep and game state.
sm_scanner_wake == wake' = [wake EXCEPT !.token = TRUE]

GameBlocks ==
    /\ Happens /\ ~world.busy /\ Count([world EXCEPT !.busy = TRUE])
    /\ UNCHANGED <<unseen, watch, event, root, timers, loop, wake>>

GameUnblocks ==
    /\ world.busy /\ world' = [world EXCEPT !.busy = FALSE]
    /\ sm_scanner_wake
    /\ UNCHANGED <<unseen, watch, event, root, timers, loop>>

ConsoleSleeps ==
    /\ Happens /\ ~world.asleep /\ Count([world EXCEPT !.asleep = TRUE])
    /\ sm_scanner_wake
    /\ UNCHANGED <<unseen, watch, event, root, timers, loop>>

ConsoleWakes ==
    /\ world.asleep /\ world' = [world EXCEPT !.asleep = FALSE]
    /\ sm_scanner_wake
    /\ UNCHANGED <<unseen, watch, event, root, timers, loop>>

EjectRequested ==
    /\ Happens /\ world.eject = "idle" /\ ~world.asleep
    /\ Count([world EXCEPT !.eject = "requested"])
    /\ sm_scanner_wake
    /\ UNCHANGED <<unseen, watch, event, root, timers, loop>>

\* sm_scanner_resume_usb_after_eject: the eject ended, or its wait did.
EjectReturns ==
    /\ world.eject \in {"requested", "paused"}
    /\ world' = [world EXCEPT !.eject = IF @ = "paused" THEN "resuming" ELSE "idle"]
    /\ sm_scanner_wake
    /\ UNCHANGED <<unseen, watch, event, root, timers, loop>>

request_scan_now ==
    /\ Happens /\ ~wake.scan /\ Count(world)
    /\ wake' = [scan |-> TRUE, token |-> TRUE]
    /\ unseen' = [r \in ScanRoots |-> TRUE]
    /\ UNCHANGED <<watch, event, root, timers, loop>>

ScannerThread ==
    \/ EjectPause \/ EjectResume
    \/ SuspendForSleep \/ NapEnds \/ FoundAwake \/ ResumeFromSleep
    \/ update_scan_work_blocked
    \/ StartRequestedScan \/ ConfigReload \/ StartDueScan
    \/ CleanupRoot \/ StartTargetedScan \/ Idle \/ WaitEnds
    \/ \E r \in ScanRoots : WalkRoot(r)
    \/ EndFullScan \/ TargetedScan \/ EndTargetedScan
    \/ ScanSleeps \/ AfterAbort

LoopNext ==
    \/ ScannerThread
    \/ ScanInterrupted
    \/ TimersRun
    \/ \E r \in ScanRoots : RootChanges(r)
    \/ FileEdited \/ request_scan_now
    \/ GameBlocks \/ GameUnblocks
    \/ ConsoleSleeps \/ ConsoleWakes
    \/ EjectRequested \/ EjectReturns

\* The thread runs, time passes, and an eject returns; nothing is assumed of
\* sleep, games or the file system.
LoopSpec == /\ LoopInit /\ [][LoopNext]_loopVars
            /\ WF_loopVars(ScannerThread) /\ WF_loopVars(TimersRun) /\ WF_loopVars(EjectReturns)

-----------------------------------------------------------------------------
\* Every change of a scan root, and every requested scan, is walked by a
\* later scan once the console is awake and no game blocks the loop, although
\* a rebuild drops the events queued during a scan, a sleep clears the marks
\* and an aborted scan consumes its request (sm_scanner_run_loop; docs/api.md
\* of the scan command: "remains pending until scanning is safe").
ChangesAreScanned ==
    \A r \in ScanRoots :
        unseen[r] ~> (~unseen[r] \/ world.asleep \/ world.busy \/ loop.pc = "over")
=============================================================================
