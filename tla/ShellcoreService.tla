-------------------------- MODULE ShellcoreService --------------------------
(***************************************************************************)
(* The threads that share the ownership table of ShellcoreOwners, and the   *)
(* mounts they make and release:                                            *)
(*   "service"  the socket thread of sm_shellcore_service.c, answering the  *)
(*              hook's LAUNCH and LAUNCH_FAILED requests one at a time;     *)
(*   "watcher"  the process watcher of sm_game_lifecycle.c, binding games,  *)
(*              reporting exits, and releasing the runtimes of exited games;*)
(*   "worker"   the scanner, or an API or storage job: they exclude each    *)
(*              other by g_scanner_cycle_mutex, so one thread stands for all.*)
(* The environment is SceShellCore (one launch at a time, as its hook is    *)
(* called from one job queue) and the game processes.                       *)
(*                                                                          *)
(* A title's runtime is its mount stack (titles) on top of the images of its*)
(* chain (images); chains of two titles may share a container image.  Each  *)
(* critical section of g_service.mutex, each check outside it and each      *)
(* mount operation is a step of its own.  An unmount may fail at any time   *)
(* (EBUSY); the sandbox and grace waits are nondeterministic delays.        *)
(* Suspend and shutdown are left out.                                       *)
(***************************************************************************)
EXTENDS ShellcoreOwners

CONSTANTS Managed, Images, chain, Nobody,
          Jobs,           \* what the worker is asked to do
          AppInfo,        \* app ids AppInfo may report, 0 for none
          Relaunch,       \* a title may be launched again while it runs
          HookTimesOut    \* the hook may give up waiting for an answer

ASSUME ServiceConstants ==
  /\ Managed \subseteq Titles
  /\ chain \in [Titles -> SUBSET Images]
  /\ Jobs \subseteq {"mount", "unmount", "scan"}
  /\ AppInfo \subseteq Apps \cup {0}
  /\ Relaunch \in BOOLEAN /\ HookTimesOut \in BOOLEAN

VARIABLES
  titles,   \* titles whose /system_ex/app stack is mounted
  images,   \* images that are attached and mounted
  lock,     \* holder of the runtime mount-state mutex
  proc,     \* the call each thread is executing
  game,     \* the game the watcher publishes, leaving once its exit was seen
  process,  \* title of every process that was started, NoTitle before
  alive,    \* processes that are running
  execs,    \* NOTE_EXEC events and deferred launches of the watcher
  exits,    \* NOTE_EXIT events of the watcher
  hook      \* the launch SceShellCore is executing

runtimeVars == <<titles, images, lock>>
watchVars   == <<game, execs, exits>>
worldVars   == <<process, alive>>
serviceVars == <<ownerVars, runtimeVars, proc, watchVars, worldVars, hook>>

Threads == {"service", "watcher", "worker"}

NoGame == [pid |-> 0, title_id |-> NoTitle, leaving |-> FALSE]

(* pc; the call's title and process; its launch_request (launch), claimed_out
   (claimed), public_request (public) and expected snapshot; the images it
   decided to release (victims) and whether all went well so far (ok); the
   worker holds the mutation gate (gate); the title to launch once an abandoned
   one is released (next). *)
Idle == [pc |-> "idle", title |-> NoTitle, pid |-> 0, launch |-> FALSE,
         claimed |-> FALSE, public |-> FALSE, expected |-> NoOwner,
         victims |-> {}, ok |-> TRUE, gate |-> FALSE, next |-> NoTitle]

At(th, pc) == proc[th].pc = pc

Title(th) == proc[th].title

Goto(th, pc) == proc' = [proc EXCEPT ![th].pc = pc]

Return(th) == proc' = [proc EXCEPT ![th] = Idle]

StartCall(th, call) == At(th, "idle") /\ proc' = [proc EXCEPT ![th] = call]

(* Nothing here forces an unmount.  The kernel refuses to take a stack away that
   a process runs from, and a file system that a stack refers to. *)
BusyTitles == {process[p] : p \in alive}

BusyImages == UNION {chain[t] : t \in titles}

has_active_game == game # NoGame

(* sm_game_lifecycle_background_title: a leaving game blocks background work. *)
BackgroundTitle == IF game.leaving THEN NoTitle ELSE game.title_id

is_protected(t) == t \in ProtectedTitles \cup ({BackgroundTitle} \ {NoTitle})

ProtectedImages == UNION {chain[t] : t \in {u \in Titles : is_protected(u)}}

background_work_blocked ==
  \/ game.leaving
  \/ launch_preparation_pending
  \/ releasing_title_id # NoTitle
  \/ outgoing # NoOwner
  \/ /\ prepared # NoOwner
     /\ prepared.title_id # BackgroundTitle \/ ~Live(prepared)

-----------------------------------------------------------------------------
(* mount_managed_title_runtime: claim, prepare the images, mount the title. *)

(* Where a thread continues after a mount: the service answers the hook, the
   watcher binds, a worker goes on with its job. *)
AfterMount(th, ok) ==
  CASE th = "service" -> [proc[th] EXCEPT !.pc = IF ok THEN "reply" ELSE "rejected",
                                          !.ok = ok]
    [] th = "watcher" -> [proc[th] EXCEPT !.pc = IF ok THEN "bind" ELSE "defer"]
    [] OTHER -> Idle

EndMount(th, ok) == proc' = [proc EXCEPT ![th] = AfterMount(th, ok)]

Claim(th) ==
  LET t == Title(th)
  IN  /\ At(th, "claim")
      /\ IF t \in Managed
         THEN \/ /\ claim_prepared_title(t, proc[th].launch)
                 /\ proc' = [proc EXCEPT ![th].pc = "mounted",
                                         ![th].claimed = Claims(t)]
              \/ /\ ~CanClaim(t, proc[th].launch)
                 /\ EndMount(th, FALSE)
                 /\ UNCHANGED ownerVars
         ELSE /\ IF th = "service" THEN Goto(th, "reply") ELSE EndMount(th, TRUE)
              /\ UNCHANGED ownerVars
      /\ UNCHANGED <<runtimeVars, watchVars, worldVars, hook>>

(* is_data_mounted after the claim *)
CheckMounted(th) ==
  /\ At(th, "mounted")
  /\ Goto(th, IF ~proc[th].claimed /\ Title(th) \in titles
              THEN "finish" ELSE "images")
  /\ UNCHANGED <<ownerVars, runtimeVars, watchVars, worldVars, hook>>

(* prepare_image_source: any layer may fail to mount. *)
PrepareImages(th) ==
  /\ At(th, "images")
  /\ \E layers \in SUBSET chain[Title(th)] :
       /\ images' = images \cup layers
       /\ proc' = [proc EXCEPT ![th].pc =
                     IF chain[Title(th)] \subseteq images' THEN "title" ELSE "failed"]
  /\ UNCHANGED <<ownerVars, titles, lock, watchVars, worldVars, hook>>

(* The locked half of prepare_title_runtime: the source must still be there;
   a failed overlay takes the title stack down again unless it is protected. *)
PrepareTitle(th) ==
  LET t == Title(th)
  IN  /\ At(th, "title")
      /\ lock = Nobody
      /\ \/ /\ chain[t] \subseteq images
            /\ titles' = titles \cup {t}
            /\ Goto(th, "finish")
         \/ /\ titles' \in {titles} \cup
                 (IF chain[t] \subseteq images
                  THEN {titles \cup {t},
                        IF is_protected(t) THEN titles ELSE titles \ ({t} \ BusyTitles)}
                  ELSE {})
            /\ Goto(th, "failed")
      /\ UNCHANGED <<ownerVars, images, lock, watchVars, worldVars, hook>>

(* A preparation under the mutation gate took no owner slot: it only leaves the
   gate. *)
FinishPrepare(th) ==
  /\ At(th, "finish")
  /\ IF proc[th].gate THEN end_external_mutation
     ELSE finish_prepared_title(Title(th), FALSE)
  /\ EndMount(th, TRUE)
  /\ UNCHANGED <<runtimeVars, watchVars, worldVars, hook>>

(* Mutant: a failed preparation of a title that was owned before leaves its gate. *)
FailWithoutFinish(th) ==
  /\ At(th, "failed")
  /\ IF proc[th].gate THEN end_external_mutation
     ELSE IF proc[th].claimed THEN rollback_prepared_title(Title(th))
     ELSE UNCHANGED ownerVars
  /\ EndMount(th, FALSE)
  /\ UNCHANGED <<runtimeVars, watchVars, worldVars, hook>>

FailPrepare(th) ==
  /\ At(th, "failed")
  /\ IF proc[th].gate THEN end_external_mutation
     ELSE IF proc[th].claimed THEN rollback_prepared_title(Title(th))
     ELSE finish_prepared_title(Title(th), TRUE)
  /\ EndMount(th, FALSE)
  /\ UNCHANGED <<runtimeVars, watchVars, worldVars, hook>>

-----------------------------------------------------------------------------
(* release_title_runtime_expected *)

(* Where a thread continues after a release, or after it was refused. *)
AfterRelease(th) ==
  IF proc[th].next # NoTitle
  THEN [Idle EXCEPT !.pc = "claim", !.launch = TRUE, !.title = proc[th].next]
  ELSE IF th = "service" THEN [Idle EXCEPT !.pc = "reply"] ELSE Idle

EndRelease(th) == proc' = [proc EXCEPT ![th] = AfterRelease(th)]

BeginRelease(th) ==
  LET c == proc[th]
  IN  /\ At(th, "release")
      /\ \/ /\ begin_runtime_release(c.title, c.public, c.expected, has_active_game)
            /\ Goto(th, "layers")
         \/ /\ ~CanRelease(c.title, c.public, c.expected, has_active_game)
            /\ EndRelease(th)
            /\ UNCHANGED ownerVars
      /\ UNCHANGED <<runtimeVars, watchVars, worldVars, hook>>

(* The title's layers, under the mount lock; a busy stack ends the attempt. *)
UnmountTitleLayers(th) ==
  LET t == Title(th)
  IN  /\ At(th, "layers")
      /\ lock = Nobody
      /\ \/ /\ ~is_protected(t) /\ t \notin titles \cap BusyTitles
            /\ titles' = titles \ {t}
            /\ lock' = th
            /\ Goto(th, "chain")
         \/ /\ UNCHANGED <<titles, lock>>
            /\ proc' = [proc EXCEPT ![th].pc = "busy", ![th].ok = FALSE]
      /\ UNCHANGED <<ownerVars, images, watchVars, worldVars, hook>>

(* read_other_owned_image_chain: the first owner that is another title *)
OtherOwner(t) ==
  IF prepared.title_id \notin {t, NoTitle} THEN prepared.title_id
  ELSE IF outgoing.title_id \notin {t, NoTitle} THEN outgoing.title_id
  ELSE NoTitle

(* release_backing_image decides which layers go: none that the other owner
   uses, none that is protected. *)
ChooseImages(th) ==
  LET t        == Title(th)
      retained == IF OtherOwner(t) = NoTitle THEN {} ELSE chain[OtherOwner(t)]
      layers   == chain[t] \ retained
  IN  /\ At(th, "chain")
      /\ proc' = [proc EXCEPT ![th].pc = "detach",
                              ![th].victims = layers \ ProtectedImages,
                              ![th].ok = layers \cap ProtectedImages = {}]
      /\ UNCHANGED <<ownerVars, runtimeVars, watchVars, worldVars, hook>>

DetachImages(th) ==
  /\ At(th, "detach")
  /\ \E gone \in SUBSET (proc[th].victims \ BusyImages) :
       /\ images' = images \ gone
       /\ proc' = [proc EXCEPT ![th].pc = "busy", ![th].victims = {},
                               ![th].ok = @ /\ gone = proc[th].victims]
  /\ lock' = Nobody
  /\ UNCHANGED <<ownerVars, titles, watchVars, worldVars, hook>>

(* Up to five attempts; the owner is forgotten even when the release failed. *)
RetryRelease(th) ==
  /\ At(th, "busy")
  /\ ~proc[th].ok /\ ~proc[th].public
  /\ proc' = [proc EXCEPT ![th].pc = "layers", ![th].ok = TRUE]
  /\ UNCHANGED <<ownerVars, runtimeVars, watchVars, worldVars, hook>>

ForgetOwner(th) ==
  /\ At(th, "busy")
  /\ clear_owned_title(Title(th))
  /\ Goto(th, "released")
  /\ UNCHANGED <<runtimeVars, watchVars, worldVars, hook>>

FinishRelease(th) ==
  /\ At(th, "released")
  /\ end_runtime_release(Title(th))
  /\ EndRelease(th)
  /\ UNCHANGED <<runtimeVars, watchVars, worldVars, hook>>

-----------------------------------------------------------------------------
(* The service thread and its client, the hook in SceShellCore. *)

(* phase of the hook's call and its title; fresh, when at LAUNCH no earlier process
   of the title and no other call for it was left, and granted, when LAUNCH was
   answered 0 *)
HookIdle == [phase |-> "idle", title |-> NoTitle, fresh |-> FALSE, granted |-> FALSE]

Settled(t) ==
  /\ game.title_id # t
  /\ \A p \in alive \cup execs \cup exits : process[p] # t

(* handle_launch_request up to the abandoned launch *)
LaunchRequest ==
  /\ hook = HookIdle
  /\ \E t \in Titles :
       /\ Relaunch \/ Settled(t)
       /\ set_pending_launch(t)
       /\ StartCall("service", [Idle EXCEPT !.pc = "abandon", !.title = t, !.launch = TRUE])
       /\ hook' = [HookIdle EXCEPT !.phase = "launch", !.title = t,
                     !.fresh = Settled(t) /\ \A th \in Threads : Title(th) # t]
  /\ UNCHANGED <<runtimeVars, watchVars, worldVars>>

Abandoned(t) ==
  /\ prepared.title_id \notin {t, NoTitle}
  /\ prepared.pid = 0 /\ prepared.app_id = 0 /\ launch_pending
  /\ ~prepare_in_progress /\ ~external_mutation_in_progress
  /\ outgoing = NoOwner /\ releasing_title_id = NoTitle
  /\ pending_launch_title_id # prepared.title_id

cleanup_abandoned_launch ==
  LET t == Title("service")
  IN  /\ At("service", "abandon")
      /\ proc' = [proc EXCEPT !["service"] =
           IF Abandoned(t)
           THEN [Idle EXCEPT !.pc = "release", !.title = prepared.title_id, !.next = t]
           ELSE [proc["service"] EXCEPT !.pc = "claim"]]
      /\ UNCHANGED <<ownerVars, runtimeVars, watchVars, worldVars, hook>>

RejectLaunch ==
  /\ At("service", "rejected")
  /\ reject_pending_launch(Title("service"))
  /\ Goto("service", "reply")
  /\ UNCHANGED <<runtimeVars, watchVars, worldVars, hook>>

(* The answer; the hook may have given up waiting for it already. *)
Reply ==
  /\ At("service", "reply")
  /\ Return("service")
  /\ hook' = CASE hook.phase = "launch" -> [hook EXCEPT !.phase = "app",
                                                       !.granted = proc["service"].ok]
               [] hook.phase = "failing" -> HookIdle
               [] OTHER -> hook
  /\ UNCHANGED <<ownerVars, runtimeVars, watchVars, worldVars>>

HookTimeout ==
  /\ HookTimesOut
  /\ hook.phase \in {"launch", "failing"}
  /\ hook' = IF hook.phase = "launch" THEN [hook EXCEPT !.phase = "app"] ELSE HookIdle
  /\ UNCHANGED <<ownerVars, runtimeVars, proc, watchVars, worldVars>>

(* handle_launch_failed_request; the hook's request waits for the listener. *)
LaunchFailedRequest ==
  LET t == hook.title
  IN  /\ hook.phase = "failed"
      /\ fail_pending_launch(t)
      /\ hook' = [hook EXCEPT !.phase = "failing"]
      /\ StartCall("service",
           [Idle EXCEPT !.title = t,
              !.pc = IF prepared.title_id # t \/ prepared.pid # 0 THEN "reply"
                     ELSE IF outgoing # NoOwner THEN "reset" ELSE "guard"])
      /\ UNCHANGED <<runtimeVars, watchVars, worldVars>>

(* sm_shellcore_release_title_runtime *)
GuardedRelease ==
  /\ At("service", "guard")
  /\ Goto("service", IF is_protected(Title("service")) THEN "reply" ELSE "release")
  /\ UNCHANGED <<ownerVars, runtimeVars, watchVars, worldVars, hook>>

(* reset_switch_title_mount keeps the images and the owner. *)
BeginReset ==
  LET t == Title("service")
  IN  /\ At("service", "reset")
      /\ \/ /\ begin_runtime_release(t, FALSE, NoOwner, has_active_game)
            /\ Goto("service", "unmount")
         \/ /\ ~CanRelease(t, FALSE, NoOwner, has_active_game)
            /\ Goto("service", "reply")
            /\ UNCHANGED ownerVars
      /\ UNCHANGED <<runtimeVars, watchVars, worldVars, hook>>

ResetTitleMount ==
  LET t == Title("service")
  IN  /\ At("service", "unmount")
      /\ lock = Nobody
      /\ titles' \in {titles} \cup (IF is_protected(t) \/ t \in BusyTitles THEN {}
                                    ELSE {titles \ {t}})
      /\ Goto("service", "released")
      /\ UNCHANGED <<ownerVars, images, lock, watchVars, worldVars, hook>>

-----------------------------------------------------------------------------
(* The watcher. *)

(* same_application_identity: the title, or an app id that is unknown *)
IsHandoff(p) == game # NoGame /\ game.title_id = process[p] /\ game.pid # p

(* dispatch_game_launch: a stopped game of another application is finalized
   first; a handoff that finds its runtime intact needs no preparation. *)
DispatchLaunch(p) ==
  LET t == process[p]
  IN  /\ p \in execs \cap alive
      /\ ~IsHandoff(p) => ~game.leaving
      /\ StartCall("watcher",
           [Idle EXCEPT !.title = t, !.pid = p, !.launch = TRUE,
              !.pc = IF IsHandoff(p) /\ Owned(t) /\ t \in titles THEN "bind" ELSE "claim"])
      /\ UNCHANGED <<ownerVars, runtimeVars, watchVars, worldVars, hook>>

(* Of the other execs those already read into the pending table are dropped with
   it, those still in the kernel's queue are kept. *)
ClearPending(others) == SUBSET others

(* Binding publishes the game and ends the search for it. *)
BindGame ==
  LET t == Title("watcher")
      p == proc["watcher"].pid
  IN  /\ At("watcher", "bind")
      /\ \/ /\ \E app \in AppInfo : bind_prepared_app(t, app, p, t \in Managed)
            /\ game' = [pid |-> p, title_id |-> t, leaving |-> FALSE]
            /\ execs' \in ClearPending(execs \ {p})
            /\ Return("watcher")
         \/ /\ ~CanBind(t, t \in Managed)
            /\ Goto("watcher", "defer")
            /\ UNCHANGED <<ownerVars, game, execs>>
      /\ UNCHANGED <<runtimeVars, exits, worldVars, hook>>

(* defer_confirmed_game_launch_retry: the launch alone stays pending. *)
DeferLaunch ==
  LET p == proc["watcher"].pid
  IN  /\ At("watcher", "defer")
      /\ execs' \in {{p} \cup kept : kept \in ClearPending(execs \ {p})}
      /\ Return("watcher")
      /\ UNCHANGED <<ownerVars, runtimeVars, game, exits, worldVars, hook>>

(* A deferred launch expires, or its process has stopped meanwhile. *)
DropLaunch(p) ==
  /\ At("watcher", "idle")
  /\ p \in execs
  /\ execs' = execs \ {p}
  /\ UNCHANGED <<ownerVars, runtimeVars, proc, game, exits, worldVars, hook>>

(* handle_game_exit: the published game enters the handoff window, any other
   process is finalized at once. *)
HandleExit(p) ==
  /\ At("watcher", "idle")
  /\ p \in exits
  /\ exits' = exits \ {p}
  /\ execs' = execs \ {p}
  /\ IF game.pid = p
     THEN game' = [game EXCEPT !.leaving = TRUE] /\ UNCHANGED ownerVars
     ELSE note_game_exit(p) /\ UNCHANGED game
  /\ UNCHANGED <<runtimeVars, proc, worldVars, hook>>

(* Mutant: the exit forgets the owner at once instead of leaving it to a release. *)
FinalizeForgets ==
  /\ At("watcher", "idle")
  /\ game.leaving
  /\ clear_owned_title(game.title_id)
  /\ game' = NoGame
  /\ UNCHANGED <<runtimeVars, proc, execs, exits, worldVars, hook>>

(* finalize_pending_game_exit, when the window closes *)
FinalizeExit ==
  /\ At("watcher", "idle")
  /\ game.leaving
  /\ note_game_exit(game.pid)
  /\ game' = NoGame
  /\ UNCHANGED <<runtimeVars, proc, execs, exits, worldVars, hook>>

(* sm_shellcore_service_release_exited_titles, one exited owner at a time *)
ReleaseExited ==
  /\ \E o \in {prepared, outgoing} :
       /\ o.game_exited
       /\ StartCall("watcher", [Idle EXCEPT !.pc = "release", !.title = o.title_id,
                                            !.expected = o])
  /\ UNCHANGED <<ownerVars, runtimeVars, watchVars, worldVars, hook>>

-----------------------------------------------------------------------------
(* The worker. *)

(* sm_shellcore_mount_title_runtime: beside an active game the title is mounted
   under the mutation gate and takes no owner slot. *)
MountRequest ==
  /\ "mount" \in Jobs
  /\ \E t \in Managed :
       StartCall("worker", [Idle EXCEPT !.title = t,
                              !.pc = IF has_active_game THEN "enter" ELSE "claim"])
  /\ UNCHANGED <<ownerVars, runtimeVars, watchVars, worldVars, hook>>

EnterMount ==
  /\ At("worker", "enter")
  /\ IF CanMutate
     THEN /\ begin_external_mutation
          /\ proc' = [proc EXCEPT !["worker"].pc = "inactive", !["worker"].gate = TRUE]
     ELSE Return("worker") /\ UNCHANGED ownerVars
  /\ UNCHANGED <<runtimeVars, watchVars, worldVars, hook>>

(* title_runtime_is_protected: the title, its source or one of its layers *)
title_runtime_is_protected(t) == is_protected(t) \/ chain[t] \cap ProtectedImages # {}

CheckInactive ==
  LET t == Title("worker")
  IN  /\ At("worker", "inactive")
      /\ Goto("worker", IF background_work_blocked \/ title_runtime_is_protected(t)
                        THEN "failed" ELSE "images")
      /\ UNCHANGED <<ownerVars, runtimeVars, watchVars, worldVars, hook>>

(* sm_shellcore_unmount_title_runtime *)
UnmountRequest ==
  /\ "unmount" \in Jobs
  /\ ~(has_active_game /\ background_work_blocked)
  /\ \E t \in Managed :
       /\ ~title_runtime_is_protected(t)
       /\ StartCall("worker", [Idle EXCEPT !.pc = "release", !.title = t, !.public = TRUE])
  /\ UNCHANGED <<ownerVars, runtimeVars, watchVars, worldVars, hook>>

ScanRequest ==
  /\ "scan" \in Jobs
  /\ StartCall("worker", [Idle EXCEPT !.pc = "gate"])
  /\ UNCHANGED <<ownerVars, runtimeVars, watchVars, worldVars, hook>>

(* A scan cycle without the gate is skipped. *)
EnterScan ==
  /\ At("worker", "gate")
  /\ IF CanMutate
     THEN /\ begin_external_mutation
          /\ proc' = [proc EXCEPT !["worker"].pc = "sweep", !["worker"].gate = TRUE]
     ELSE Return("worker") /\ UNCHANGED ownerVars
  /\ UNCHANGED <<runtimeVars, watchVars, worldVars, hook>>

(* release_scan_runtime_mounts: all unprotected title stacks, then all
   unprotected images, under the mount lock. *)
BeginSweep ==
  /\ At("worker", "sweep")
  /\ lock = Nobody
  /\ IF background_work_blocked
     THEN Goto("worker", "done") /\ UNCHANGED lock
     ELSE /\ lock' = "worker"
          /\ proc' = [proc EXCEPT !["worker"].pc = "stacks",
                        !["worker"].victims = {t \in titles : ~is_protected(t)}]
  /\ UNCHANGED <<ownerVars, titles, images, watchVars, worldVars, hook>>

SweepTitles ==
  /\ At("worker", "stacks")
  /\ \E gone \in SUBSET (proc["worker"].victims \ BusyTitles) :
       /\ titles' = titles \ gone
       /\ IF gone = proc["worker"].victims
          THEN /\ proc' = [proc EXCEPT !["worker"].pc = "sources",
                             !["worker"].victims = images \ ProtectedImages]
               /\ UNCHANGED lock
          ELSE /\ proc' = [proc EXCEPT !["worker"].pc = "done", !["worker"].victims = {}]
               /\ lock' = Nobody
  /\ UNCHANGED <<ownerVars, images, watchVars, worldVars, hook>>

SweepImages ==
  /\ At("worker", "sources")
  /\ \E gone \in SUBSET (proc["worker"].victims \ BusyImages) : images' = images \ gone
  /\ lock' = Nobody
  /\ proc' = [proc EXCEPT !["worker"].pc = "done", !["worker"].victims = {}]
  /\ UNCHANGED <<ownerVars, titles, watchVars, worldVars, hook>>

(* The scan cycle gives the gate back. *)
EndScan ==
  /\ At("worker", "done")
  /\ end_external_mutation
  /\ Return("worker")
  /\ UNCHANGED <<runtimeVars, watchVars, worldVars, hook>>

-----------------------------------------------------------------------------
(* The environment: launchApp, and the life of the game processes. *)

Runnable(t) == t \in Managed => t \in titles /\ chain[t] \subseteq images

Start(t) ==
  \E p \in Pids :
    /\ process[p] = NoTitle
    /\ process' = [process EXCEPT ![p] = t]
    /\ alive' = alive \cup {p}
    /\ execs' = execs \cup {p}

(* launchApp starts the title, resumes its running process, or fails. *)
LaunchApp ==
  /\ hook.phase = "app"
  /\ \/ /\ Runnable(hook.title)
        /\ Start(hook.title)
        /\ hook' = HookIdle
     \/ /\ \E p \in alive : process[p] = hook.title
        /\ hook' = HookIdle
        /\ UNCHANGED <<execs, worldVars>>
     \/ /\ hook' = [hook EXCEPT !.phase = "failed"]
        /\ UNCHANGED <<execs, worldVars>>
  /\ UNCHANGED <<ownerVars, runtimeVars, proc, game, exits>>

(* ExitSpawn: a game starts its replacement process, and exits later. *)
ReplaceProcess ==
  /\ \E p \in alive : Start(process[p])
  /\ UNCHANGED <<ownerVars, runtimeVars, proc, game, exits, hook>>

ExitProcess ==
  /\ \E p \in alive :
       /\ alive' = alive \ {p}
       /\ exits' = exits \cup {p}
  /\ UNCHANGED <<ownerVars, runtimeVars, proc, game, execs, process, hook>>

-----------------------------------------------------------------------------
ServiceInit ==
  /\ OwnersInit
  /\ titles = {} /\ images = {} /\ lock = Nobody
  /\ proc = [th \in Threads |-> Idle]
  /\ game = NoGame
  /\ process = [p \in Pids |-> NoTitle]
  /\ alive = {} /\ execs = {} /\ exits = {}
  /\ hook = HookIdle

MountStep(th) ==
  Claim(th) \/ CheckMounted(th) \/ PrepareImages(th) \/ PrepareTitle(th)
    \/ FinishPrepare(th) \/ FailPrepare(th)

ReleaseStep(th) ==
  BeginRelease(th) \/ UnmountTitleLayers(th) \/ ChooseImages(th) \/ DetachImages(th)
    \/ RetryRelease(th) \/ ForgetOwner(th) \/ FinishRelease(th)

ServiceStep ==
  cleanup_abandoned_launch \/ RejectLaunch \/ Reply \/ LaunchFailedRequest
    \/ GuardedRelease \/ BeginReset \/ ResetTitleMount

WatcherStep ==
  \/ \E p \in Pids : DispatchLaunch(p) \/ DropLaunch(p) \/ HandleExit(p)
  \/ BindGame \/ DeferLaunch \/ FinalizeExit \/ ReleaseExited

WorkerStep ==
  MountRequest \/ EnterMount \/ CheckInactive \/ UnmountRequest \/ ScanRequest
    \/ EnterScan \/ BeginSweep \/ SweepTitles \/ SweepImages \/ EndScan

Environment == LaunchRequest \/ LaunchApp \/ ReplaceProcess \/ ExitProcess \/ HookTimeout

ServiceNext ==
  \/ \E th \in Threads : MountStep(th) \/ ReleaseStep(th)
  \/ ServiceStep \/ WatcherStep \/ WorkerStep \/ Environment

ServiceSpec == ServiceInit /\ [][ServiceNext]_serviceVars

(* Every thread goes on with the call it is in, and a release gives up after five
   attempts.  Each turn of the watcher's loop drains its events, closes an expired
   handoff window and tries the exited owners, so none of them is passed over
   forever.  Launches, exits and jobs need never happen. *)
ServiceFairness ==
  /\ \A th \in Threads : /\ WF_serviceVars(MountStep(th) \/ ReleaseStep(th))
                         /\ SF_serviceVars(ForgetOwner(th))
  /\ WF_serviceVars(ServiceStep) /\ WF_serviceVars(LaunchApp)
  /\ WF_serviceVars(BindGame \/ DeferLaunch)
  /\ \A p \in Pids : /\ SF_serviceVars(HandleExit(p))
                     /\ SF_serviceVars(DispatchLaunch(p) \/ DropLaunch(p))
  /\ SF_serviceVars(FinalizeExit) /\ SF_serviceVars(ReleaseExited)

ServiceFairSpec == ServiceSpec /\ ServiceFairness

-----------------------------------------------------------------------------
(* Values have their types; runtime_mount_state_lock is held only inside a release
   or a sweep, never across a return. *)
ServiceTypeOK ==
  /\ OwnersTypeOK
  /\ titles \subseteq Titles /\ images \subseteq Images
  /\ lock \in Threads \cup {Nobody}
  /\ lock # Nobody => proc[lock].pc \in {"chain", "detach", "stacks", "sources"}
  /\ alive \cup execs \cup exits \subseteq {p \in Pids : process[p] # NoTitle}

(* The threads use the ownership table as ShellcoreOwners describes it: every step
   is one of its critical sections or leaves the table alone, and an owner is only
   cleared inside a release.  What is proved of OwnersSpec thus holds here. *)
ImplementsOwners == OwnersSpec

(* What a running game that was bound keeps from one state to the next: an owner
   slot with its title that is still live. *)
OwnerKeptStep ==
  \A o \in {prepared, outgoing} :
    Live(o) /\ o.pid \in alive =>
      \E n \in {prepared', outgoing'} : n.title_id = o.title_id /\ Live(n)

(* Only the exit of its process ends the ownership of a game that was bound, as the
   comment in begin_runtime_release says. *)
RunningGameKeepsOwner == [][OwnerKeptStep]_serviceVars

(* The same for every step but the rollback of a failed preparation: no release,
   abandoned launch, game switch or API unmount forgets the owner of a running
   game. *)
OnlyRollbackDropsOwner ==
  [][OwnerKeptStep \/ \E th \in Threads : At(th, "failed") /\ proc'[th] # proc[th]]_serviceVars

(* A launch that was answered 0 finds its runtime: between the answer and launchApp
   no thread takes the title's stack or an image of its chain away.  Excepted is a
   title whose earlier process is still to be bound or to exit, as that process
   takes over the pending launch, and one that another call was just mounting. *)
LaunchFindsRuntime ==
  hook.phase = "app" /\ hook.granted /\ hook.fresh => Runnable(hook.title)

(* The runtime of a game that exited is released: unless launches go on forever, no
   owner stays in the table once its exit was noted. *)
ExitedRuntimeReleased ==
  \/ []<>(hook # HookIdle)
  \/ \A t \in Titles :
       (\E o \in {prepared, outgoing} : o.title_id = t /\ o.game_exited)
         ~> ~(\E o \in {prepared, outgoing} : o.title_id = t /\ o.game_exited)

(* Every gate that is up is held by a thread that will lower it. *)
GatesAreHeld ==
  /\ prepare_in_progress =>
       \E th \in Threads : /\ proc[th].pc \in {"mounted", "images", "title", "finish", "failed"}
                           /\ Title(th) = prepared.title_id /\ ~proc[th].gate
  /\ external_mutation_in_progress => proc["worker"].gate
  /\ releasing_title_id # NoTitle =>
       \E th \in Threads :
         /\ proc[th].pc \in {"layers", "chain", "detach", "busy", "released", "unmount"}
         /\ Title(th) = releasing_title_id
=============================================================================
