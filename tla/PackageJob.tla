----------------------------- MODULE PackageJob -----------------------------
(***************************************************************************)
(* Native package installation through the same job slot as StorageJob: the  *)
(* package queue, the handlers that edit and start it, and                   *)
(* package_install_thread, which submits each package to the console's       *)
(* installer on a helper thread, polls it, and on failure may call           *)
(* CancelInstall, which removes the base application.  The installer itself  *)
(* (AppInstUtil) is external: it accepts, refuses, completes or fails.       *)
(***************************************************************************)
EXTENDS StorageJob

CONSTANTS Packages,          \* package paths
          TitleOf, KindOf,   \* Packages -> titles, {"base", "patch"}
          Remasters,         \* base packages installed as patches over a base
          SM_PKG_QUEUE_MAX,
          MaxBatch           \* bound: entries of one running batch

VARIABLES
  starting,   \* the head a queue "start" request read before it launches, or "none"
  native,     \* the installer's task: [submit, type, task, title]
  installed,  \* titles whose package base is present
  confirmed   \* titles present at the start or reported as installed

pkgVars == <<starting, native, installed, confirmed>>
jobVars == <<slot, workers, trees, batch, power, stop, starting, native, installed, confirmed>>

Titles == {TitleOf[p] : p \in Packages}
NoTask == [submit |-> "no", type |-> "none", task |-> "none", title |-> "none"]

PackageInit ==
  /\ JobInit
  /\ starting = "none" /\ native = NoTask
  /\ installed \in SUBSET Titles /\ confirmed = installed

package_base_installed(p) == TitleOf[p] \in installed
Entries == {batch.queue[i] : i \in DOMAIN batch.queue}

package_base_queued_locked(p) ==
  \/ /\ slot.op \in {"pkg", "stream"} /\ storage_job_is_active /\ ~slot.cancel
     /\ slot.kind = "base" /\ slot.pkg # "none" /\ TitleOf[slot.pkg] = TitleOf[p]
  \/ \E q \in Entries : KindOf[q] = "base" /\ TitleOf[q] = TitleOf[p]

-----------------------------------------------------------------------------
(* handle_package_queue                                                      *)

enqueue_package_locked(p) ==
  /\ slot.accepting /\ ~(storage_job_is_active /\ (slot.cancel \/ slot.op = "browse"))
  /\ KindOf[p] = "base" => ~package_base_installed(p) \/ p \in Remasters
  /\ KindOf[p] # "base" => package_base_installed(p) \/ package_base_queued_locked(p)
  /\ ~(slot.op \in {"pkg", "stream"} /\ storage_job_is_active /\ slot.pkg = p)
  /\ p \notin Entries
  /\ Len(batch.queue) < SM_PKG_QUEUE_MAX
  /\ batch.running => batch.total < MaxBatch
  /\ batch' = [batch EXCEPT !.queue = Append(@, p),
                            !.total = IF batch.running THEN @ + 1 ELSE @]
  /\ UNCHANGED <<slot, workers, trees, power, stop, pkgVars>>

(* Every total is corrected by what a running batch loses. *)
ReplaceQueue(queue) ==
  batch' = [batch EXCEPT !.queue = queue,
              !.total = IF batch.running THEN @ - (Len(batch.queue) - Len(queue)) ELSE @]

(* The entry being installed stays. *)
clear_package_queue_locked(only_if_idle) ==
  /\ only_if_idle => slot.accepting /\ ~storage_job_is_active /\ ~batch.running
  /\ ReplaceQueue(IF batch.running THEN SubSeq(batch.queue, 1, 1) ELSE <<>>)
  /\ UNCHANGED <<slot, workers, trees, power, stop, pkgVars>>

(* "remove": a base takes the updates that need it along, never the entry    *)
(* being installed.                                                          *)
RemovePackage(i) ==
  LET gone == batch.queue[i]
      dependents == KindOf[gone] = "base" /\ ~package_base_installed(gone)
      keeps(k) == /\ k # i
                  /\ \/ ~dependents
                     \/ k = 1 /\ batch.running
                     \/ TitleOf[batch.queue[k]] # TitleOf[gone]
  IN  /\ i \in DOMAIN batch.queue
      /\ ~(i = 1 /\ batch.running)
      /\ LET kept == SelectSeq([k \in DOMAIN batch.queue |-> k], keeps)
         IN  ReplaceQueue([k \in DOMAIN kept |-> batch.queue[kept[k]]])
      /\ UNCHANGED <<slot, workers, trees, power, stop, pkgVars>>

(* "start" reads the head, releases the mutex and resolves the package. *)
StartQueue ==
  /\ starting = "none"
  /\ batch.queue # <<>> /\ ~storage_job_is_active
  /\ starting' = Head(batch.queue)
  /\ UNCHANGED <<slot, workers, trees, batch, power, stop, native, installed, confirmed>>

-----------------------------------------------------------------------------
(* handle_package_install: from the queue, by path, or streamed.             *)

LaunchPackage(p, how) ==
  /\ ~power.sleeping                       \* runtime_mutation_block_reason
  /\ how # "stream" =>
       /\ KindOf[p] # "base" => package_base_installed(p)
       /\ package_base_installed(p) /\ KindOf[p] = "base" => p \in Remasters
  /\ slot.accepting /\ ~storage_job_is_active /\ slot.id < MaxJobs
  /\ how = "queue" => batch.queue # <<>> /\ Head(batch.queue) = p
  /\ how = "path" => p \notin Entries
  /\ LET j == slot.id + 1
     IN  \E started \in BOOLEAN :
           /\ slot' = [slot EXCEPT !.id = j, !.op = IF how = "stream" THEN "stream" ELSE "pkg",
                         !.state = "PREPARING", !.cancel = FALSE, !.pkg = p,
                         !.kind = IF how = "stream" THEN "unknown" ELSE KindOf[p]]
           /\ Go(j, IF started THEN [pc |-> "p_begin"] ELSE [pc |-> "finish", status |-> "failed"])
           /\ batch' = IF how = "queue" /\ started
                       THEN [batch EXCEPT !.running = TRUE, !.completed = 0, !.total = Len(batch.queue)]
                       ELSE [batch EXCEPT !.running = FALSE]

handle_package_install(p, how) ==
  /\ \/ how = "queue" /\ starting = p /\ starting' = "none"
     \/ how # "queue" /\ UNCHANGED starting
  /\ LaunchPackage(p, how)
  /\ UNCHANGED <<trees, power, stop, native, installed, confirmed>>

(* The queue's start is refused: the head, the base or the slot has changed, *)
(* a game is active or the package no longer parses.                         *)
StartRefused ==
  /\ starting # "none"
  /\ starting' = "none"
  /\ UNCHANGED <<slot, workers, trees, batch, power, stop, native, installed, confirmed>>

-----------------------------------------------------------------------------
(* package_install_thread                                                    *)

Packaged == <<trees, power, stop, starting>>

(* package_install_cancelled: cancel, shutdown, sleep; a changed source, a   *)
(* lost stream or 900 idle seconds fail it at any time.                      *)
package_install_cancelled(j) == storage_operation_cancelled(j)

FailPackage(j, status) == Go(j, [pc |-> "p_cleanup", status |-> status])

(* Gates are taken once per batch. *)
PackageBegins(j) ==
  /\ At(j, "p_begin")
  /\ IF package_install_cancelled(j) THEN FailPackage(j, "cancelled")
     ELSE \/ FailPackage(j, "failed")                 \* scanner_busy, runtime_busy, game_active
          \/ Go(j, [pc |-> "p_parse", scanner |-> TRUE, shellcore |-> TRUE])
  /\ native' = NoTask
  /\ UNCHANGED <<slot, batch, installed, confirmed>> /\ UNCHANGED Packaged

(* A remaster over an installed base is handled as a patch. *)
EffectiveKind(p) ==
  IF KindOf[p] = "base" /\ package_base_installed(p) /\ p \in Remasters THEN "patch" ELSE KindOf[p]

PackageParses(j) ==
  /\ At(j, "p_parse")
  /\ LET p == slot.pkg
         kind == EffectiveKind(p)
     IN  \/ FailPackage(j, "failed") /\ UNCHANGED slot
         \/ /\ kind = "base" <=> ~package_base_installed(p)
            /\ slot' = [slot EXCEPT !.kind = kind, !.state = "INSTALLING"]
            /\ Go(j, [pc |-> "p_submit"])
  /\ UNCHANGED <<batch, native, installed, confirmed>> /\ UNCHANGED Packaged

PackageSubmits(j) ==
  /\ At(j, "p_submit")
  /\ IF package_install_cancelled(j)
     THEN FailPackage(j, "cancelled") /\ UNCHANGED native
     ELSE \/ FailPackage(j, "failed") /\ UNCHANGED native
          \/ /\ native' = [NoTask EXCEPT !.submit = "running", !.title = TitleOf[slot.pkg]]
             /\ Go(j, [pc |-> "p_wait"])
  /\ UNCHANGED <<slot, batch, installed, confirmed>> /\ UNCHANGED Packaged

(* The wait for the submission, and the checks of what it returned. *)
PackageWaits(j) ==
  /\ At(j, "p_wait")
  /\ \/ package_install_cancelled(j) /\ native.submit = "running" /\ FailPackage(j, "cancelled")
     \/ native.submit = "refused" /\ FailPackage(j, "failed")
     \/ native.submit = "accepted" /\ (Go(j, [pc |-> "p_poll"]) \/ FailPackage(j, "failed"))
  /\ UNCHANGED <<slot, batch, native, installed, confirmed>> /\ UNCHANGED Packaged

PackagePolls(j) ==
  /\ At(j, "p_poll")
  /\ \/ package_install_cancelled(j) /\ FailPackage(j, "cancelled")
     \/ native.task = "done" /\ Go(j, [pc |-> "p_cleanup"])
     \/ FailPackage(j, "failed")                      \* EIO, EPROTO, ETIMEDOUT
  /\ UNCHANGED <<slot, batch, native, installed, confirmed>> /\ UNCHANGED Packaged

CancelsAnyKind(j) ==
  /\ workers[j].status # "ok" /\ native.submit # "no"
  /\ native.submit = "running" \/ (native.submit = "accepted" /\ native.type = "base")

(* CancelInstall addresses the base application: only for a base package     *)
(* whose task is a base task or is still being submitted.                    *)
CancelsBase(j) ==
  /\ workers[j].status # "ok" /\ native.submit # "no"
  /\ slot.kind = "base"
  /\ native.submit = "running" \/ (native.submit = "accepted" /\ native.type = "base")

(* Stream and server are stopped, native work is cancelled. *)
PackageCleansUp(j) ==
  /\ At(j, "p_cleanup")
  /\ IF CancelsBase(j)
     THEN \E ok \in BOOLEAN :
            /\ installed' = IF ok THEN installed \ {TitleOf[slot.pkg]} ELSE installed
            /\ native' = IF ok THEN [native EXCEPT !.task = "cancelled"] ELSE native
     ELSE UNCHANGED <<installed, native>>
  /\ Go(j, [pc |-> "p_next"])
  /\ UNCHANGED <<slot, batch, confirmed>> /\ UNCHANGED Packaged

(* The submission is joined; the head leaves the queue only after confirmed  *)
(* completion, and the next package is prepared under the same mutex.        *)
PackageAdvances(j) ==
  /\ At(j, "p_next")
  /\ native.submit # "running"
  /\ LET ok == workers[j].status = "ok"
         queue == IF ok /\ batch.running THEN Tail(batch.queue) ELSE batch.queue
         completed == batch.completed + IF ok /\ batch.running THEN 1 ELSE 0
         halted == slot.cancel \/ ~slot.accepting \/ RuntimeCancelled
         next == ok /\ batch.running /\ queue # <<>> /\ ~halted
     IN  /\ confirmed' = IF ok THEN confirmed \cup {TitleOf[slot.pkg]} ELSE confirmed
         /\ batch' = [batch EXCEPT !.queue = queue, !.completed = completed, !.running = next]
         /\ IF next
            THEN /\ slot' = [slot EXCEPT !.pkg = Head(queue), !.kind = KindOf[Head(queue)],
                                         !.state = "PREPARING"]
                 /\ Go(j, [pc |-> "p_begin"])
            ELSE /\ UNCHANGED slot
                 /\ Go(j, [pc |-> "gates",
                           status |-> IF ok /\ batch.running /\ queue # <<>> THEN "cancelled"
                                      ELSE workers[j].status])
  /\ UNCHANGED <<native, installed>> /\ UNCHANGED Packaged

PackageWorker(j) ==
  \/ PackageBegins(j) \/ PackageParses(j) \/ PackageSubmits(j) \/ PackageWaits(j)
  \/ PackagePolls(j) \/ PackageCleansUp(j) \/ PackageAdvances(j)

(* The console's installer. *)
NativeReturns ==
  /\ native.submit = "running"
  /\ \/ native' = [native EXCEPT !.submit = "refused"]
     \/ \E type \in {"base"} \cup (IF native.title \in installed THEN {"patch"} ELSE {}) :
          native' = [native EXCEPT !.submit = "accepted", !.type = type,
                                   !.task = IF @ = "cancelled" THEN @ ELSE "running"]
  /\ UNCHANGED <<slot, workers, trees, batch, power, stop, starting, installed, confirmed>>

NativeCompletes ==
  /\ native.task = "running"
  /\ native' = [native EXCEPT !.task = "done"]
  /\ installed' = IF native.type = "base" THEN installed \cup {native.title} ELSE installed
  /\ UNCHANGED <<slot, workers, trees, batch, power, stop, starting, confirmed>>

-----------------------------------------------------------------------------
QueueNext ==
  \/ \E p \in Packages : enqueue_package_locked(p)
  \/ \E b \in BOOLEAN : clear_package_queue_locked(b)
  \/ \E i \in DOMAIN batch.queue : RemovePackage(i)
  \/ StartQueue \/ StartRefused
  \/ \E p \in Packages, how \in {"queue", "path", "stream"} : handle_package_install(p, how)

JobWorker == \E j \in JobIds : (StorageWorker(j) /\ UNCHANGED pkgVars) \/ PackageWorker(j)

PackageNext ==
  \/ SlotNext /\ UNCHANGED pkgVars
  \/ QueueNext \/ JobWorker \/ NativeReturns \/ NativeCompletes

PackageSpec == PackageInit /\ [][PackageNext]_jobVars

-----------------------------------------------------------------------------
(* Cancelling, failing or sleeping through an installation never removes a    *)
(* base application that was there before or was already reported installed:  *)
(* CancelInstall is for a base this job itself started ("Never use it to      *)
(* clean up an update", package_install_thread).                              *)
InstalledBaseSurvives == confirmed \subseteq installed

(* Shutdown waits for the job in progress and is never stuck: until the wait  *)
(* ends the worker, the installer's call or the wait itself can go on         *)
(* (stop_storage_job).                                                        *)
ShutdownNeverSticks ==
  stop = "waiting" => ENABLED (\/ JobWorker \/ NativeReturns
                               \/ ShutdownReturns /\ UNCHANGED pkgVars)
=============================================================================
