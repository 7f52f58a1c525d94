----------------------------- MODULE StorageJob -----------------------------
(***************************************************************************)
(* The one storage job slot of the HTTP API (sm_api_service.c) and the       *)
(* worker thread that moves, copies, deletes, unpacks or installs a game     *)
(* source (sm_storage.c).  Requests, cancellation, rest mode, shutdown and a *)
(* reload of the listener meet the worker at every step; every file          *)
(* operation may fail.  A tree is "none", "part" (incomplete), "full" or     *)
(* "prev" (the previous version of a replaced directory).                    *)
(***************************************************************************)
EXTENDS Naturals, FiniteSets, Sequences, TLC

CONSTANTS MaxJobs,      \* jobs accepted in one behaviour
          MaxSleeps,    \* times the console enters rest mode
          StorageOps    \* the operations requested: "move", "copy", "delete", "unpack",
                        \* "unpackdel", "install", "backport", "browse"

VARIABLES
  slot,       \* g_storage_job: [id, state, op, cancel, accepting, pkg, kind]
  workers,    \* the worker thread of each job: [pc, status, scanner, shellcore, mounted, keep]
  trees,      \* each job's trees: [src, dst, new, old]; had: dst existed
  batch,      \* the package queue: [queue, running, completed, total]
  power,      \* [sleeping, notify, sleeps]
  stop        \* shutdown: "no", "requested" (should_stop_requested), "waiting", "stopped"

slotVars == <<slot, workers, trees, batch, power, stop>>

JobIds == 1 .. MaxJobs
Unpacks == {"unpack", "unpackdel"}
Deletes == {"delete", "browse"}       \* a title's source, a path of the file browser
ActiveStates == {"PREPARING", "MEASURING", "TRANSFERRING", "DELETING", "FINALIZING", "INSTALLING"}
storage_job_is_active == slot.state \in ActiveStates
storage_job_is_cancellable ==
  slot.state \in {"PREPARING", "MEASURING", "TRANSFERRING", "INSTALLING"}

should_stop_requested == stop # "no"
RuntimeCancelled == should_stop_requested \/ power.sleeping
storage_job_cancelled(j) == slot.id # j \/ slot.cancel
storage_operation_cancelled(j) == RuntimeCancelled \/ storage_job_cancelled(j)

Idle == [pc |-> "none", status |-> "ok", scanner |-> FALSE, shellcore |-> FALSE,
         mounted |-> FALSE, keep |-> FALSE]
NoTrees == [src |-> "none", dst |-> "none", new |-> "none", old |-> "none",
            had |-> FALSE]

JobInit ==
  /\ slot = [id |-> 0, state |-> "IDLE", op |-> "none", cancel |-> FALSE,
             accepting |-> TRUE, pkg |-> "none", kind |-> "none"]
  /\ workers = [j \in JobIds |-> Idle]
  /\ trees = [j \in JobIds |-> NoTrees]
  /\ batch = [queue |-> <<>>, running |-> FALSE, completed |-> 0, total |-> 0]
  /\ power = [sleeping |-> FALSE, notify |-> FALSE, sleeps |-> 0]
  /\ stop = "no"

At(j, pc) == workers[j].pc = pc
Go(j, change) == workers' = [workers EXCEPT ![j] = change @@ @]
SetTrees(j, change) == trees' = [trees EXCEPT ![j] = change @@ @]
(* The steps that follow a failure: every path still unmounts and releases. *)
Abort(j, status) == Go(j, [pc |-> "unmount", status |-> status])
Op(j) == slot.op

-----------------------------------------------------------------------------
(* Requests.                                                                 *)

LaunchLeavesSlot(op) ==
  /\ slot.accepting /\ ~storage_job_is_active /\ ~batch.running
  /\ op = "browse" => batch.queue = <<>>
  /\ slot.id < MaxJobs
  /\ slot' = [slot EXCEPT !.id = @ + 1, !.op = op, !.cancel = FALSE, !.kind = "none",
                          !.pkg = "none", !.state = "PREPARING"]
  /\ \E started \in BOOLEAN : Go(slot.id + 1, [pc |-> IF started THEN "begin" ELSE "done"])
  /\ trees' = [[i \in JobIds |-> NoTrees] EXCEPT ![slot.id + 1] = [NoTrees EXCEPT !.src = "full"]]
  /\ UNCHANGED <<batch, power, stop>>

(* launch_storage_job; the detached worker may fail to start.  The trees of   *)
(* earlier jobs are not followed any further.                                *)
launch_storage_job(op) ==
  /\ slot.accepting /\ ~storage_job_is_active /\ ~batch.running
  /\ op = "browse" => batch.queue = <<>>
  /\ slot.id < MaxJobs
  /\ LET j == slot.id + 1
     IN  \E started \in BOOLEAN, previous \in BOOLEAN :
           /\ slot' = [slot EXCEPT !.id = j, !.op = op, !.cancel = FALSE, !.kind = "none",
                                   !.pkg = "none", !.state = "PREPARING"]
           /\ Go(j, IF started THEN [pc |-> "begin"] ELSE [pc |-> "finish", status |-> "failed"])
           /\ previous => op = "backport"
           /\ trees' = [[i \in JobIds |-> NoTrees] EXCEPT ![j] = [NoTrees EXCEPT !.src = "full", !.had = previous,
                          !.dst = IF previous THEN "prev" ELSE "none"]]
  /\ UNCHANGED <<batch, power, stop>>

handle_storage_job_cancel ==
  /\ storage_job_is_active /\ storage_job_is_cancellable
  /\ slot' = [slot EXCEPT !.cancel = TRUE]
  /\ UNCHANGED <<workers, trees, batch, power, stop>>

(* sm_api_service_reconfigure: closed while the listener is replaced. *)
sm_api_service_reconfigure ==
  /\ stop = "no"
  /\ slot' = [slot EXCEPT !.accepting = ~@]
  /\ UNCHANGED <<workers, trees, batch, power, stop>>

(* The sleep flag is published first, the callbacks follow; a wake may come  *)
(* before them.                                                              *)
EnterSleep ==
  /\ ~power.sleeping /\ ~power.notify /\ power.sleeps < MaxSleeps
  /\ power' = [sleeping |-> TRUE, notify |-> TRUE, sleeps |-> power.sleeps + 1]
  /\ UNCHANGED <<slot, workers, trees, batch, stop>>

sm_api_service_on_sleep_change ==
  /\ power.notify
  /\ power' = [power EXCEPT !.notify = FALSE]
  /\ slot' = IF slot.op \in {"install", "pkg", "stream"} /\ storage_job_is_active
             THEN [slot EXCEPT !.cancel = TRUE] ELSE slot
  /\ UNCHANGED <<workers, trees, batch, stop>>

Wake ==
  /\ power.sleeping
  /\ power' = [power EXCEPT !.sleeping = FALSE]
  /\ UNCHANGED <<slot, workers, trees, batch, stop>>

RequestStop ==
  /\ stop = "no"
  /\ stop' = "requested"
  /\ UNCHANGED <<slot, workers, trees, batch, power>>

(* stop_storage_job: refuse, cancel what may still be cancelled, and wait.   *)
stop_storage_job ==
  /\ stop = "requested"
  /\ stop' = "waiting"
  /\ slot' = [slot EXCEPT !.accepting = FALSE,
                !.cancel = @ \/ (storage_job_is_active /\ storage_job_is_cancellable)]
  /\ UNCHANGED <<workers, trees, batch, power>>

ShutdownReturns ==
  /\ stop = "waiting" /\ ~storage_job_is_active
  /\ stop' = "stopped"
  /\ UNCHANGED <<slot, workers, trees, batch, power>>

-----------------------------------------------------------------------------
(* The worker up to the start of the transfer.                               *)

BeginJob(j) ==
  /\ At(j, "begin")
  /\ IF storage_job_cancelled(j) THEN Abort(j, "cancelled")
     ELSE \/ Abort(j, "failed")                         \* scanner_busy
          \/ Go(j, [pc |-> IF Op(j) \in Unpacks THEN "mount" ELSE "gate", scanner |-> TRUE])
  /\ UNCHANGED <<slot, trees, batch, power, stop>>

MountSource(j) ==
  /\ At(j, "mount")
  /\ \/ Abort(j, "failed")
     \/ Go(j, [pc |-> "gate", mounted |-> TRUE])
  /\ UNCHANGED <<slot, trees, batch, power, stop>>

EnterGate(j) ==
  /\ At(j, "gate")
  /\ \/ Abort(j, "failed")                              \* runtime_busy
     \/ Go(j, [pc |-> "check", shellcore |-> TRUE])
  /\ UNCHANGED <<slot, trees, batch, power, stop>>

(* Cancellation, active titles, and the step to MEASURING under the mutex.   *)
CheckJob(j) ==
  /\ At(j, "check")
  /\ IF storage_job_cancelled(j) THEN Abort(j, "cancelled") /\ UNCHANGED slot
     ELSE \/ Abort(j, "failed") /\ UNCHANGED slot       \* game_active
          \/ /\ slot' = [slot EXCEPT !.state = "MEASURING"]
             /\ Go(j, [pc |-> "measure"])
  /\ UNCHANGED <<trees, batch, power, stop>>

(* release_storage_source_runtime and the recursive measurement.             *)
MeasureJob(j) ==
  /\ At(j, "measure")
  /\ \/ storage_operation_cancelled(j) /\ Abort(j, "cancelled")
     \/ Abort(j, "failed")
     \/ Go(j, [pc |-> "decide"])
  /\ UNCHANGED <<slot, trees, batch, power, stop>>

DecideJob(j) ==
  /\ At(j, "decide")
  /\ IF Op(j) \in Deletes /\ (RuntimeCancelled \/ slot.cancel)
     THEN Abort(j, "cancelled") /\ UNCHANGED slot
     ELSE /\ slot' = [slot EXCEPT !.state = IF Op(j) \in Deletes THEN "DELETING" ELSE "TRANSFERRING"]
          /\ Go(j, [pc |-> CASE Op(j) \in Deletes -> "delete"
                              [] Op(j) = "move" -> "move"
                              [] OTHER -> "copy"])
  /\ UNCHANGED <<trees, batch, power, stop>>

-----------------------------------------------------------------------------
(* sm_storage.c: delete, copy, move, replace.                                *)

(* delete_storage_path is not interrupted once it starts; it may fail half   *)
(* way.  `field` is the tree, `then` the step after success.                 *)
DeleteTree(j, field, then) ==
  \/ SetTrees(j, field :> "none") /\ then
  \/ SetTrees(j, field :> "part") /\ Abort(j, "failed")

DeleteInterrupted(j) ==
  /\ At(j, "delete")
  /\ \/ RuntimeCancelled /\ SetTrees(j, [src |-> "part"]) /\ Abort(j, "cancelled")
     \/ DeleteTree(j, "src", Go(j, [pc |-> "unmount"]))
  /\ UNCHANGED <<slot, batch, power, stop>>

sm_storage_delete_path_progress(j) ==
  /\ At(j, "delete")
  /\ IF RuntimeCancelled THEN Abort(j, "cancelled") /\ UNCHANGED trees
     ELSE DeleteTree(j, "src", Go(j, [pc |-> "unmount"]))
  /\ UNCHANGED <<slot, batch, power, stop>>

Target(j) == IF Op(j) = "backport" THEN "new" ELSE "dst"

(* The staging directory of a replacement is removed on every path. *)
AbortCopy(j, status) ==
  Go(j, [pc |-> IF Op(j) = "backport" THEN "staging" ELSE "unmount", status |-> status])

(* sm_storage_copy_path_progress: an existing destination is refused.        *)
CopyBegins(j) ==
  /\ At(j, "copy")
  /\ \/ storage_operation_cancelled(j) /\ AbortCopy(j, "cancelled") /\ UNCHANGED trees
     \/ AbortCopy(j, "failed") /\ UNCHANGED trees
     \/ SetTrees(j, Target(j) :> "part") /\ Go(j, [pc |-> "copying"])
  /\ UNCHANGED <<slot, batch, power, stop>>

AfterCopy(j) == CASE Op(j) = "move" -> "commit"
                  [] Op(j) = "backport" -> "swap"
                  [] Op(j) = "copy" -> "unmount"
                  [] OTHER -> "finalize"

(* The copy succeeds, or its failure removes what it made; when that fails   *)
(* too, its error is the result.                                             *)
TransferEnds(j) ==
  /\ At(j, "copying")
  /\ \/ SetTrees(j, Target(j) :> "full") /\ Go(j, [pc |-> AfterCopy(j)])
     \/ /\ SetTrees(j, Target(j) :> "none")
        /\ \/ AbortCopy(j, "failed")
           \/ storage_operation_cancelled(j) /\ AbortCopy(j, "cancelled")
     \/ UNCHANGED trees /\ AbortCopy(j, "failed")
  /\ UNCHANGED <<slot, batch, power, stop>>

(* sm_storage_move_path_progress: rename, or copy and delete across devices. *)
MoveBegins(j) ==
  /\ At(j, "move")
  /\ IF storage_operation_cancelled(j) THEN Abort(j, "cancelled") /\ UNCHANGED trees
     ELSE \/ SetTrees(j, [src |-> "none", dst |-> "full"]) /\ Go(j, [pc |-> "unmount"])
          \/ Abort(j, "failed") /\ UNCHANGED trees
          \/ Go(j, [pc |-> "copy"]) /\ UNCHANGED trees            \* EXDEV
  /\ UNCHANGED <<slot, batch, power, stop>>

(* begin_storage_job_finalizing *)
BeginFinalizing(j) ==
  /\ ~storage_job_cancelled(j) /\ storage_job_is_active
  /\ slot' = [slot EXCEPT !.state = "FINALIZING"]

MoveCommits(j) ==
  /\ At(j, "commit")
  /\ IF storage_operation_cancelled(j)
     THEN Go(j, [pc |-> "discard"]) /\ UNCHANGED slot
     ELSE BeginFinalizing(j) /\ Go(j, [pc |-> "recheck"])
  /\ UNCHANGED <<trees, batch, power, stop>>

MoveRechecks(j) ==
  /\ At(j, "recheck")
  /\ Go(j, [pc |-> IF RuntimeCancelled THEN "discard" ELSE "remove"])
  /\ UNCHANGED <<slot, trees, batch, power, stop>>

(* A move cancelled after the copy removes the destination, unconditionally. *)
MoveDiscards(j) ==
  /\ At(j, "discard")
  /\ DeleteTree(j, "dst", Abort(j, "cancelled"))
  /\ UNCHANGED <<slot, batch, power, stop>>

(* sm_storage_delete_path of the source; the copy stays when it fails.       *)
RemoveSource(j) ==
  /\ At(j, "remove")
  /\ IF RuntimeCancelled THEN Abort(j, "cancelled") /\ UNCHANGED trees
     ELSE DeleteTree(j, "src", Go(j, [pc |-> "unmount"]))
  /\ UNCHANGED <<slot, batch, power, stop>>

(* sm_storage_replace_directory_progress after the copy into the staging     *)
(* directory: the previous tree is set aside, the new one renamed.           *)
SwapBegins(j) ==
  /\ At(j, "swap")
  /\ IF storage_operation_cancelled(j)
     THEN Go(j, [pc |-> "staging", status |-> "cancelled"]) /\ UNCHANGED <<slot, trees>>
     ELSE /\ BeginFinalizing(j)
          /\ \/ /\ trees[j].dst = "prev"
                /\ SetTrees(j, [dst |-> "none", old |-> "prev"])
                /\ Go(j, [pc |-> "swap2", keep |-> TRUE])
             \/ trees[j].dst = "none" /\ UNCHANGED trees /\ Go(j, [pc |-> "swap2"])
             \/ UNCHANGED trees /\ Go(j, [pc |-> "staging", status |-> "failed"])
  /\ UNCHANGED <<batch, power, stop>>

SwapEnds(j) ==
  /\ At(j, "swap2")
  /\ \/ SetTrees(j, [dst |-> "full", new |-> "none"]) /\ Go(j, [pc |-> "staging", keep |-> FALSE])
     \/ /\ workers[j].keep
        /\ SetTrees(j, [dst |-> "prev", old |-> "none"])
        /\ Go(j, [pc |-> "staging", status |-> "failed", keep |-> FALSE])
     \/ UNCHANGED trees /\ Go(j, [pc |-> "staging", status |-> "failed"])
  /\ UNCHANGED <<slot, batch, power, stop>>

StagingAlwaysRemoved(j) ==
  /\ At(j, "staging")
  /\ SetTrees(j, [new |-> "none", old |-> "none"]) /\ Go(j, [pc |-> "unmount"])
  /\ UNCHANGED <<slot, batch, power, stop>>

(* The staging directory goes, unless it holds the only previous tree. *)
RemoveStaging(j) ==
  /\ At(j, "staging")
  /\ \/ ~workers[j].keep /\ SetTrees(j, [new |-> "none", old |-> "none"]) /\ Go(j, [pc |-> "unmount"])
     \/ workers[j].keep /\ UNCHANGED trees /\ Go(j, [pc |-> "unmount"])
     \/ /\ ~workers[j].keep
        /\ LET rest(tree) == IF tree = "none" THEN "none" ELSE "part"
           IN  SetTrees(j, [new |-> rest(trees[j].new), old |-> rest(trees[j].old)])
        /\ Go(j, [pc |-> "unmount",
                  status |-> IF workers[j].status = "ok" THEN "failed" ELSE workers[j].status])
  /\ UNCHANGED <<slot, batch, power, stop>>

-----------------------------------------------------------------------------
(* The end of the job.                                                       *)

(* Unpack and install: a cancelled job calls sm_storage_delete_path on the   *)
(* finished copy, which refuses during rest mode and shutdown.               *)
FinalizeJob(j) ==
  /\ At(j, "finalize")
  /\ IF ~storage_job_cancelled(j)
     THEN BeginFinalizing(j) /\ Go(j, [pc |-> "unmount"]) /\ UNCHANGED trees
     ELSE /\ UNCHANGED slot
          /\ IF RuntimeCancelled THEN Abort(j, "cancelled") /\ UNCHANGED trees
             ELSE DeleteTree(j, "dst", Abort(j, "cancelled"))
  /\ UNCHANGED <<batch, power, stop>>

UnmountSource(j) ==
  /\ At(j, "unmount")
  /\ LET next(status) == IF status # "ok" THEN "gates"
                         ELSE CASE Op(j) = "unpackdel" -> "remove2"
                                [] Op(j) = "install" -> "register"
                                [] OTHER -> "gates"
     IN  \E failed \in BOOLEAN :
           LET status == IF failed /\ workers[j].status = "ok" THEN "failed" ELSE workers[j].status
           IN  /\ failed => workers[j].mounted
               /\ Go(j, [pc |-> next(status), status |-> status, mounted |-> FALSE])
  /\ UNCHANGED <<slot, trees, batch, power, stop>>

(* unpack with delete_source, after the copy and the unmount. *)
RemoveImage(j) ==
  /\ At(j, "remove2")
  /\ IF RuntimeCancelled THEN Go(j, [pc |-> "gates", status |-> "cancelled"]) /\ UNCHANGED trees
     ELSE \/ SetTrees(j, [src |-> "none"]) /\ Go(j, [pc |-> "gates"])
          \/ SetTrees(j, [src |-> "part"]) /\ Go(j, [pc |-> "gates", status |-> "failed"])
  /\ UNCHANGED <<slot, batch, power, stop>>

RegisterInstall(j) ==
  /\ At(j, "register")
  /\ \E ok \in BOOLEAN : Go(j, [pc |-> "gates", status |-> IF ok THEN "ok" ELSE "failed"])
  /\ UNCHANGED <<slot, trees, batch, power, stop>>

(* Both mutation gates are released, a recovery scan is requested. *)
LeaveGates(j) ==
  /\ At(j, "gates")
  /\ Go(j, [pc |-> "finish", scanner |-> FALSE, shellcore |-> FALSE])
  /\ UNCHANGED <<slot, trees, batch, power, stop>>

FinalState(status) == CASE status = "ok" -> "COMPLETED"
                        [] status = "cancelled" -> "CANCELLED"
                        [] OTHER -> "FAILED"

finish_storage_job(j) ==
  /\ At(j, "finish")
  /\ slot' = IF slot.id = j THEN [slot EXCEPT !.state = FinalState(workers[j].status)] ELSE slot
  /\ Go(j, [pc |-> "done", status |-> "ok", keep |-> FALSE])
  /\ UNCHANGED <<trees, batch, power, stop>>

StorageWorker(j) ==
  \/ BeginJob(j) \/ MountSource(j) \/ EnterGate(j) \/ CheckJob(j) \/ MeasureJob(j) \/ DecideJob(j)
  \/ sm_storage_delete_path_progress(j) \/ CopyBegins(j) \/ TransferEnds(j)
  \/ MoveBegins(j) \/ MoveCommits(j) \/ MoveRechecks(j) \/ MoveDiscards(j) \/ RemoveSource(j)
  \/ SwapBegins(j) \/ SwapEnds(j) \/ RemoveStaging(j)
  \/ FinalizeJob(j) \/ UnmountSource(j) \/ RemoveImage(j) \/ RegisterInstall(j)
  \/ LeaveGates(j) \/ finish_storage_job(j)

SlotNext ==
  \/ \E op \in StorageOps : launch_storage_job(op)
  \/ handle_storage_job_cancel \/ sm_api_service_reconfigure
  \/ EnterSleep \/ sm_api_service_on_sleep_change \/ Wake
  \/ RequestStop \/ stop_storage_job \/ ShutdownReturns

StorageJobSpec == JobInit /\ [][SlotNext \/ \E j \in JobIds : StorageWorker(j)]_slotVars

-----------------------------------------------------------------------------
(* No failure, cancellation, sleep or shutdown between any two steps leaves   *)
(* the user without a complete copy: a source is removed only behind a        *)
(* complete destination, and a replaced directory's previous tree survives    *)
(* until the new one has its name (sm_storage.c).                             *)
ContentSurvives ==
  \A j \in JobIds :
    LET t == trees[j]
    IN  slot.id = j =>
          CASE slot.op \in {"copy", "unpack", "install"} -> t.src = "full"
            [] slot.op \in {"move", "unpackdel"} -> t.src = "full" \/ t.dst = "full"
            [] slot.op = "backport" ->
                 t.src = "full" /\ (t.had => t.dst \in {"prev", "full"} \/ t.old = "prev")
            [] OTHER -> TRUE

(* A job that reports cancellation has not touched its source ("cancelled     *)
(* copies preserve their source"; a delete is cancelled only before its first *)
(* removal), and one that reports success has delivered.                      *)
ResultIsTrue ==
  LET t == trees[slot.id]
  IN  slot.id \in JobIds /\ slot.op \in StorageOps =>
        /\ slot.state = "CANCELLED" => t.src = "full"
        /\ slot.state = "COMPLETED" =>
             /\ slot.op \notin Deletes => t.dst = "full"
             /\ slot.op \in Deletes \cup {"move", "unpackdel"} => t.src = "none"
             /\ slot.op = "backport" => t.old = "none"
=============================================================================
