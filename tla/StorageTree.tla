---------------------------- MODULE StorageTree ----------------------------
(***************************************************************************)
(* The recursive copy of a directory tree (copy_storage_path).  On a remote  *)
(* destination the files of a directory whose session could be pinned are    *)
(* flushed late: up to STORAGE_PENDING_FILES of them stay open while the     *)
(* server works, and the result of each flush is collected when the window   *)
(* is full, before a subdirectory, and at the end of the directory.  A       *)
(* failure anywhere removes the destination tree, level by level.            *)
(* The source tree is given as the walk the recursion makes over it.         *)
(***************************************************************************)
EXTENDS Naturals, Sequences, FiniteSets

CONSTANTS Walk,                   \* e.g. <<"enter", "file", "enter", "file", "leave", "leave">>
          STORAGE_PENDING_FILES

VARIABLES
  at,         \* the next step of the walk
  dirs,       \* the recursion's open directories, innermost last: [from, pinned, pending]
  files,      \* destination file of each "file" step: absent, open, durable, closed
  walk,       \* "running", "unwinding" (a call failed), "ok", "failed"
  cancelled

treeVars == <<at, dirs, files, walk, cancelled>>

FileSteps == {i \in 1 .. Len(Walk) : Walk[i] = "file"}
Top == dirs[Len(dirs)]
Upper == SubSeq(dirs, 1, Len(dirs) - 1)
SetTop(d) == Append(Upper, d)
Elements(s) == {s[i] : i \in 1 .. Len(s)}

TreeInit ==
  /\ at = 1
  /\ dirs = <<>>
  /\ files = [i \in FileSteps |-> "absent"]
  /\ walk = "running"
  /\ cancelled = FALSE

ClosedUnflushed(fs, durable) ==
  [i \in FileSteps |-> IF i \notin fs THEN files[i] ELSE "closed"]

(* finish_pending_file on a set of open files: flushed and closed, or, for   *)
(* those whose flush or close fails and for all once the copy is cancelled   *)
(* or has a status already, only closed.                                     *)
Finished(fs, durable) ==
  [i \in FileSteps |-> IF i \notin fs THEN files[i]
                       ELSE IF i \in durable THEN "durable" ELSE "closed"]

(* finish_pending_files with status 0: in order, and the first failure is    *)
(* the status of the rest.                                                   *)
FinishAll(pending, durable) ==
  \E n \in 0 .. Len(pending) :
     /\ durable = Elements(SubSeq(pending, 1, n))
     /\ cancelled => n = 0

(* delete_storage_path of the directory entered at step `from`: every file   *)
(* below it.                                                                 *)
Below(from) == {i \in FileSteps : i > from}

StepCancelled == cancelled /\ walk' = "unwinding" /\ UNCHANGED <<at, dirs, files>>

(* copy_regular_file fails before the file is kept: it is unlinked.          *)
FileFails == walk' = "unwinding" /\ UNCHANGED <<at, dirs, files>>

FileFlushedNow ==
  /\ files' = [files EXCEPT ![at] = "durable"]
  /\ at' = at + 1
  /\ UNCHANGED <<dirs, walk>>

(* sm_vfs_start_fsync, then the file joins the window; a full window is      *)
(* relieved of its oldest file, whose failure fails the copy.                *)
FileFlushedLate ==
  /\ Len(dirs) > 0 /\ Top.pinned
  /\ LET kept == Append(Top.pending, at)
         opened == [files EXCEPT ![at] = "open"]
         oldest == Head(kept)
     IN  IF Len(kept) = STORAGE_PENDING_FILES
         THEN \E ok \in BOOLEAN :
                /\ cancelled => ~ok
                /\ dirs' = SetTop([Top EXCEPT !.pending = Tail(kept)])
                /\ files' = [opened EXCEPT ![oldest] = IF ok THEN "durable" ELSE "closed"]
                /\ walk' = IF ok THEN "running" ELSE "unwinding"
         ELSE /\ dirs' = SetTop([Top EXCEPT !.pending = kept])
              /\ files' = opened
              /\ UNCHANGED walk
  /\ at' = at + 1

CopyFile ==
  /\ walk = "running" /\ at <= Len(Walk) /\ Walk[at] = "file"
  /\ StepCancelled \/ FileFails \/ FileFlushedNow \/ FileFlushedLate
  /\ UNCHANGED cancelled

(* copy_storage_path on a directory: the parent's window is emptied first.   *)
EnterDirectory ==
  /\ walk = "running" /\ at <= Len(Walk) /\ Walk[at] = "enter"
  /\ \/ StepCancelled
     \/ LET pending == IF Len(dirs) = 0 THEN <<>> ELSE Top.pending
            parents == IF Len(dirs) = 0 THEN <<>> ELSE SetTop([Top EXCEPT !.pending = <<>>])
        IN  \E durable \in SUBSET Elements(pending), made \in BOOLEAN, pinned \in BOOLEAN :
              /\ FinishAll(pending, durable)
              /\ files' = Finished(Elements(pending), durable)
              /\ IF made /\ durable = Elements(pending)
                 THEN /\ dirs' = Append(parents, [from |-> at, pinned |-> pinned, pending |-> <<>>])
                      /\ at' = at + 1
                      /\ UNCHANGED walk
                 ELSE dirs' = parents /\ walk' = "unwinding" /\ UNCHANGED at
  /\ UNCHANGED cancelled

(* The end of a directory's loop after all its entries were copied. *)
LeaveDirectory ==
  /\ walk = "running" /\ at <= Len(Walk) /\ Walk[at] = "leave"
  /\ \E durable \in SUBSET Elements(Top.pending), closed \in BOOLEAN :
        LET done == Finished(Elements(Top.pending), durable)
            ok == closed /\ durable = Elements(Top.pending)
        IN  /\ FinishAll(Top.pending, durable)
            /\ files' = IF ok THEN done
                        ELSE [i \in FileSteps |-> IF i \in Below(Top.from) THEN "absent" ELSE done[i]]
            /\ walk' = IF ok THEN "running" ELSE "unwinding"
            /\ at' = IF ok THEN at + 1 ELSE at
  /\ dirs' = Upper
  /\ UNCHANGED cancelled

(* The end of a directory's loop after an entry failed: the window is closed *)
(* without flushing, then the destination directory is deleted.              *)
UnwindDirectory ==
  /\ walk = "unwinding" /\ Len(dirs) > 0
  /\ \E removed \in BOOLEAN :
        LET done == Finished(Elements(Top.pending), {})
        IN  files' = [i \in FileSteps |-> IF removed /\ i \in Below(Top.from)
                                          THEN "absent" ELSE done[i]]
  /\ dirs' = Upper
  /\ UNCHANGED <<at, walk, cancelled>>

WalkEnds ==
  /\ Len(dirs) = 0
  /\ \/ walk = "unwinding" /\ walk' = "failed"
     \/ walk = "running" /\ at > Len(Walk) /\ walk' = "ok"
  /\ UNCHANGED <<at, dirs, files, cancelled>>

CancelTree == ~cancelled /\ cancelled' = TRUE /\ UNCHANGED <<at, dirs, files, walk>>

TreeDone == walk \in {"ok", "failed"} /\ UNCHANGED treeVars

TreeNext == CopyFile \/ EnterDirectory \/ LeaveDirectory \/ UnwindDirectory
            \/ WalkEnds \/ CancelTree \/ TreeDone

TreeSpec == TreeInit /\ [][TreeNext]_treeVars

-----------------------------------------------------------------------------
(* A copy that succeeds has every file flushed and closed: no flush that was  *)
(* started late is forgotten, and none that failed is counted as success.     *)
(* "Always release a file before closing its directory or removing its        *)
(* tree": until then an open file is in the window of a directory that is     *)
(* still open, and the window never outgrows its array.                       *)
SuccessIsDurable ==
  /\ walk = "ok" => \A i \in FileSteps : files[i] = "durable"
  /\ \A i \in FileSteps :
       files[i] = "open" => \E k \in 1 .. Len(dirs) : i \in Elements(dirs[k].pending)
  /\ \A k \in 1 .. Len(dirs) : Len(dirs[k].pending) < STORAGE_PENDING_FILES
=============================================================================
