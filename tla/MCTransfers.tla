---------------------------- MODULE MCTransfers -----------------------------
(***************************************************************************)
(* The components that move game data: the job slot with its storage jobs  *)
(* and its package jobs, the copy of one file, the package server and the  *)
(* browser stream behind it.  `side` picks the one a behaviour is about;   *)
(* the file copy has variables of its own, the others are instances over   *)
(* v1 .. v10, which are 0 where the component picked has fewer.            *)
(***************************************************************************)
EXTENDS StorageCopy

VARIABLES side, v1, v2, v3, v4, v5, v6, v7, v8, v9, v10

parts == <<v1, v2, v3, v4, v5, v6, v7, v8, v9, v10>>
mcVars == <<side, copyVars, parts>>

(* One title with a base package that may replace an installed base, and an *)
(* update for it.                                                           *)
Jobs == INSTANCE PackageJob WITH
  MaxJobs <- 2, MaxSleeps <- 1,
  StorageOps <- {"move", "copy", "delete", "unpackdel", "install", "backport", "browse"},
  Packages <- {"r1", "p1"}, TitleOf <- [r1 |-> "t1", p1 |-> "t1"],
  KindOf <- [r1 |-> "base", p1 |-> "patch"], Remasters <- {"r1"},
  SM_PKG_QUEUE_MAX <- 2, MaxBatch <- 2,
  slot <- v1, workers <- v2, trees <- v3, batch <- v4, power <- v5, stop <- v6,
  starting <- v7, native <- v8, installed <- v9, confirmed <- v10

Stream == INSTANCE PackageStream WITH
  Readers <- {"r1", "r2"}, Segments <- 3, STREAM_SLOTS <- 2, STREAM_READ_AHEAD <- 1,
  STREAM_PREFETCH_PENDING <- 2, SM_PKG_STREAM_CLIENTS <- 2, MaxReads <- 2, MaxMishaps <- 1,
  stream <- v1, reader <- v2, ws <- v3, browser <- v4, tries <- v5

Server == INSTANCE PackageServer WITH
  Threads <- {"w1", "w2"}, Total <- 3, SM_PKG_SERVER_MAX_CONNECTIONS <- 2,
  SM_PKG_SERVER_COVERAGE_MAX <- 1, MaxConnections <- 2, MaxRequests <- 2, MaxPipelines <- 1,
  server <- v1, listening <- v2, worker <- v3, ahead <- v4, stopping <- v5,
  cover <- v6, served <- v7, calls <- v8

OnJobs == side \in {"storage", "packages"}

Unused9 == v9 = 0 /\ v10 = 0
Unused6 == v6 = 0 /\ v7 = 0 /\ v8 = 0 /\ Unused9
Unused1 == v1 = 0 /\ v2 = 0 /\ v3 = 0 /\ v4 = 0 /\ v5 = 0 /\ Unused6

MCInit ==
  /\ CopyInit
  /\ \/ side = "copy" /\ Unused1
     \/ /\ file = [size |-> 0, stat |-> 0]
        /\ \/ side \in {"storage", "packages"} /\ Jobs!PackageInit
           \/ side = "stream" /\ Stream!StreamInit /\ Unused6
           \/ side = "server" /\ Server!ServerInit /\ Unused9

(* The storage operations; or the package queue with the one storage        *)
(* operation that looks at it, the listener's reload left to the former.    *)
StorageMoves == /\ side = "storage" /\ UNCHANGED <<side, copyVars>>
                /\ (Jobs!SlotNext \/ \E j \in 1 .. 2 : Jobs!StorageWorker(j))
                /\ UNCHANGED <<v7, v8, v9, v10>>
PackagesMove == /\ side = "packages" /\ UNCHANGED <<side, copyVars>>
                /\ Jobs!PackageNext
                /\ v1'.op \in {"none", "browse", "pkg", "stream"} /\ v1'.id < 2
                /\ v6' = "no" => v1'.accepting
CopyMoves == side = "copy" /\ CopyNext /\ UNCHANGED <<side, parts>>
StreamMoves == /\ side = "stream" /\ Stream!StreamNext
               /\ UNCHANGED <<side, copyVars, v6, v7, v8, v9, v10>>
ServerMoves == /\ side = "server" /\ Server!ServerNext
               /\ UNCHANGED <<side, copyVars, v9, v10>>

MCNext == StorageMoves \/ PackagesMove \/ CopyMoves \/ StreamMoves \/ ServerMoves

MCSpec == /\ MCInit /\ [][MCNext]_mcVars
          /\ WF_mcVars(CopyMoves /\ ReaderNext) /\ WF_mcVars(CopyMoves /\ WriterNext)

-----------------------------------------------------------------------------
(* Every copy of a file ends: neither thread waits for the other for ever,   *)
(* also when the copy is cancelled or fails half way (the stop flag and the  *)
(* signals of copy_file_read_ahead).                                         *)
CopyEnds == side = "copy" ~> outcome # "copying"

(* No failure, cancellation, sleep or shutdown between any two steps of a    *)
(* job leaves the user without a complete copy (sm_storage.c).               *)
ContentSurvives == OnJobs => Jobs!ContentSurvives

(* What a job reports is what happened to its trees (finish_storage_job).    *)
ResultIsTrue == OnJobs => Jobs!ResultIsTrue

(* Cancelling an installation never removes a base application that was      *)
(* there before (package_install_thread).                                    *)
InstalledBaseSurvives == OnJobs => Jobs!InstalledBaseSurvives

(* The shutdown's wait for the job in progress is never stuck                *)
(* (stop_storage_job).                                                       *)
ShutdownNeverSticks == OnJobs => Jobs!ShutdownNeverSticks

(* A read of a streamed package returns the bytes of its offset              *)
(* (sm_pkg_stream_read).                                                     *)
ReadsAreTrue == side = "stream" => Stream!ReadsAreTrue

(* No read of a streamed package is stuck (sm_pkg_stream_read,               *)
(* sm_pkg_ws_serve).                                                         *)
ReadsNeverStick == side = "stream" => Stream!ReadsNeverStick

(* The coverage that completes an installation is what was sent              *)
(* (add_coverage_locked).                                                    *)
CoverageIsServed == side = "server" => Server!CoverageIsServed

(* The server is freed after its last thread (sm_pkg_server_stop).           *)
FreedIsQuiet == side = "server" => Server!FreedIsQuiet

(* A stop of the server is never stuck (sm_pkg_server_stop).                 *)
StopNeverSticks == side = "server" => Server!StopNeverSticks
=============================================================================
