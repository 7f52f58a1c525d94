----------------------------- MODULE MCScanner ------------------------------
(***************************************************************************)
(* Three views of the scanner thread: the loop that decides when to scan,  *)
(* the selection of one source per title within a pass, and the titles     *)
(* handed to the console's installer.  `side` picks the one a behaviour is *)
(* about; each is an instance over v1 .. v11, which are 0 where it has     *)
(* fewer variables.                                                        *)
(***************************************************************************)
EXTENDS Naturals

VARIABLES side, v1, v2, v3, v4, v5, v6, v7, v8, v9, v10, v11

mcVars == <<side, v1, v2, v3, v4, v5, v6, v7, v8, v9, v10, v11>>

Roots == {"hdd", "usb"}
Loop == INSTANCE ScanLoop WITH
  ScanRoots <- Roots, UsbRoots <- {"usb"}, MaxHappenings <- 2,
  unseen <- v1, watch <- v2, event <- v3, root <- v4, timers <- v5, loop <- v6,
  wake <- v7, world <- v8

(* A title in two folders and an image, which also holds a second title. *)
Selection == INSTANCE SourceSelection WITH
  GameFolders <- {"F", "G"}, GameImages <- {"I"}, GameTitles <- {"a", "b"},
  FolderTitle <- [F |-> "a", G |-> "a"], DirOrder <- <<"F", "I", "G">>,
  MAX_IMAGE_TITLES <- 1, MAX_CANDIDATES <- 2, MaxFaults <- 1, MaxReplaced <- 1,
  idx <- v1, saved <- v2, source <- v3, attached <- v4, reg <- v5, pass <- v6, left <- v7

GameTitles == {"a", "b"}
Queue == INSTANCE InstallQueue WITH
  Titles <- GameTitles, MAX_PENDING <- 2, MaxEvents <- 1,
  pending <- v1, tally <- v2, due <- v3, overdue <- v4, failed <- v5, registered <- v6,
  appdb <- v7, linked <- v8, installer <- v9, cycle <- v10, env <- v11

OnLoop == side = "loop" /\ UNCHANGED <<side, v9, v10, v11>>
OnSelection == side = "selection" /\ UNCHANGED <<side, v8, v9, v10, v11>>
OnQueue == side = "queue" /\ UNCHANGED side

MCInit ==
  \/ side = "loop" /\ Loop!LoopInit /\ v9 = 0 /\ v10 = 0 /\ v11 = 0
  \/ side = "selection" /\ Selection!SelInit /\ v8 = 0 /\ v9 = 0 /\ v10 = 0 /\ v11 = 0
  \/ side = "queue" /\ Queue!QueueInit

LoopMoves == OnLoop /\ Loop!LoopNext
SelectionMoves == OnSelection /\ Selection!SelNext
QueueMoves == OnQueue /\ Queue!QueueNext
MCNext == LoopMoves \/ SelectionMoves \/ QueueMoves

(* The fairness of LoopSpec, SelFairSpec and QueueSpec. *)
MCSpec ==
  /\ MCInit /\ [][MCNext]_mcVars
  /\ WF_mcVars(OnLoop /\ Loop!ScannerThread) /\ WF_mcVars(OnLoop /\ Loop!TimersRun)
  /\ WF_mcVars(OnLoop /\ Loop!EjectReturns)
  /\ WF_mcVars(OnSelection /\ Selection!ScanStep)
  /\ WF_mcVars(OnQueue /\ Queue!CycleStep) /\ WF_mcVars(OnQueue /\ Queue!sm_install_service_pending)
  /\ WF_mcVars(OnQueue /\ Queue!TimePasses) /\ WF_mcVars(OnQueue /\ Queue!EntryAges)

-----------------------------------------------------------------------------
(* Every change of a scan root, and every requested scan, is walked by a     *)
(* later scan once the console is awake and no game blocks the loop          *)
(* (sm_scanner_run_loop).                                                    *)
ChangesAreScanned ==
  \A r \in Roots :
    (side = "loop" /\ v1[r]) ~>
      (side = "loop" /\ (~v1[r] \/ v8.asleep \/ v8.busy \/ v6.pc = "over"))

(* Every title handed to the installer leaves the pending table again        *)
(* (sm_install_queue.c).                                                     *)
TrackedTitlesSettle ==
  \A t \in GameTitles :
    (side = "queue" /\ v1[t] # "none") ~> (side = "queue" /\ (v1[t] = "none" \/ v11.asleep))

(* A complete index entry whose stamp matches lists only titles the image    *)
(* holds (sm_image_index.c).                                                 *)
FingerprintProvesTitle == side = "selection" => Selection!FingerprintProvesTitle

(* Duplicate sources stop taking a title from each other                     *)
(* (try_collect_candidate_for_directory).                                    *)
SelectionSettles == <>[][side = "selection" => v5' = v5]_mcVars
=============================================================================
