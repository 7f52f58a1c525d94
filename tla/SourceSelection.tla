-------------------------- MODULE SourceSelection --------------------------
(***************************************************************************)
(* Which source a title runs from.  A scan pass (sm_scan.c) walks the scan *)
(* root in directory order, looks into image files through the image index *)
(* (sm_image_index.c), collects candidates, and the scanner then links     *)
(* each candidate's title to its path (sm_install.c).  One title may be    *)
(* offered by several folders and images.                                  *)
(*                                                                         *)
(* A path is a source and the title found there.  The runtime path of a    *)
(* game inside an image is the path whose source is the image.  A stamp    *)
(* stands for size and mtime, which a replaced image changes.  The pass    *)
(* runs on the scanner thread; sources, config.ini, the user and a crash   *)
(* move between its steps.  Registration is InstallQueue's; here it        *)
(* succeeds.                                                               *)
(***************************************************************************)
EXTENDS Naturals, FiniteSets, Sequences

CONSTANTS
    GameFolders,          \* folder sources
    GameImages,           \* image files under the scan root
    FolderTitle,          \* the title each folder holds
    GameTitles,           \* the titles that exist
    DirOrder,             \* the order readdir returns the sources in
    MAX_IMAGE_TITLES,     \* slots of g_image_titles
    MAX_CANDIDATES,       \* MAX_PENDING, the size of a candidate batch
    MaxFaults,            \* bound: failed mounts, writes and cut passes
    MaxReplaced           \* bound: changes of sources and configuration

VARIABLES
    idx,       \* g_image_index, g_image_titles and the context they hold for
    saved,     \* IMAGE_INDEX_FILE
    source,    \* the folders present, and each image's stamp and titles
    attached,  \* the content each image mount shows
    reg,       \* per title: installed, mount.lnk, mount_img.lnk
    pass,      \* the scan pass in progress
    left       \* what remains of the bounds

selVars == <<idx, saved, source, attached, reg, pass, left>>

Nowhere == "nowhere"
NoGame == [src |-> Nowhere, t |-> Nowhere]
GamePath(s, t) == [src |-> s, t |-> t]
Detached == [on |-> FALSE, has |-> {}]
NoEntry == [valid |-> FALSE, complete |-> FALSE, stamp |-> 0]
clear_index(context) == [entry |-> [i \in GameImages |-> NoEntry],
                         titles |-> {}, dirty |-> FALSE, context |-> context]
NoFile == [there |-> FALSE, data |-> clear_index(0)]
BetweenPasses == [at |-> "idle", pos |-> 1, cur |-> Nowhere, stamp |-> 0,
                  within |-> {}, cands |-> <<>>, titles |-> {},
                  ready |-> TRUE, unstable |-> FALSE, partial |-> FALSE]

ImageExists(i) == source.img[i].stamp # 0
is_under_image_mount_base(p) == p.src \in GameImages
directory_has_game_executable(p) ==
    \/ p.src \in source.folders
    \/ p.src \in GameImages /\ p.t \in attached[p.src].has

SelInit ==
    /\ idx = clear_index(0)
    /\ saved = NoFile
    /\ source \in [folders : {GameFolders},
                   img : [GameImages -> [stamp : {1}, has : SUBSET GameTitles]],
                   config : {0}, next : {2}]
    /\ attached = [i \in GameImages |-> Detached]
    /\ reg = [t \in GameTitles |->
                [installed |-> FALSE, link |-> NoGame, image |-> Nowhere]]
    /\ pass = BetweenPasses
    /\ left = [faults |-> MaxFaults, changes |-> MaxReplaced, tainted |-> {}]

Fault == left' = [left EXCEPT !.faults = @ - 1]
MayFault == left.faults > 0

(***************************************************************************)
(* The image index (sm_image_index.c).  Its operators take and return the  *)
(* index record, all under g_image_index_mutex.                            *)
(***************************************************************************)
stamp_matches(e, stamp) == e.stamp = stamp /\ stamp # 0

\* As loaded from the file: discarded when the configuration stamps differ.
load_index(file, context) ==
    IF file.there /\ file.data.context = context THEN file.data
    ELSE clear_index(context)

refresh_index_context(x) ==
    IF x.context = source.config THEN x ELSE clear_index(source.config)

\* discard_index unlinks the file together with the table.
FileAfterRefresh(x) == IF x.context = source.config THEN saved ELSE NoFile

save_index(x, file) ==
    IF x.dirty THEN [there |-> TRUE, data |-> [x EXCEPT !.dirty = FALSE]]
    ELSE file

clear_entry_titles(x, i) == {r \in x.titles : r[1] # i}

KeepsOldTitles(x, i, stamp) ==
    [x EXCEPT !.entry[i] = [valid |-> TRUE, complete |-> FALSE, stamp |-> stamp],
              !.dirty = TRUE]

begin_scan_locked(x, i, stamp) ==
    [x EXCEPT !.titles = clear_entry_titles(x, i),
              !.entry[i] = [valid |-> TRUE, complete |-> FALSE, stamp |-> stamp],
              !.dirty = TRUE]

indexed_source_has_title(i, t) ==
    /\ i \in GameImages
    /\ idx.entry[i].valid /\ idx.entry[i].complete
    /\ <<i, t>> \in idx.titles
    /\ stamp_matches(idx.entry[i], source.img[i].stamp)

\* Every listed title is installed and linked to an image that holds it.
cached_titles_ready(i) ==
    \A t \in GameTitles : <<i, t>> \in idx.titles =>
        /\ reg[t].installed
        /\ reg[t].link # NoGame /\ is_under_image_mount_base(reg[t].link)
        /\ \/ reg[t].image = i
           \/ indexed_source_has_title(reg[t].image, t)

sm_image_index_visit_ready_titles(i, stamp) ==
    /\ idx.entry[i].valid /\ idx.entry[i].complete
    /\ stamp_matches(idx.entry[i], stamp)
    /\ cached_titles_ready(i)

\* The index with the game at p added; "ok" is the function's result.
sm_image_index_record_game(p) ==
    LET i == p.src
        known == IF idx.entry[i].valid THEN idx
                 ELSE begin_scan_locked(idx, i, source.img[i].stamp)
        row == <<i, p.t>> IN
    IF ~is_under_image_mount_base(p) THEN [ok |-> TRUE, x |-> idx]
    ELSE IF ~idx.entry[i].valid /\ ~ImageExists(i) THEN [ok |-> FALSE, x |-> idx]
    ELSE IF row \in known.titles THEN [ok |-> TRUE, x |-> known]
    ELSE IF Cardinality(known.titles) >= MAX_IMAGE_TITLES
         THEN [ok |-> FALSE, x |-> known]
    ELSE [ok |-> TRUE,
          x |-> [known EXCEPT !.titles = @ \union {row}, !.dirty = TRUE]]

sm_image_index_complete_scan(x, i) ==
    IF x.entry[i].valid /\ ~x.entry[i].complete
    THEN [x EXCEPT !.entry[i].complete = TRUE, !.dirty = TRUE]
    ELSE x

\* record_game rewrites mount_img.lnk when the title runs from this very path.
RepairImageLink(p) ==
    IF is_under_image_mount_base(p) /\ reg[p.t].installed /\ reg[p.t].link = p
    THEN [reg EXCEPT ![p.t].image = p.src] ELSE reg

(***************************************************************************)
(* Candidates (sm_scan.c).                                                 *)
(***************************************************************************)
CandidateFor(c, t) == SelectSeq(c, LAMBDA p : p.t = t)
remove_scan_candidate_at(c, t) == SelectSeq(c, LAMBDA p : p.t # t)

\* What the visited path means for a title that may be linked already.
\* "mounted" is is_data_mounted: the title's runtime layers are normally
\* released between passes, but a protected title keeps them.
handle_existing_directory_candidate(p, mounted) ==
    LET r == reg[p.t]
        inDb == p.t \in pass.titles
        installed == inDb /\ r.installed IN
    IF ~pass.ready
    THEN IF r.link = p /\ mounted THEN "current" ELSE "handled"
    ELSE IF installed /\ r.link = p /\ directory_has_game_executable(p)
         THEN "current"
    ELSE IF /\ installed /\ r.link # NoGame /\ r.link # p
            /\ \/ /\ is_under_image_mount_base(r.link)
                  /\ indexed_source_has_title(r.image, p.t)
               \/ mounted
         THEN "cached"
    ELSE "continue"

enqueue_directory_candidate(c, p) ==
    IF Len(c) >= MAX_CANDIDATES THEN c ELSE Append(c, p)

DuplicateStays(c, p, verdict) ==
    IF verdict = "cached" THEN remove_scan_candidate_at(c, p.t)
    ELSE IF verdict = "continue" /\ CandidateFor(c, p.t) = <<>>
         THEN enqueue_directory_candidate(c, p)
    ELSE c

\* A settled source removes the candidate an earlier duplicate left.
CollectedCandidates(c, p, verdict) ==
    IF verdict \in {"current", "cached"} THEN remove_scan_candidate_at(c, p.t)
    ELSE IF verdict = "continue" /\ CandidateFor(c, p.t) = <<>>
         THEN enqueue_directory_candidate(c, p)
    ELSE c

\* The visit of a game directory: index, link repair, verdict, candidates.
try_collect_candidate_for_directory(p) ==
    \E rec \in {sm_image_index_record_game(p)} :
    \E verdict \in {handle_existing_directory_candidate(p, m) : m \in BOOLEAN} :
        /\ idx' = rec.x
        /\ reg' = RepairImageLink(p)
        /\ pass' = [pass EXCEPT
             !.cands = CollectedCandidates(@, p, verdict),
             !.partial = @ \/ ~rec.ok,
             !.unstable = @ \/ ~rec.ok,
             !.pos = IF p.src \in GameFolders THEN @ + 1 ELSE @,
             !.within = @ \ {p.t}]

BatchFull == Len(pass.cands) >= MAX_CANDIDATES
Walking(s) == pass.at = "walk" /\ pass.pos <= Len(DirOrder) /\ DirOrder[pass.pos] = s
NextSource == pass' = [pass EXCEPT !.at = "walk", !.pos = @ + 1]

\* cleanup_lost_sources_before_scan: prune the index, then start the walk.
\* The app.db title list is read once for the whole pass.
sm_image_index_prune ==
    /\ pass.at = "idle"
    /\ \E x \in {refresh_index_context(idx)} :
       \E gone \in {{i \in GameImages : x.entry[i].valid /\ ~ImageExists(i)}} :
       \E y \in {[x EXCEPT !.entry = [i \in GameImages |->
                                IF i \in gone THEN NoEntry ELSE x.entry[i]],
                           !.titles = {r \in @ : r[1] \notin gone},
                           !.dirty = @ \/ gone # {}]} :
          \/ /\ idx' = [y EXCEPT !.dirty = FALSE]
             /\ saved' = save_index(y, FileAfterRefresh(idx))
             /\ UNCHANGED left
          \/ /\ MayFault /\ y.dirty /\ Fault     \* the write fails
             /\ idx' = y
             /\ saved' = FileAfterRefresh(idx)
    /\ \E ready \in {TRUE} \union (IF MayFault THEN {FALSE} ELSE {}) :
          pass' = [BetweenPasses EXCEPT !.at = "walk", !.ready = ready,
                      !.titles = {t \in GameTitles : reg[t].installed}]
    /\ UNCHANGED <<source, attached, reg>>

collect_candidate_directory_visit(f) ==
    /\ Walking(f) /\ f \in GameFolders
    /\ IF BatchFull
       THEN /\ pass' = [pass EXCEPT !.unstable = TRUE, !.pos = Len(DirOrder) + 1]
            /\ UNCHANGED <<idx, reg>>
       ELSE IF f \in source.folders
       THEN try_collect_candidate_for_directory(GamePath(f, FolderTitle[f]))
       ELSE NextSource /\ UNCHANGED <<idx, reg>>
    /\ UNCHANGED <<saved, source, attached, left>>

\* The image's stamp is taken here; the mount and the scan follow.
collect_candidate_image_visit(i) ==
    /\ Walking(i) /\ i \in GameImages
    /\ IF BatchFull
       THEN pass' = [pass EXCEPT !.unstable = TRUE, !.pos = Len(DirOrder) + 1]
       ELSE IF \/ ~ImageExists(i)
               \/ sm_image_index_visit_ready_titles(i, source.img[i].stamp)
       THEN NextSource
       ELSE pass' = [pass EXCEPT !.at = "mount", !.cur = i, !.partial = FALSE,
                                 !.stamp = source.img[i].stamp]
    /\ UNCHANGED <<idx, saved, source, attached, reg, left>>

\* A mount that is already there is reused whatever the file holds now.
maybe_mount_image_file ==
    /\ pass.at = "mount"
    /\ \E i \in {pass.cur} :
       \/ /\ ImageExists(i) \/ attached[i].on
          /\ \E m \in {IF attached[i].on THEN attached[i]
                       ELSE [on |-> TRUE, has |-> source.img[i].has]} :
                /\ attached' = [attached EXCEPT ![i] = m]
                /\ pass' = [pass EXCEPT !.at = "inside", !.within = m.has]
          /\ idx' = begin_scan_locked(idx, i, pass.stamp)
          /\ UNCHANGED left
       \/ /\ ~ImageExists(i) \/ MayFault
          /\ left' = IF ImageExists(i) THEN [left EXCEPT !.faults = @ - 1] ELSE left
          /\ \E u \in BOOLEAN :                 \* unstable, or refused
                pass' = [pass EXCEPT !.at = "walk", !.pos = @ + 1,
                                     !.unstable = @ \/ u]
          /\ UNCHANGED <<attached, idx>>
    /\ UNCHANGED <<saved, source, reg>>

\* A directory inside the mount; the batch may fill up on the way.
VisitInside(t) ==
    /\ pass.at = "inside" /\ t \in pass.within
    /\ IF BatchFull
       THEN /\ pass' = [pass EXCEPT !.unstable = TRUE, !.partial = TRUE,
                                    !.within = {}]
            /\ UNCHANGED <<idx, reg>>
       ELSE try_collect_candidate_for_directory(GamePath(pass.cur, t))
    /\ UNCHANGED <<saved, source, attached, left>>

\* "game info unavailable": the directory is passed over, nothing is noted.
SkipInside(t) ==
    /\ pass.at = "inside" /\ t \in pass.within
    /\ MayFault /\ Fault
    /\ pass' = [pass EXCEPT !.within = @ \ {t}]
    /\ UNCHANGED <<idx, saved, source, attached, reg>>

LeaveImage ==
    /\ pass.at = "inside" /\ pass.within = {}
    /\ idx' = IF pass.partial THEN idx
              ELSE sm_image_index_complete_scan(idx, pass.cur)
    /\ NextSource
    /\ UNCHANGED <<saved, source, attached, reg, left>>

\* Stop, sleep or a starting game ends the walk; an image stays incomplete.
CutShort ==
    /\ pass.at \in {"walk", "mount", "inside"} /\ MayFault /\ Fault
    /\ pass' = [pass EXCEPT !.at = "walk", !.pos = Len(DirOrder) + 1,
                            !.unstable = TRUE]
    /\ UNCHANGED <<idx, saved, source, attached, reg>>

sm_image_index_flush ==
    /\ pass.at = "walk" /\ pass.pos > Len(DirOrder)
    /\ \E x \in {refresh_index_context(idx)} :
          \/ /\ idx' = [x EXCEPT !.dirty = FALSE]
             /\ saved' = save_index(x, FileAfterRefresh(idx))
             /\ UNCHANGED left
          \/ /\ MayFault /\ x.dirty /\ Fault
             /\ idx' = x
             /\ saved' = FileAfterRefresh(idx)
    /\ pass' = [pass EXCEPT !.at = "install"]
    /\ UNCHANGED <<source, attached, reg>>

\* mount_and_install of the next candidate: a folder needs no image link.
process_scan_candidates ==
    /\ pass.at = "install" /\ pass.cands # <<>>
    /\ \E p \in {Head(pass.cands)} :
       \/ /\ directory_has_game_executable(p)
          /\ reg' = [reg EXCEPT ![p.t] =
               [installed |-> TRUE, link |-> p,
                image |-> IF is_under_image_mount_base(p) THEN p.src
                          ELSE Nowhere]]
          /\ UNCHANGED left
       \/ /\ ~directory_has_game_executable(p) \/ MayFault
          /\ left' = IF directory_has_game_executable(p)
                     THEN [left EXCEPT !.faults = @ - 1] ELSE left
          /\ UNCHANGED reg
    /\ pass' = [pass EXCEPT !.cands = Tail(@)]
    /\ UNCHANGED <<idx, saved, source, attached>>

\* Image mounts go after the pass unless they are busy.
release_scan_runtime_mounts ==
    /\ pass.at = "install" /\ pass.cands = <<>>
    /\ \/ /\ attached' = [i \in GameImages |-> Detached]
          /\ UNCHANGED left
       \/ /\ MayFault /\ Fault /\ UNCHANGED attached
    /\ pass' = BetweenPasses
    /\ UNCHANGED <<idx, saved, source, reg>>

(***************************************************************************)
(* The world between the scanner's steps.                                  *)
(***************************************************************************)
MayChange == left.changes > 0
Changed(taint) ==
    left' = [left EXCEPT !.changes = @ - 1, !.tainted = @ \union taint]

ReplaceImage(i) ==
    /\ MayChange
    /\ \E has \in SUBSET GameTitles :
          source' = [source EXCEPT !.img[i] = [stamp |-> source.next, has |-> has],
                                   !.next = @ + 1]
    /\ Changed(IF attached[i].on THEN {i} ELSE {})
    /\ UNCHANGED <<idx, saved, attached, reg, pass>>

RemoveImage(i) ==
    /\ MayChange /\ ImageExists(i)
    /\ source' = [source EXCEPT !.img[i] = [stamp |-> 0, has |-> {}]]
    /\ Changed(IF attached[i].on THEN {i} ELSE {})
    /\ UNCHANGED <<idx, saved, attached, reg, pass>>

MoveFolder(f) ==
    /\ MayChange
    /\ source' = [source EXCEPT !.folders =
                    IF f \in @ THEN @ \ {f} ELSE @ \union {f}]
    /\ Changed({})
    /\ UNCHANGED <<idx, saved, attached, reg, pass>>

EditConfig ==
    /\ MayChange
    /\ source' = [source EXCEPT !.config = @ + 1]
    /\ Changed({})
    /\ UNCHANGED <<idx, saved, attached, reg, pass>>

UninstallTitle(t) ==
    /\ MayChange /\ reg[t].installed
    /\ reg' = [reg EXCEPT ![t] =
                 [installed |-> FALSE, link |-> NoGame, image |-> Nowhere]]
    /\ Changed({})
    /\ UNCHANGED <<idx, saved, source, attached, pass>>

\* The process dies and starts again; image mounts may survive it.
Restart ==
    /\ MayFault /\ Fault
    /\ idx' = load_index(saved, source.config)
    /\ saved' = IF saved.there /\ saved.data.context = source.config THEN saved
                ELSE NoFile
    /\ pass' = BetweenPasses
    /\ \/ UNCHANGED attached
       \/ attached' = [i \in GameImages |-> Detached]
    /\ UNCHANGED <<source, reg>>

ScanStep ==
    \/ sm_image_index_prune
    \/ \E f \in GameFolders : collect_candidate_directory_visit(f)
    \/ \E i \in GameImages : collect_candidate_image_visit(i)
    \/ maybe_mount_image_file
    \/ \E t \in GameTitles : VisitInside(t)
    \/ LeaveImage
    \/ sm_image_index_flush
    \/ process_scan_candidates
    \/ release_scan_runtime_mounts

WorldStep ==
    \/ \E t \in GameTitles : SkipInside(t) \/ UninstallTitle(t)
    \/ \E i \in GameImages : ReplaceImage(i) \/ RemoveImage(i)
    \/ \E f \in GameFolders : MoveFolder(f)
    \/ CutShort \/ EditConfig \/ Restart

SelNext == ScanStep \/ WorldStep

SelSpec == SelInit /\ [][SelNext]_selVars

\* The scanner thread keeps passing over the root.
SelFairSpec == SelSpec /\ WF_selVars(ScanStep)

(***************************************************************************)
(* Properties.                                                             *)
(***************************************************************************)
\* What a fingerprint proves: a complete entry whose stamp still matches the
\* file lists only titles the file holds, across replaced images, partial
\* scans, failed writes, restarts and configuration changes.  An image
\* replaced under its own live mount is exempt: the scan then reads the old
\* content and stamps it with the new file (reuse_existing_image_mount).
FingerprintProvesTitle ==
    \A i \in GameImages \ left.tainted :
        /\ idx.entry[i].valid /\ idx.entry[i].complete
        /\ stamp_matches(idx.entry[i], source.img[i].stamp)
        => \A t \in GameTitles : <<i, t>> \in idx.titles => t \in source.img[i].has

\* Duplicate sources settle: once sources, configuration and faults stop
\* changing, every title stays linked to one path.  The order the directory
\* is walked in, and which duplicate the index remembers, must not make two
\* sources take the title from each other pass after pass
\* (try_collect_candidate_for_directory).
SelectionSettles == <>[][reg' = reg]_selVars

=============================================================================
