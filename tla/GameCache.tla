------------------------------ MODULE GameCache ------------------------------
(***************************************************************************)
(* The table of known games (src/src/sm_game_cache.c) and the auto-remove  *)
(* pass of a full scan: games of app.db whose source stays away for the    *)
(* configured delay are uninstalled.                                       *)
(*                                                                         *)
(* The scanner thread prunes the table, walks the scan roots one directory *)
(* at a time, reconciles the table with the list of removable titles and   *)
(* then uninstalls what has expired.  The table's mutex is released        *)
(* between those steps: sources come and go, titles gain and lose the      *)
(* protection of a running game, and image unmounts drop rows meanwhile.   *)
(* A walk may also be cut short, by a full candidate batch or by a game    *)
(* that starts and stops while the walk is under way.                      *)
(*                                                                         *)
(* A timer is 0 (missing_since_us is zero), 1 (running) or 2 (the delay is *)
(* over).  "disk" gives the title found in each source directory and       *)
(* "images" the titles whose linked and indexed image file is there.       *)
(***************************************************************************)
EXTENDS Naturals, FiniteSetsExt

CONSTANTS GameTitles, Sources, MAX_CACHED,
          MaxWorldChanges    \* bound on what happens around the scanner

VARIABLES
    cache,      \* g_game_cache
    disk,       \* the title each source directory holds
    images,     \* titles with an image file behind them
    shield,     \* titles Shellcore or DLC data protects
    listed,     \* titles of app.db that auto-remove may uninstall
    pass,       \* the scanner's place in a full scan
    changes,    \* what has happened around the scanner
    gone        \* the title uninstalled by the last step

cacheVars == <<cache, disk, images, shield, listed, pass, changes, gone>>

NoGame == "none"
EmptyPath == "empty"
Slots == 1..MAX_CACHED
EmptySlot == [valid |-> FALSE, path |-> EmptyPath, title |-> NoGame, timer |-> 0]
Row(p, t) == [valid |-> TRUE, path |-> p, title |-> t, timer |-> 0]

GameCacheInit ==
    /\ cache = [k \in Slots |-> EmptySlot]
    /\ disk \in [Sources -> GameTitles \cup {NoGame}]
    /\ images = {}
    /\ shield = [live |-> {}, dlc |-> {}]
    /\ listed = GameTitles
    /\ pass = [pc |-> "idle", walk |-> {}, seen |-> {}, titles |-> {}, list |-> {}]
    /\ changes = 0
    /\ gone = NoGame

----------------------------------------------------------------------------
(* The table. *)

game_cache_source_exists(e) ==
    \/ e.path # EmptyPath /\ disk[e.path] # NoGame
    \/ e.title \in images

First(c, P(_)) == LET hits == {k \in DOMAIN c : P(c[k])}
                  IN IF hits = {} THEN 0 ELSE Min(hits)

\* The row of the same path or title is overwritten; a full table drops the game.
cache_game_entry(c, p, t) ==
    LET same == First(c, LAMBDA e : e.valid /\ (e.path = p \/ e.title = t))
        free == First(c, LAMBDA e : ~e.valid)
        k == IF same # 0 THEN same ELSE free
    IN IF k = 0 THEN c ELSE [c EXCEPT ![k] = Row(p, t)]

\* The first row of the title with a running timer takes the path that was seen.
note_game_cache_source_seen(c, p, t) ==
    LET k == First(c, LAMBDA e : e.valid /\ e.timer # 0 /\ e.title = t)
    IN IF k = 0 THEN c ELSE [c EXCEPT ![k] = Row(p, t)]

prune_game_cache_entries(auto) ==
    [k \in Slots |->
        IF ~cache[k].valid \/ cache[k].title \in shield.live THEN cache[k]
        ELSE IF game_cache_source_exists(cache[k]) THEN [cache[k] EXCEPT !.timer = 0]
        ELSE IF auto THEN cache[k] ELSE EmptySlot]

title_is_protected_by_dlc(t) == t \in shield.dlc

start_missing_timer(e) == IF e.timer = 0 THEN [e EXCEPT !.timer = 1] ELSE e

\* What the pass makes of the first row of a title on the removable list.
Reconciled(e, t) ==
    IF title_is_protected_by_dlc(t)
    THEN IF game_cache_source_exists(e) THEN [e EXCEPT !.timer = 0] ELSE EmptySlot
    ELSE IF game_cache_source_exists(e) \/ t \in images
         THEN IF e.path = EmptyPath THEN EmptySlot ELSE [e EXCEPT !.timer = 0]
         ELSE start_missing_timer(e)

reconcile_title(c, t) ==
    LET k == First(c, LAMBDA e : e.valid /\ e.title = t)
        free == First(c, LAMBDA e : ~e.valid)
    IN IF k # 0 THEN [c EXCEPT ![k] = Reconciled(c[k], t)]
       ELSE IF free # 0 /\ ~title_is_protected_by_dlc(t) /\ t \notin images
            THEN [c EXCEPT ![free] = start_missing_timer(Row(EmptyPath, t))]
            ELSE c

----------------------------------------------------------------------------
(* The full scan. *)

\* cleanup_lost_sources_before_scan: rows are pruned with auto-remove on.
BeginScan ==
    /\ pass.pc = "idle"
    /\ cache' = prune_game_cache_entries(TRUE)
    /\ pass' = [pass EXCEPT !.pc = "walk", !.walk = Sources]
    /\ gone' = NoGame
    /\ UNCHANGED <<disk, images, shield, listed, changes>>

\* One directory: a protected title is left alone, any other is noted, and the
\* row may be written with this path or with the path the title is linked to.
try_collect_candidate_for_directory(p) ==
    /\ pass.pc = "walk" /\ p \in pass.walk
    /\ LET t == disk[p] IN
       IF t = NoGame \/ t \in shield.live
       THEN /\ pass' = [pass EXCEPT !.walk = @ \ {p}]
            /\ UNCHANGED cache
       ELSE /\ pass' = [pass EXCEPT !.walk = @ \ {p}, !.seen = @ \cup {t}]
            /\ LET noted == note_game_cache_source_seen(cache, p, t)
               IN \/ cache' = noted
                  \/ \E q \in Sources : cache' = cache_game_entry(noted, q, t)
    /\ gone' = NoGame
    /\ UNCHANGED <<disk, images, shield, listed, changes>>

\* defer_full_candidate_batch, or a lifecycle change that is over before
\* should_abort_scan_cycle is asked again.
WalkCutShort ==
    /\ pass.pc = "walk" /\ pass.walk # {}
    /\ pass' = [pass EXCEPT !.walk = {}]
    /\ gone' = NoGame
    /\ UNCHANGED <<cache, disk, images, shield, listed, changes>>

\* should_abort_scan_cycle after the walk: nothing is reconciled.
AbortScan ==
    /\ pass.pc = "walk" /\ pass.walk = {}
    /\ pass' = [pass EXCEPT !.pc = "idle"]
    /\ gone' = NoGame
    /\ UNCHANGED <<cache, disk, images, shield, listed, changes>>

\* Rows without a source that auto-remove does not handle are dropped at once.
BeginReconcile ==
    /\ pass.pc = "walk" /\ pass.walk = {}
    /\ cache' = [k \in Slots |->
                    IF \/ ~cache[k].valid
                       \/ game_cache_source_exists(cache[k])
                       \/ cache[k].title \in shield.live \cup listed
                    THEN cache[k] ELSE EmptySlot]
    /\ pass' = [pass EXCEPT !.pc = "reconcile", !.titles = listed, !.list = listed]
    /\ gone' = NoGame
    /\ UNCHANGED <<disk, images, shield, listed, changes>>

ReconcileTitle(t) ==
    /\ pass.pc = "reconcile" /\ t \in pass.titles
    /\ cache' = IF t \in shield.live THEN cache ELSE reconcile_title(cache, t)
    /\ pass' = [pass EXCEPT !.titles = @ \ {t},
                            !.pc = IF pass.titles = {t} THEN "expire" ELSE @]
    /\ gone' = NoGame
    /\ UNCHANGED <<disk, images, shield, listed, changes>>

NothingListed ==
    /\ pass.pc = "reconcile" /\ pass.titles = {}
    /\ pass' = [pass EXCEPT !.pc = "expire"]
    /\ gone' = NoGame
    /\ UNCHANGED <<cache, disk, images, shield, listed, changes>>

ExpiresAtOnce(e) == e.valid /\ e.timer # 0

missing_timer_expired(e) == e.valid /\ e.timer = 2

\* The expired row is dropped whether or not the uninstall is made or succeeds.
reconcile_missing_app_db_games ==
    /\ pass.pc = "expire"
    /\ LET k == First(cache, LAMBDA e : missing_timer_expired(e)
                                        /\ e.title \notin shield.live)
       IN IF k = 0
          THEN /\ pass' = [pass EXCEPT !.pc = "idle", !.seen = {}, !.list = {}]
               /\ gone' = NoGame
               /\ UNCHANGED <<cache, listed>>
          ELSE LET t == cache[k].title
                   tried == t \in pass.list /\ ~title_is_protected_by_dlc(t)
               IN /\ cache' = [cache EXCEPT ![k] = EmptySlot]
                  /\ gone' = IF tried THEN t ELSE NoGame
                  /\ IF tried THEN listed' \in {listed, listed \ {t}}
                              ELSE UNCHANGED listed
                  /\ UNCHANGED pass
    /\ UNCHANGED <<disk, images, shield, changes>>

----------------------------------------------------------------------------
(* Around the scan. *)

\* A configuration reload that switches auto-remove, on the scanner thread.
reset_missing_game_cache_timers ==
    /\ pass.pc = "idle"
    /\ cache' = [k \in Slots |-> IF cache[k].path = EmptyPath THEN EmptySlot
                                 ELSE [cache[k] EXCEPT !.timer = 0]]
    /\ gone' = NoGame
    /\ UNCHANGED <<disk, images, shield, listed, pass, changes>>

\* With auto-remove off a scan drops rows without a source at once.
PruneWithoutAutoRemove ==
    /\ pass.pc = "idle"
    /\ cache' = prune_game_cache_entries(FALSE)
    /\ gone' = NoGame
    /\ UNCHANGED <<disk, images, shield, listed, pass, changes>>

\* An image unmount drops the rows of its mount point.
clear_cached_game(p) ==
    /\ cache' = [k \in Slots |->
                    IF cache[k].valid /\ cache[k].timer = 0 /\ cache[k].path = p
                    THEN EmptySlot ELSE cache[k]]
    /\ cache' # cache /\ gone' = NoGame
    /\ UNCHANGED <<disk, images, shield, listed, pass, changes>>

\* now_us is read once per pass, and the delay is at least a second.
DelayPasses ==
    /\ pass.pc \in {"idle", "walk"}
    /\ \E k \in Slots : /\ cache[k].timer = 1
                        /\ cache' = [cache EXCEPT ![k].timer = 2]
    /\ gone' = NoGame
    /\ UNCHANGED <<disk, images, shield, listed, pass, changes>>

SourceChanges ==
    /\ changes < MaxWorldChanges /\ changes' = changes + 1
    /\ \E p \in Sources, t \in GameTitles \cup {NoGame} :
          disk[p] # t /\ disk' = [disk EXCEPT ![p] = t]
    /\ gone' = NoGame
    /\ UNCHANGED <<cache, images, shield, listed, pass>>

Toggled(S, t) == IF t \in S THEN S \ {t} ELSE S \cup {t}

ImageChanges ==
    /\ changes < MaxWorldChanges /\ changes' = changes + 1
    /\ \E t \in GameTitles : images' = Toggled(images, t)
    /\ gone' = NoGame
    /\ UNCHANGED <<cache, disk, shield, listed, pass>>

ProtectionChanges ==
    /\ changes < MaxWorldChanges /\ changes' = changes + 1
    /\ \E t \in GameTitles : \/ shield' = [shield EXCEPT !.live = Toggled(@, t)]
                             \/ shield' = [shield EXCEPT !.dlc = Toggled(@, t)]
    /\ gone' = NoGame
    /\ UNCHANGED <<cache, disk, images, listed, pass>>

AppDbChanges ==
    /\ changes < MaxWorldChanges /\ changes' = changes + 1
    /\ \E t \in GameTitles : listed' = Toggled(listed, t)
    /\ gone' = NoGame
    /\ UNCHANGED <<cache, disk, images, shield, pass>>

GameCacheNext ==
    \/ BeginScan \/ WalkCutShort \/ AbortScan \/ BeginReconcile \/ NothingListed
    \/ \E p \in Sources : try_collect_candidate_for_directory(p)
    \/ \E t \in GameTitles : ReconcileTitle(t)
    \/ reconcile_missing_app_db_games
    \/ reset_missing_game_cache_timers \/ PruneWithoutAutoRemove
    \/ \E p \in Sources : clear_cached_game(p)
    \/ DelayPasses \/ SourceChanges \/ ImageChanges \/ ProtectionChanges \/ AppDbChanges

GameCacheSpec == GameCacheInit /\ [][GameCacheNext]_cacheVars

(* Auto-remove (reconcile_missing_app_db_games) never uninstalls a game whose
   source a walk has come across since the previous removal pass: seeing the
   source cancels the pending removal, also when it came back under another
   path, when the table holds several rows for the game, when the game was
   tracked without any path, and when the scan that saw it was cut short. *)
RemovedOnlyWhenMissing == gone # NoGame => gone \notin pass.seen
=============================================================================
