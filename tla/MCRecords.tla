----------------------------- MODULE MCRecords ------------------------------
(***************************************************************************)
(* The components that keep a record of something outside them: the tables *)
(* of images, states, watches and games, the link and configuration files, *)
(* the library cache and its mounts, the hooks in ShellCore, and the tree  *)
(* copy.  They do not touch each other's state, so `side` picks the one    *)
(* component a behaviour is about.  The image table and the library cache  *)
(* have variables of their own; the others are instances over v1 .. v8,    *)
(* which hold the state of the component picked and 0 where it has fewer.  *)
(***************************************************************************)
EXTENDS ImageCache, FakelibCache

CONSTANTS p1, p2, m1, m2, d1, A, B

VARIABLES side, v1, v2, v3, v4, v5, v6, v7, v8

shared == <<v1, v2, v3, v4, v5, v6, v7, v8>>
mcVars == <<side, cacheVars, fakelibVars, shared>>

(* Two of three keys collide in the hash, and the table holds two rows. *)
States == INSTANCE StateTables WITH
  StateKeys <- {"a", "b", "c"}, Fnv <- [a |-> 2, b |-> 2, c |-> 0],
  CAPACITY <- 2, STATE_HASH_SIZE <- 3, MAX_COUNT <- 1,
  kind <- v1, rows <- v2, hash <- v3, present <- v4

(* A configured root below a USB mount point, the mount point itself and the *)
(* USB subscription share directories.                                       *)
Watches == INSTANCE WatchRegistry WITH
  WatchRoots <- {"usb0", "games"}, UsbIndex <- "usb", OnUsb <- {"games"}, MaxInode <- 3,
  Tree <- [usb0 |-> <<"/mnt/usb0", "/mnt/usb0/games">>, games |-> <<"/mnt/usb0/games">>,
           usb |-> <<"/mnt/usb0">>],
  ParentDirs <- [usb0 |-> <<>>, games |-> <<"/mnt/usb0">>],
  registry <- v1, inode <- v2

Games == INSTANCE GameCache WITH
  GameTitles <- {"A", "B"}, Sources <- {"p", "q"}, MAX_CACHED <- 2, MaxWorldChanges <- 2,
  cache <- v1, disk <- v2, images <- v3, shield <- v4, listed <- v5, pass <- v6,
  changes <- v7, gone <- v8

Tree == INSTANCE StorageTree WITH
  Walk <- <<"enter", "file", "file", "enter", "file", "file", "file", "leave", "file", "leave">>,
  STORAGE_PENDING_FILES <- 2,
  at <- v1, dirs <- v2, files <- v3, walk <- v4, cancelled <- v5

Config == INSTANCE ConfigFiles WITH
  Values <- {0, 1}, MaxEdits <- 2, MaxCrashes <- 2,
  disk <- v1, stamp <- v2, mig <- v3, conf <- v4, fresh <- v5, meddled <- v6, budget <- v7

Links == INSTANCE TitleLinks WITH
  FolderSources <- {"F"}, ImageSources <- {"A"}, UsbSources <- {"A"},
  MaxLayers <- 3, MaxFaults <- 3,
  link <- v1, stack <- v2, world <- v3, scan <- v4, runtime <- v5, up <- v6

Hooks == INSTANCE ShellcoreHooks WITH
  HookCount <- 3, MaxShells <- 2, shellcore <- v1, g_hooks <- v2, program <- v3

Session == INSTANCE FakelibSession WITH
  SandboxTitles <- {A, B}, GamePids <- {1}, Volumes <- {1}, OthersMount <- {A},
  session <- v1, kernel <- v2, volume <- v3, requests <- v4, live <- v5, mode <- v6

Unused8 == v8 = 0
Unused7 == v7 = 0 /\ Unused8
Unused6 == v6 = 0 /\ Unused7
Unused5 == v5 = 0 /\ Unused6
Unused4 == v4 = 0 /\ Unused5
Unused3 == v3 = 0 /\ Unused4

(* Titles and sources are interchangeable: "A" comes first, and in "p". *)
UpToNames == v2["p"] # "B" /\ (v2["p"] = "A" \/ v2["q"] = v2["p"])

SharedInit ==
  \/ side \in {"images", "library"} /\ v1 = 0 /\ v2 = 0 /\ Unused3
  \/ side = "states" /\ States!TableInit /\ Unused5
  \/ side = "watches" /\ Watches!RegistryInit /\ Unused3
  \/ side = "games" /\ Games!GameCacheInit /\ UpToNames
  \/ side = "tree" /\ Tree!TreeInit /\ Unused6
  \/ side = "config" /\ Config!ConfInit /\ Unused8
  \/ side = "links" /\ Links!TitleInit /\ Unused7
  \/ side = "hooks" /\ Hooks!HookInit /\ Unused4
  \/ side = "sandbox" /\ Session!SessionInit /\ Unused7

MCInit ==
  /\ SharedInit
  /\ CacheInit /\ (side = "images" \/ node = [d \in Devices |-> 0])
  /\ FakelibCacheInit /\ (side = "library" \/ ~shielded)

OwnUnchanged == UNCHANGED <<side, cacheVars, fakelibVars>>

ImagesMove == side = "images" /\ CacheNext /\ UNCHANGED <<side, shared, fakelibVars>>
LibraryMoves == side = "library" /\ FakelibCacheNext /\ UNCHANGED <<side, shared, cacheVars>>
StatesMove == side = "states" /\ States!TableNext /\ UNCHANGED <<v5, v6, v7, v8>> /\ OwnUnchanged
WatchesMove == /\ side = "watches" /\ Watches!RegistryNext
               /\ UNCHANGED <<v3, v4, v5, v6, v7, v8>> /\ OwnUnchanged
GamesMove == side = "games" /\ Games!GameCacheNext /\ OwnUnchanged
TreeMoves == side = "tree" /\ Tree!TreeNext /\ UNCHANGED <<v6, v7, v8>> /\ OwnUnchanged
ConfigMoves == side = "config" /\ Config!ConfNext /\ UNCHANGED v8 /\ OwnUnchanged
LinksMove == side = "links" /\ Links!TitleNext /\ UNCHANGED <<v7, v8>> /\ OwnUnchanged
HooksMove == /\ side = "hooks" /\ Hooks!HookNext
             /\ UNCHANGED <<v4, v5, v6, v7, v8>> /\ OwnUnchanged
SandboxMoves == side = "sandbox" /\ Session!SessionNext /\ UNCHANGED <<v7, v8>> /\ OwnUnchanged

MCNext ==
  \/ ImagesMove \/ LibraryMoves \/ StatesMove \/ WatchesMove \/ GamesMove \/ TreeMoves
  \/ ConfigMoves \/ LinksMove \/ HooksMove \/ SandboxMoves

MCSpec == MCInit /\ [][MCNext]_mcVars

-----------------------------------------------------------------------------
(* The retry tables find every row they hold and no other, however rows were *)
(* evicted (find_title_state, find_path_state, rebuild_state_hash).          *)
TableFindsEntries == side = "states" => States!TableFindsEntries

(* A watched descriptor has one entry that owns it, and the index by         *)
(* descriptor leads to that entry (remove_scanner_watch_entry_at).           *)
OneOwnerPerFd == side = "watches" => Watches!OneOwnerPerFd

(* A title is uninstalled only when its source was found missing             *)
(* (reconcile_game_cache).                                                   *)
RemovedOnlyWhenMissing == side = "games" => Games!RemovedOnlyWhenMissing

(* A tree copy that succeeds has flushed every file (copy_storage_path).     *)
SuccessIsDurable == side = "tree" => Tree!SuccessIsDurable

(* A migration or a reload cut anywhere loses no setting                     *)
(* (sm_config_migrate_files, reload_runtime_config_if_changed).              *)
NoSettingIsLost == side = "config" => Config!NoSettingIsLost

(* The last link file of a source goes only after its mounts                 *)
(* (cleanup_mount_links_entry).                                              *)
LinkOutlivesStack == [][side = "links" => Links!LinkOutlivesStackStep]_mcVars

(* Every patched site of the running ShellCore is accounted for              *)
(* (sm_shellcore_hooks_start, _refresh, _stop).                              *)
HooksAccounted == side = "hooks" => Hooks!HooksAccounted

(* Every layer the daemon mounted in a sandbox is recorded in                *)
(* g_fakelib_mount until it is unmounted.                                    *)
MountsAreRecorded == side = "sandbox" => Session!MountsAreRecorded

(* Once the USB aliases of a session were reported released for a sleep, no  *)
(* late sandbox request brings one back (mount_fakelib_for_game_locked).     *)
AliasesStayReleased == side = "sandbox" => Session!AliasesStayReleased
=============================================================================
