---------------------------- MODULE FakelibCache ----------------------------
(***************************************************************************)
(* The per-title library cache of sm_fakelib.c: a directory built from the    *)
(* game's and the global libraries, with a manifest that names the source     *)
(* signatures it was built from.  prepare_title_cache compares signatures     *)
(* and rebuilds through a temporary tree; the scanner removes expired caches. *)
(* g_fakelib_cache_mutex serialises them, but every file operation may fail,  *)
(* the sources may change, and the daemon may die between any two.            *)
(***************************************************************************)
EXTENDS Naturals

CONSTANT MaxChanges       \* how often the sources change: a bound

VARIABLES
  sources,    \* the version of the source directories
  root,       \* the cache: [manifest, from, whole]; NoTree when absent
  temp,       \* the ".tmp" tree
  job,        \* the holder of the cache mutex: [pc, context]
  overlay,    \* what a game has mounted as its libraries: [on, from, whole]
  shielded    \* sm_shellcore_title_is_protected

fakelibVars == <<sources, root, temp, job, overlay, shielded>>

(* `manifest` is 0 or the version named; `from` the versions read; `whole`:   *)
(* no file is missing.                                                        *)
NoTree == [there |-> FALSE, manifest |-> 0, from |-> {}, whole |-> FALSE]
EmptyTree == [NoTree EXCEPT !.there = TRUE]
Idle == [pc |-> "idle", context |-> 0]

FakelibCacheInit ==
  /\ sources = 1 /\ root = NoTree /\ temp = NoTree /\ job = Idle
  /\ overlay = [on |-> FALSE, from |-> {}, whole |-> TRUE]
  /\ shielded \in BOOLEAN

Step(pc) == job' = [job EXCEPT !.pc = pc]

(* The signatures of the sources stand for their content. *)
compute_cache_context_signatures == sources
read_cache_manifest == root.manifest # 0
cache_manifest_is_current == read_cache_manifest /\ root.manifest = compute_cache_context_signatures

(* prepare_title_cache: current if the manifest names the signatures just     *)
(* computed; no cache wanted any more, or a fingerprint failure, removes it.  *)
prepare_title_cache ==
  /\ job.pc = "idle"
  /\ \/ job' = [pc |-> "unwanted", context |-> 0]
     \/ ~cache_manifest_is_current /\ job' = [pc |-> "clear", context |-> compute_cache_context_signatures]
     \/ cache_manifest_is_current /\ UNCHANGED job
  /\ UNCHANGED <<sources, root, temp, overlay, shielded>>

(* remove_cache_tree: entries go in directory order, and it may stop midway.  *)
PartlyRemoved(tree) == {[tree EXCEPT !.whole = FALSE], [tree EXCEPT !.manifest = 0]}

ClearTemp ==
  /\ job.pc = "clear"
  /\ \/ temp' = EmptyTree /\ Step("copy")
     \/ temp.there /\ temp' \in PartlyRemoved(temp) /\ Step("failed")
  /\ UNCHANGED <<sources, root, overlay, shielded>>

(* The game's or the global libraries first, then what replaces them: the     *)
(* emulators' files and the libraries of the source with priority.            *)
copy_fakelib_source ==
  /\ job.pc = "copy"
  /\ temp' = [temp EXCEPT !.from = {sources}]
  /\ Step("copymore") \/ Step("failed")
  /\ UNCHANGED <<sources, root, overlay, shielded>>

copy_emulator_files_to_cache ==
  /\ job.pc = "copymore"
  /\ \/ temp' = [temp EXCEPT !.from = @ \cup {sources}, !.whole = TRUE] /\ Step("recheck")
     \/ temp' = [temp EXCEPT !.from = @ \cup {sources}] /\ Step("failed")
  /\ UNCHANGED <<sources, root, overlay, shielded>>

(* A mutant: the signatures are not computed again after the copy. *)
NoRecheck == job.pc = "recheck" /\ Step("manifest") /\ UNCHANGED <<sources, root, temp, overlay, shielded>>

RecheckSignatures ==
  /\ job.pc = "recheck"
  /\ Step(IF compute_cache_context_signatures = job.context THEN "manifest" ELSE "failed")
  /\ UNCHANGED <<sources, root, temp, overlay, shielded>>

write_cache_manifest ==
  /\ job.pc = "manifest"
  /\ \/ temp' = [temp EXCEPT !.manifest = job.context] /\ Step("publish")
     \/ UNCHANGED temp /\ Step("failed")
  /\ UNCHANGED <<sources, root, overlay, shielded>>

cache_root_is_mounted == overlay.on

(* The old tree is removed first, then the new one is renamed into place. *)
Publish ==
  /\ job.pc = "publish"
  /\ IF cache_root_is_mounted THEN Step("failed") /\ UNCHANGED root
     ELSE \/ root' = NoTree /\ Step("rename")
          \/ root.there /\ root' \in PartlyRemoved(root) /\ job' \in {job, [job EXCEPT !.pc = "failed"]}
  /\ UNCHANGED <<sources, temp, overlay, shielded>>

RenameTemp ==
  /\ job.pc = "rename"
  /\ \/ root' = temp /\ temp' = NoTree /\ job' = Idle
     \/ UNCHANGED <<root, temp>> /\ Step("failed")
  /\ UNCHANGED <<sources, overlay, shielded>>

(* rebuild_fakelib_cache's failure exit: the temporary tree is removed. *)
DiscardTemp ==
  /\ job.pc = "failed"
  /\ temp' \in {NoTree} \cup (IF temp.there THEN PartlyRemoved(temp) ELSE {})
  /\ Step("unwanted")
  /\ UNCHANGED <<sources, root, overlay, shielded>>

(* remove_title_cache: a protected title keeps its cache; the manifest goes   *)
(* first, then the tree unless it is mounted.                                 *)
remove_title_cache ==
  /\ job.pc = "unwanted"
  /\ root' \in IF shielded \/ ~root.there THEN {root}
               ELSE {[root EXCEPT !.manifest = 0]}
                    \cup (IF cache_root_is_mounted THEN {}
                          ELSE {NoTree, [root EXCEPT !.manifest = 0, !.whole = FALSE]})
  /\ job' = Idle
  /\ UNCHANGED <<sources, temp, overlay, shielded>>

(* cleanup_expired_fakelib_caches: orphaned temporary trees, trees without a  *)
(* manifest and expired ones go, unless protected or mounted; a removal may   *)
(* stop midway.                                                               *)
cleanup_expired_fakelib_caches ==
  /\ job.pc = "idle" /\ ~shielded
  /\ temp' \in {NoTree} \cup (IF temp.there THEN PartlyRemoved(temp) ELSE {})
  /\ root' \in IF cache_root_is_mounted \/ ~root.there THEN {root}
               ELSE {NoTree} \cup PartlyRemoved(root)
                    \cup (IF root.manifest = 0 THEN {} ELSE {root})
  /\ UNCHANGED <<sources, job, overlay, shielded>>

(* resolve_cached_fakelib and the mount: a manifest of this context, whose    *)
(* signatures are not compared again, and a library directory.                *)
resolve_cached_fakelib ==
  /\ job.pc = "idle" /\ ~overlay.on /\ read_cache_manifest
  /\ overlay' = [on |-> TRUE, from |-> root.from, whole |-> root.whole]
  /\ UNCHANGED <<sources, root, temp, job, shielded>>

GameExits ==
  /\ overlay.on
  /\ overlay' = [on |-> FALSE, from |-> {}, whole |-> TRUE]
  /\ UNCHANGED <<sources, root, temp, job, shielded>>

SourcesChange ==
  /\ sources <= MaxChanges
  /\ sources' = sources + 1
  /\ UNCHANGED <<root, temp, job, overlay, shielded>>

ProtectionChanges ==
  /\ shielded' = ~shielded
  /\ UNCHANGED <<sources, root, temp, job, overlay>>

(* The daemon dies: the trees and the game's mount stay. *)
DaemonDies ==
  /\ job.pc # "idle"
  /\ job' = Idle
  /\ UNCHANGED <<sources, root, temp, overlay, shielded>>

FakelibCacheNext ==
  \/ prepare_title_cache \/ ClearTemp \/ copy_fakelib_source \/ copy_emulator_files_to_cache
  \/ RecheckSignatures
  \/ write_cache_manifest \/ Publish \/ RenameTemp \/ DiscardTemp \/ remove_title_cache
  \/ cleanup_expired_fakelib_caches \/ resolve_cached_fakelib
  \/ GameExits \/ SourcesChange \/ ProtectionChanges \/ DaemonDies

FakelibCacheSpec == FakelibCacheInit /\ [][FakelibCacheNext]_fakelibVars

-----------------------------------------------------------------------------
(* A cache with a manifest holds files of the one source version its          *)
(* signatures were computed from: never a mixture of two versions, whatever   *)
(* changed, failed or died during the build.                                  *)
ManifestNamesSources == root.manifest # 0 => root.from = {root.manifest}

(* The libraries a game gets from the cache are complete: the global and the  *)
(* per-game files combined.                                                   *)
MountedCacheIsWhole == overlay.on => overlay.whole
=============================================================================
