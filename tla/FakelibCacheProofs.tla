------------------------- MODULE FakelibCacheProofs -------------------------
(***************************************************************************)
(* Proof that a library cache with a manifest holds one version of its        *)
(* sources, for any number of changes of the sources.                         *)
(***************************************************************************)
EXTENDS FakelibCache, TLAPS

Versions == Nat \ {0}

Trees == [there : BOOLEAN, manifest : Nat, from : SUBSET Versions, whole : BOOLEAN]

(* The steps of a build from its first copy on, and from its last check on.   *)
Copying == {"copymore", "recheck"}
Checked == {"manifest", "publish", "rename"}

FakelibTypeOK ==
  /\ sources \in Versions
  /\ root \in Trees /\ temp \in Trees
  /\ job \in [pc : {"idle", "unwanted", "clear", "copy", "failed"} \cup Copying \cup Checked,
              context : 0 .. sources]

(* While a build copies, everything it has read is of the version it began    *)
(* with or a later one.  Once the signatures were found unchanged, all of it  *)
(* is of that version.                                                        *)
BuildInv ==
  /\ job.pc \in {"clear", "copy"} \cup Copying \cup Checked => job.context # 0
  /\ job.pc \in {"copy", "manifest"} \cup Copying => temp.manifest = 0
  /\ job.pc \in Copying => temp.from # {} /\ \A v \in temp.from : job.context <= v /\ v <= sources
  /\ job.pc \in Checked => temp.from = {job.context}
  /\ job.pc \in {"publish", "rename"} => temp.manifest = job.context

FakelibInv == FakelibTypeOK /\ BuildInv /\ ManifestNamesSources

-----------------------------------------------------------------------------
USE DEF Versions, Copying, Checked

(* The daemon starts with no cache, no build and no mount.                    *)
LEMMA InitFakelib == FakelibCacheInit => FakelibInv
  BY DEF FakelibCacheInit, FakelibInv, FakelibTypeOK, BuildInv, ManifestNamesSources, Trees, NoTree,
         Idle

(* Removing a tree midway leaves a tree that vouches for no more than before. *)
LEMMA PartlyRemovedFacts ==
  ASSUME NEW tree \in Trees, NEW left \in PartlyRemoved(tree)
  PROVE  left \in Trees /\ left.from = tree.from /\ left.manifest \in {0, tree.manifest}
<1>1. CASE left = [tree EXCEPT !.whole = FALSE]
  BY <1>1, Zenon DEF Trees
<1>2. CASE left = [tree EXCEPT !.manifest = 0]
  BY <1>2 DEF Trees
<1> QED
  BY <1>1, <1>2 DEF PartlyRemoved

(* The trees of rebuild_fakelib_cache before a copy vouch for nothing.        *)
LEMMA TreeFacts == NoTree \in Trees /\ EmptyTree \in Trees /\ NoTree.manifest = 0 /\ EmptyTree.manifest = 0
  BY Zenon DEF NoTree, EmptyTree, Trees

(* Every step of the build, the removals, the game and the sources keeps it.  *)
LEMMA NextFakelib == FakelibInv /\ [FakelibCacheNext]_fakelibVars => FakelibInv'
<1> SUFFICES ASSUME FakelibInv, [FakelibCacheNext]_fakelibVars PROVE FakelibInv'
  OBVIOUS
<1> USE DEF FakelibInv, FakelibTypeOK, BuildInv, ManifestNamesSources, Step
<1>0. sources \in Nat /\ job.context \in Nat /\ \A v \in temp.from : v \in Nat /\ v # 0
  BY DEF Trees
<1>1. CASE prepare_title_cache
  BY <1>1 DEF prepare_title_cache, compute_cache_context_signatures
<1>2. CASE ClearTemp
  BY <1>2, PartlyRemovedFacts, TreeFacts DEF ClearTemp
<1>3. CASE copy_fakelib_source
  <2>1. temp' = [temp EXCEPT !.from = {sources}] /\ temp' \in Trees
    BY <1>3 DEF copy_fakelib_source, Trees
  <2>2. temp'.from = {sources} /\ temp'.manifest = temp.manifest
    BY <2>1 DEF Trees
  <2>3. /\ UNCHANGED <<sources, root>> /\ job.pc = "copy"
        /\ job' \in {[job EXCEPT !.pc = "copymore"], [job EXCEPT !.pc = "failed"]}
    BY <1>3 DEF copy_fakelib_source
  <2>4. FakelibTypeOK'
    BY <2>1, <2>3
  <2>5. BuildInv'
    BY <2>2, <2>3
  <2> QED
    BY <2>3, <2>4, <2>5
<1>4. CASE copy_emulator_files_to_cache
  <2>1. \/ temp' = [temp EXCEPT !.from = @ \cup {sources}, !.whole = TRUE]
        \/ temp' = [temp EXCEPT !.from = @ \cup {sources}]
    BY <1>4 DEF copy_emulator_files_to_cache
  <2>2. /\ temp' \in Trees
        /\ temp'.from = temp.from \cup {sources} /\ temp'.manifest = temp.manifest
    <3>1. temp.from \cup {sources} \in SUBSET Versions
      BY DEF Trees
    <3> QED
      BY <2>1, <3>1, ZenonT(30) DEF Trees
  <2>3. UNCHANGED <<sources, root>> /\ job' \in {[job EXCEPT !.pc = "recheck"], [job EXCEPT !.pc = "failed"]}
    BY <1>4 DEF copy_emulator_files_to_cache
  <2>4. job.pc = "copymore"
    BY <1>4 DEF copy_emulator_files_to_cache
  <2>5. FakelibTypeOK'
    BY <2>2, <2>3
  <2>6. BuildInv'
    BY <1>0, <2>2, <2>3, <2>4
  <2> QED
    BY <2>3, <2>5, <2>6
<1>5. CASE RecheckSignatures
  <2>1. FakelibTypeOK' /\ ManifestNamesSources'
    BY <1>5 DEF RecheckSignatures
  <2>2. sources = job.context => temp.from = {job.context}
    BY <1>0, <1>5 DEF RecheckSignatures
  <2>3. BuildInv'
    BY <1>5, <2>2 DEF RecheckSignatures, compute_cache_context_signatures
  <2> QED
    BY <2>1, <2>3
<1>6. CASE write_cache_manifest
  BY <1>6 DEF write_cache_manifest, Trees
<1>7. CASE Publish
  BY <1>7, PartlyRemovedFacts, TreeFacts DEF Publish
<1>8. CASE RenameTemp
  BY <1>8, TreeFacts DEF RenameTemp, Idle
<1>9. CASE DiscardTemp
  BY <1>9, PartlyRemovedFacts, TreeFacts DEF DiscardTemp
<1>10. CASE remove_title_cache
  <2>1. root' \in Trees /\ root'.manifest \in {0, root.manifest}
        /\ (root'.manifest # 0 => root'.from = root.from)
    <3>1. \/ root' = root \/ root' = NoTree
          \/ root' = [root EXCEPT !.manifest = 0]
          \/ root' = [root EXCEPT !.manifest = 0, !.whole = FALSE]
      BY <1>10 DEF remove_title_cache
    <3>2. CASE root' = [root EXCEPT !.manifest = 0]
      BY <3>2 DEF Trees
    <3>3. CASE root' = [root EXCEPT !.manifest = 0, !.whole = FALSE]
      BY <3>3, Zenon DEF Trees
    <3> QED
      BY <3>1, <3>2, <3>3, TreeFacts
  <2> QED
    BY <1>10, <2>1 DEF remove_title_cache, Idle
<1>11. CASE cleanup_expired_fakelib_caches
  BY <1>11, PartlyRemovedFacts, TreeFacts DEF cleanup_expired_fakelib_caches
<1>12. CASE resolve_cached_fakelib
  BY <1>12 DEF resolve_cached_fakelib
<1>13. CASE GameExits \/ ProtectionChanges \/ UNCHANGED fakelibVars
  BY <1>13 DEF GameExits, ProtectionChanges, fakelibVars
<1>14. CASE SourcesChange
  <2>1. sources' \in Versions /\ sources < sources' /\ UNCHANGED <<root, temp, job>>
    BY <1>14 DEF SourcesChange
  <2>2. 0 .. sources \subseteq 0 .. sources'
    BY <2>1
  <2>3. FakelibTypeOK'
    BY <2>1, <2>2
  <2>4. \A v \in temp.from : v <= sources => v <= sources'
    BY <1>0, <2>1
  <2>5. BuildInv'
    BY <2>1, <2>4
  <2> QED
    BY <2>1, <2>3, <2>5
<1>15. CASE DaemonDies
  BY <1>15 DEF DaemonDies, Idle
<1> QED
  BY <1>1, <1>2, <1>3, <1>4, <1>5, <1>6, <1>7, <1>8, <1>9, <1>10, <1>11, <1>12, <1>13, <1>14, <1>15
     DEF FakelibCacheNext

(* rebuild_fakelib_cache and the removals around it keep the build invariant. *)
THEOREM FakelibInvariance == FakelibCacheSpec => []FakelibInv
  BY InitFakelib, NextFakelib, PTL DEF FakelibCacheSpec

(* Whatever changes, fails or dies during a build of sm_fakelib.c, a manifest *)
(* in the cache names the one version of the sources its files come from.     *)
THEOREM ManifestsNameSources == FakelibCacheSpec => []ManifestNamesSources
<1>1. FakelibInv => ManifestNamesSources
  BY DEF FakelibInv
<1> QED
  BY <1>1, FakelibInvariance, PTL
=============================================================================
