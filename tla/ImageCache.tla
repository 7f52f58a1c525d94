----------------------------- MODULE ImageCache -----------------------------
(***************************************************************************)
(* The image attachment table of sm_image_cache.c: one record per image    *)
(* source, holding its mount point, the kernel unit attached for it, the   *)
(* identity of the unit's device node and the progress of a detach.        *)
(*                                                                         *)
(* Every operation of the table runs under g_image_cache_mutex, so each is *)
(* one action.  A pair (backend, unit_id) is one device name (/dev/mdN or  *)
(* /dev/lvdN) and is modelled by one element of Devices; NoDevice stands   *)
(* for ATTACH_BACKEND_NONE with unit -1.  The triple (st_dev, st_ino,      *)
(* st_rdev) that identifies a device node is a number, 0 when unknown.     *)
(* An operation that returns false without changing the table is not a     *)
(* step here; the modules that call it negate its guard.                   *)
(***************************************************************************)
EXTENDS Naturals

CONSTANTS MAX_IMAGE_MOUNTS, Paths, MountPoints, Devices,
          NoPath, NoMountPoint, NoDevice,
          Identities,       \* identities a device node may have
          MaxGeneration     \* bound on the generations handed out

ASSUME CacheConstants ==
    /\ MAX_IMAGE_MOUNTS \in Nat
    /\ MaxGeneration \in Nat
    /\ Identities \subseteq Nat \ {0}
    /\ NoPath \notin Paths
    /\ NoMountPoint \notin MountPoints
    /\ NoDevice \notin Devices

VARIABLES
    g_image_cache,              \* the table
    g_image_cache_generation,   \* the last generation handed out
    node                        \* kernel: identity of each device node, 0 = absent

cacheVars == <<g_image_cache, g_image_cache_generation, node>>

Slots == 0 .. MAX_IMAGE_MOUNTS - 1

AttachedStates == {"RELEASED", "ATTACHING", "MOUNTED", "DETACH_REQUESTED"}

ImageCacheEntry ==
    [valid : BOOLEAN, generation : Nat,
     path : Paths \cup {NoPath}, mount_point : MountPoints \cup {NoMountPoint},
     device : Devices \cup {NoDevice}, state : AttachedStates,
     requested : BOOLEAN, identity : Nat, detach_attempt_active : BOOLEAN]

(* memset(entry, 0, sizeof *entry). *)
Wiped ==
    [valid |-> FALSE, generation |-> 0, path |-> NoPath,
     mount_point |-> NoMountPoint, device |-> NoDevice, state |-> "RELEASED",
     requested |-> FALSE, identity |-> 0, detach_attempt_active |-> FALSE]

-----------------------------------------------------------------------------
(* Lookups. *)

PathOwners(path) ==
    {k \in Slots : g_image_cache[k].valid /\ g_image_cache[k].path = path}

MountOwners(mount_point) ==
    {k \in Slots : g_image_cache[k].valid
                   /\ g_image_cache[k].mount_point = mount_point}

cache_entry_is_metadata_only(entry) ==
    /\ entry.state = "RELEASED"
    /\ entry.device = NoDevice
    /\ ~entry.detach_attempt_active

(* A reservation: begun under this generation, its unit not yet published. *)
IsReservation(k, path, generation) ==
    /\ k \in PathOwners(path)
    /\ generation # 0
    /\ g_image_cache[k].generation = generation
    /\ g_image_cache[k].state = "ATTACHING"
    /\ g_image_cache[k].device = NoDevice

find_attachment_record(path, generation, device) ==
    {k \in PathOwners(path) : /\ g_image_cache[k].generation = generation
                              /\ g_image_cache[k].device = device}

(* stat() of the device node, unless an identity has been recorded already. *)
refresh_attached_unit_identity(entry) ==
    [entry EXCEPT !.identity = IF @ # 0 \/ entry.device = NoDevice
                               THEN @ ELSE node[entry.device]]

-----------------------------------------------------------------------------
(* Upsert of a source mapping: the slot it returns, if any, the table and  *)
(* the generation counter it leaves.                                       *)

FreeSlots == {k \in Slots : ~g_image_cache[k].valid}

FirstFree == {k \in FreeSlots : \A j \in FreeSlots : k <= j}

IsMapped(k, path, mount_point) ==
    k \in PathOwners(path) \cap MountOwners(mount_point)

UpsertSlots(path, mount_point) ==
    LET owners == PathOwners(path) \cup MountOwners(mount_point) IN
    IF owners = {} THEN FirstFree
    ELSE {k \in owners :
            /\ \A i, j \in PathOwners(path) : i = j
            /\ \A i, j \in MountOwners(mount_point) : i = j
            /\ k \in PathOwners(path) \/ PathOwners(path) = {}
            /\ \/ IsMapped(k, path, mount_point)
               \/ \A j \in owners : cache_entry_is_metadata_only(g_image_cache[j])}

(* A mapping that changes gets a new generation; a second metadata-only    *)
(* owner of the mount point is merged away.                                *)
UpsertTable(k, path, mount_point) ==
    IF IsMapped(k, path, mount_point) THEN g_image_cache
    ELSE [j \in Slots |->
            IF j = k
            THEN [g_image_cache[k] EXCEPT
                    !.valid = TRUE, !.path = path, !.mount_point = mount_point,
                    !.generation = g_image_cache_generation + 1]
            ELSE IF j \in MountOwners(mount_point) THEN Wiped
            ELSE g_image_cache[j]]

UpsertGeneration(k, path, mount_point) ==
    IF IsMapped(k, path, mount_point)
    THEN g_image_cache_generation ELSE g_image_cache_generation + 1

-----------------------------------------------------------------------------
(* Operations. *)

cache_image_source_mapping(path, mount_point) ==
    \E k \in UpsertSlots(path, mount_point) :
      /\ g_image_cache' = UpsertTable(k, path, mount_point)
      /\ g_image_cache_generation' = UpsertGeneration(k, path, mount_point)

begin_image_attachment(path, mount_point) ==
    \E k \in UpsertSlots(path, mount_point) :
      LET upserted   == UpsertTable(k, path, mount_point)
          generation == UpsertGeneration(k, path, mount_point) + 1
      IN /\ cache_entry_is_metadata_only(upserted[k])
         /\ g_image_cache' =
              [upserted EXCEPT ![k] =
                 [@ EXCEPT !.generation = generation, !.state = "ATTACHING",
                           !.requested = FALSE, !.identity = 0]]
         /\ g_image_cache_generation' = generation

cancel_image_attachment(path, generation) ==
    \E k \in Slots :
      /\ IsReservation(k, path, generation)
      /\ g_image_cache' = [g_image_cache EXCEPT ![k] = Wiped]
      /\ UNCHANGED g_image_cache_generation

publish_image_attachment(path, generation, device) ==
    \E k \in Slots :
      /\ IsReservation(k, path, generation)
      /\ g_image_cache' = [g_image_cache EXCEPT ![k] =
                             refresh_attached_unit_identity(
                               [@ EXCEPT !.device = device])]
      /\ UNCHANGED g_image_cache_generation

complete_image_attachment(path, generation, device) ==
    \E k \in find_attachment_record(path, generation, device) :
      /\ g_image_cache[k].state = "ATTACHING"
      /\ g_image_cache' = [g_image_cache EXCEPT ![k] =
                             refresh_attached_unit_identity(
                               [@ EXCEPT !.state = "MOUNTED"])]
      /\ UNCHANGED g_image_cache_generation

(* Mutant: an adopted mount keeps the generation of the mapping. *)
AdoptUnderOldGeneration(path, mount_point, device) ==
    \E k \in UpsertSlots(path, mount_point) :
      /\ g_image_cache' =
           [UpsertTable(k, path, mount_point) EXCEPT ![k] =
              refresh_attached_unit_identity(
                [@ EXCEPT !.device = device, !.state = "MOUNTED",
                          !.detach_attempt_active = FALSE,
                          !.requested = FALSE, !.identity = 0])]
      /\ g_image_cache_generation' = UpsertGeneration(k, path, mount_point)

(* Adopts a mount found in place, whatever the record said before. *)
cache_image_mount(path, mount_point, device) ==
    \E k \in UpsertSlots(path, mount_point) :
      LET generation == UpsertGeneration(k, path, mount_point) + 1 IN
      /\ g_image_cache' =
           [UpsertTable(k, path, mount_point) EXCEPT ![k] =
              refresh_attached_unit_identity(
                [@ EXCEPT !.generation = generation, !.device = device,
                          !.state = "MOUNTED", !.detach_attempt_active = FALSE,
                          !.requested = FALSE, !.identity = 0])]
      /\ g_image_cache_generation' = generation

(* Returns true iff the identity of the device node is known afterwards. *)
mark_image_cache_detach_requested(path, generation, device) ==
    \E k \in find_attachment_record(path, generation, device) :
      /\ g_image_cache' = [g_image_cache EXCEPT ![k] =
                             refresh_attached_unit_identity(
                               [@ EXCEPT !.state = "DETACH_REQUESTED"])]
      /\ UNCHANGED g_image_cache_generation

claim_image_cache_detach(path, generation, device) ==
    \E k \in find_attachment_record(path, generation, device) :
      LET entry == refresh_attached_unit_identity(g_image_cache[k]) IN
      /\ ~g_image_cache[k].detach_attempt_active
      /\ entry.identity # 0
      /\ g_image_cache' = [g_image_cache EXCEPT ![k] =
                             [entry EXCEPT !.state = "DETACH_REQUESTED",
                                           !.detach_attempt_active = TRUE]]
      /\ UNCHANGED g_image_cache_generation

finish_image_cache_detach_attempt(path, generation, device, identity, requested) ==
    \E k \in find_attachment_record(path, generation, device) :
      /\ g_image_cache[k].detach_attempt_active
      /\ identity # 0
      /\ g_image_cache[k].identity = identity
      /\ g_image_cache' = [g_image_cache EXCEPT ![k] =
                             [@ EXCEPT !.requested = requested,
                                       !.state = "DETACH_REQUESTED",
                                       !.detach_attempt_active = FALSE]]
      /\ UNCHANGED g_image_cache_generation

(* The copy of a record handed to callers: all of it but the claim flag. *)
copy_cache_entry(k) ==
    [g_image_cache[k] EXCEPT !.detach_attempt_active = FALSE]

invalidate_image_cache_entry(k, expected) ==
    /\ g_image_cache[k].valid
    /\ ~g_image_cache[k].detach_attempt_active
    /\ g_image_cache[k].identity # 0
    /\ expected = copy_cache_entry(k)
    /\ g_image_cache' = [g_image_cache EXCEPT ![k] = Wiped]
    /\ UNCHANGED g_image_cache_generation

-----------------------------------------------------------------------------
(* The table under arbitrary callers: any thread may call any operation    *)
(* with any arguments, a generation or a copy it read long ago included,   *)
(* while the kernel creates and removes device nodes.                      *)

CacheInit ==
    /\ g_image_cache = [k \in Slots |-> Wiped]
    /\ g_image_cache_generation = 0
    /\ node \in [Devices -> Identities \cup {0}]

MappingCall ==
    /\ g_image_cache_generation + 2 <= MaxGeneration
    /\ \E path \in Paths, mount_point \in MountPoints :
         \/ cache_image_source_mapping(path, mount_point)
         \/ begin_image_attachment(path, mount_point)
         \/ \E device \in Devices : cache_image_mount(path, mount_point, device)

AttachmentCall ==
    \E path \in Paths, generation \in 1 .. g_image_cache_generation :
      \/ cancel_image_attachment(path, generation)
      \/ \E device \in Devices :
           \/ publish_image_attachment(path, generation, device)
           \/ complete_image_attachment(path, generation, device)

DetachCall ==
    \/ \E path \in Paths, generation \in 1 .. g_image_cache_generation,
          device \in Devices :
         \/ mark_image_cache_detach_requested(path, generation, device)
         \/ claim_image_cache_detach(path, generation, device)
         \/ \E identity \in Identities, requested \in BOOLEAN :
              finish_image_cache_detach_attempt(path, generation, device,
                                                identity, requested)
    \/ \E k \in Slots : invalidate_image_cache_entry(k, copy_cache_entry(k))

NodeChanges ==
    /\ \E device \in Devices, identity \in Identities \cup {0} :
         node' = [node EXCEPT ![device] = identity]
    /\ UNCHANGED <<g_image_cache, g_image_cache_generation>>

CacheNext ==
    \/ MappingCall /\ UNCHANGED node
    \/ AttachmentCall /\ UNCHANGED node
    \/ DetachCall /\ UNCHANGED node
    \/ NodeChanges

CacheSpec == CacheInit /\ [][CacheNext]_cacheVars

-----------------------------------------------------------------------------
(* Properties. *)

RecordTypes ==
    /\ g_image_cache \in [Slots -> ImageCacheEntry]
    /\ g_image_cache_generation \in Nat
    /\ node \in [Devices -> Nat]

(* The table holds well-formed records, and a slot that is not in use is   *)
(* clear: upsert_image_source_mapping fills a free slot field by field and *)
(* relies on the fields it does not write.                                 *)
CacheTypeOK ==
    /\ RecordTypes
    /\ \A k \in Slots : ~g_image_cache[k].valid => g_image_cache[k] = Wiped

(* No two valid records share a source path, a mount point or a generation: *)
(* the lookups of sm_image_cache.c that stop at the first match are         *)
(* unambiguous, and find_mapping_indices never meets its EEXIST case.       *)
UniqueOwners ==
    \A j, k \in Slots :
      (j # k /\ g_image_cache[j].valid /\ g_image_cache[k].valid) =>
        /\ g_image_cache[j].path # g_image_cache[k].path
        /\ g_image_cache[j].mount_point # g_image_cache[k].mount_point
        /\ g_image_cache[j].generation # g_image_cache[k].generation

SameAttachment(old, new) ==
    /\ old.valid
    /\ old.generation = new.generation
    /\ old.path = new.path
    /\ old.mount_point = new.mount_point
    /\ old.device \in {NoDevice, new.device}
    /\ old.identity \in {0, new.identity}

NamesAttachmentStep ==
    \A k \in Slots : g_image_cache'[k].valid =>
      \/ g_image_cache'[k].generation > g_image_cache_generation
      \/ SameAttachment(g_image_cache[k], g_image_cache'[k])

(* A generation names one attachment for ever: after any step each valid    *)
(* record either carries a generation that was never handed out before, or  *)
(* is the same mapping, unit and node identity, in the same slot, that the  *)
(* generation named already.  A caller holding an old generation can never  *)
(* act on a newer attachment of the same path.                              *)
GenerationNamesAttachment == [][NamesAttachmentStep]_cacheVars

KeepsMapping(old, new) ==
    /\ new.valid
    /\ new.path = old.path
    /\ new.mount_point = old.mount_point

MayBeWiped(old) ==
    \/ old.state = "ATTACHING" /\ old.device = NoDevice
    \/ old.identity # 0 /\ ~old.detach_attempt_active

MappingKeptStep ==
    \A k \in Slots :
      g_image_cache[k].valid /\ ~cache_entry_is_metadata_only(g_image_cache[k]) =>
        \/ KeepsMapping(g_image_cache[k], g_image_cache'[k])
        \/ ~g_image_cache'[k].valid /\ MayBeWiped(g_image_cache[k])

(* "Conflicting active source-path and mount-point owners are never         *)
(* retargeted" (sm_image_cache.h): a record that reserves or holds a unit   *)
(* keeps its mapping until it is wiped, and it is wiped only as a           *)
(* reservation without a unit or, when it holds one, with the identity of   *)
(* the device node known and no detach attempt in flight.                   *)
ActiveMappingKept == [][MappingKeptStep]_cacheVars

=============================================================================
