-------------------------- MODULE ImageCacheProofs --------------------------
(***************************************************************************)
(* Proofs about the attachment table, for every number of slots and every  *)
(* set of paths, mount points and devices.                                 *)
(***************************************************************************)
EXTENDS ImageCache, TLAPS

(* Pairwise distinct paths, mount points and generations in a table t. *)
DistinctOwners(t) ==
    \A j, k \in Slots :
      (j # k /\ t[j].valid /\ t[k].valid) =>
        /\ t[j].path # t[k].path
        /\ t[j].mount_point # t[k].mount_point
        /\ t[j].generation # t[k].generation

(* A slot is wiped, or maps a path under a generation already handed out. *)
IssuedGenerations(t, g) ==
    \A k \in Slots :
      IF t[k].valid THEN t[k].generation \in 1 .. g /\ t[k].path \in Paths
      ELSE t[k] = Wiped

(* The inductive invariant: uniqueness of the owners of a path or a mount  *)
(* point is preserved by itself, uniqueness of generations because no slot *)
(* holds a generation above the counter.                                   *)
CacheInv ==
    /\ RecordTypes
    /\ UniqueOwners
    /\ IssuedGenerations(g_image_cache, g_image_cache_generation)

(* What an upsert leaves: a well-formed table in which only slot k may     *)
(* have a new mapping, and only a metadata-only record was merged away.    *)
LEMMA UpsertFacts ==
    ASSUME CacheInv, NEW path \in Paths, NEW mount_point \in MountPoints,
           NEW k \in UpsertSlots(path, mount_point)
    PROVE  LET T == UpsertTable(k, path, mount_point)
               G == UpsertGeneration(k, path, mount_point)
               c == g_image_cache
           IN  /\ k \in Slots
               /\ T \in [Slots -> ImageCacheEntry]
               /\ G \in Nat /\ g_image_cache_generation <= G
               /\ DistinctOwners(T)
               /\ IssuedGenerations(T, G)
               /\ T[k].valid
               /\ \A j \in Slots \ {k} :
                    T[j] = c[j] \/ (T[j] = Wiped /\ cache_entry_is_metadata_only(c[j]))
               /\ \/ T[k] = c[k]
                  \/ T[k].generation > g_image_cache_generation
               /\ \/ T[k].path = c[k].path /\ T[k].mount_point = c[k].mount_point
                  \/ ~c[k].valid
                  \/ cache_entry_is_metadata_only(c[k])
<1> DEFINE T == UpsertTable(k, path, mount_point)
           G == UpsertGeneration(k, path, mount_point)
           c == g_image_cache
           g == g_image_cache_generation
<1> USE CacheConstants
<1>0. /\ c \in [Slots -> ImageCacheEntry]
      /\ g \in Nat
      /\ DistinctOwners(c)
      /\ IssuedGenerations(c, g)
  BY DEF CacheInv, RecordTypes, UniqueOwners, DistinctOwners
<1>1. k \in Slots
  BY DEF UpsertSlots, FirstFree, FreeSlots, PathOwners, MountOwners
<1>2. CASE IsMapped(k, path, mount_point)
  <2>1. T = c /\ G = g
    BY <1>2 DEF UpsertTable, UpsertGeneration
  <2>2. c[k].valid
    BY <1>2 DEF IsMapped, PathOwners
  <2> QED
    BY <1>0, <1>1, <2>1, <2>2
<1>3. CASE ~IsMapped(k, path, mount_point)
  <2> DEFINE e == [c[k] EXCEPT !.valid = TRUE, !.path = path,
                               !.mount_point = mount_point,
                               !.generation = g + 1]
  <2>1. T = [j \in Slots |-> IF j = k THEN e
                             ELSE IF j \in MountOwners(mount_point) THEN Wiped
                             ELSE c[j]]
    BY <1>3 DEF UpsertTable
  <2>2. G = g + 1
    BY <1>3 DEF UpsertGeneration
  <2>3. /\ e \in ImageCacheEntry
        /\ e.valid /\ e.path = path /\ e.mount_point = mount_point
        /\ e.generation = g + 1
    <3>1. c[k] \in ImageCacheEntry
      BY <1>0, <1>1
    <3>2. e \in ImageCacheEntry
      <4>1. g + 1 \in Nat
        BY <1>0
      <4> QED BY <3>1, <4>1, Zenon DEF ImageCacheEntry
    <3>3. e.path = path /\ e.mount_point = mount_point /\ e.generation = g + 1
      BY <3>1 DEF ImageCacheEntry
    <3>4. e.valid = TRUE
      BY <3>1, Zenon DEF ImageCacheEntry
    <3> QED BY <3>2, <3>3, <3>4
  <2>4. Wiped \in ImageCacheEntry /\ ~Wiped.valid
    BY DEF Wiped, ImageCacheEntry, AttachedStates
  <2>5. \A j \in Slots \ {k} :
          /\ T[j] = IF j \in MountOwners(mount_point) THEN Wiped ELSE c[j]
          /\ T[j].valid => T[j] = c[j] /\ j \notin MountOwners(mount_point)
    BY <2>1, <2>4
  <2>6. T[k] = e
    BY <2>1, <1>1
  <2>7. \A j \in Slots \ {k} : c[j].valid => c[j].path # path
    <3>1. CASE PathOwners(path) \cup MountOwners(mount_point) = {}
      BY <3>1 DEF PathOwners
    <3>2. CASE PathOwners(path) \cup MountOwners(mount_point) # {}
      BY <3>2, <1>1 DEF UpsertSlots, PathOwners
    <3> QED BY <3>1, <3>2
  <2>8. DistinctOwners(T)
    <3> SUFFICES ASSUME NEW i \in Slots, NEW j \in Slots, i # j,
                        T[i].valid, T[j].valid
                 PROVE  /\ T[i].path # T[j].path
                        /\ T[i].mount_point # T[j].mount_point
                        /\ T[i].generation # T[j].generation
      BY DEF DistinctOwners
    <3>1. \A m \in Slots \ {k} : T[m].valid =>
            /\ T[m].path # path
            /\ T[m].mount_point # mount_point
            /\ T[m].generation # g + 1
      BY <1>0, <2>5, <2>7 DEF MountOwners, IssuedGenerations
    <3>2. CASE i = k
      BY <3>1, <3>2, <2>3, <2>6
    <3>3. CASE j = k
      BY <3>1, <3>3, <2>3, <2>6
    <3>4. CASE i # k /\ j # k
      BY <3>4, <2>5, <1>0 DEF DistinctOwners
    <3> QED BY <3>2, <3>3, <3>4
  <2>9. IssuedGenerations(T, G)
    <3>1. T[k].valid /\ T[k].generation \in 1 .. G /\ T[k].path \in Paths
      BY <2>2, <2>3, <2>6, <1>0
    <3>2. \A j \in Slots \ {k} :
            IF T[j].valid THEN T[j].generation \in 1 .. G /\ T[j].path \in Paths
            ELSE T[j] = Wiped
      BY <2>2, <2>4, <2>5, <1>0 DEF IssuedGenerations
    <3> QED BY <3>1, <3>2 DEF IssuedGenerations
  <2>10. T \in [Slots -> ImageCacheEntry]
    BY <2>1, <2>3, <2>4, <1>0
  <2>11. ~c[k].valid \/ cache_entry_is_metadata_only(c[k])
    BY <1>3 DEF UpsertSlots, FirstFree, FreeSlots
  <2>12. \A j \in Slots \ {k} :
           T[j] = c[j] \/ (T[j] = Wiped /\ cache_entry_is_metadata_only(c[j]))
    <3> SUFFICES ASSUME NEW j \in Slots \ {k}, j \in MountOwners(mount_point)
                 PROVE  cache_entry_is_metadata_only(c[j])
      BY <2>5
    <3> QED BY <1>3 DEF UpsertSlots
  <2> QED
    BY <1>0, <1>1, <2>2, <2>3, <2>6, <2>8, <2>9, <2>10, <2>11, <2>12
<1> QED BY <1>2, <1>3

(* What every step of the table establishes. *)
GoodStep == CacheInv' /\ NamesAttachmentStep /\ MappingKeptStep

(* An operation that gives slot k the record e under a new generation after *)
(* an upsert (begin_image_attachment, cache_image_mount).                   *)
LEMMA MappingUpdate ==
    ASSUME CacheInv, NEW path \in Paths, NEW mount_point \in MountPoints,
           NEW k \in UpsertSlots(path, mount_point),
           NEW e \in ImageCacheEntry,
           e.valid,
           e.path = UpsertTable(k, path, mount_point)[k].path,
           e.mount_point = UpsertTable(k, path, mount_point)[k].mount_point,
           e.generation = UpsertGeneration(k, path, mount_point) + 1,
           g_image_cache' = [UpsertTable(k, path, mount_point) EXCEPT ![k] = e],
           g_image_cache_generation' = UpsertGeneration(k, path, mount_point) + 1,
           node' = node
    PROVE  GoodStep
<1> DEFINE T == UpsertTable(k, path, mount_point)
           G == UpsertGeneration(k, path, mount_point)
           c == g_image_cache
<1>1. /\ k \in Slots
      /\ T \in [Slots -> ImageCacheEntry]
      /\ G \in Nat /\ g_image_cache_generation <= G
      /\ DistinctOwners(T)
      /\ IssuedGenerations(T, G)
      /\ T[k].valid
      /\ \A j \in Slots \ {k} :
           T[j] = c[j] \/ (T[j] = Wiped /\ cache_entry_is_metadata_only(c[j]))
      /\ \/ T[k].path = c[k].path /\ T[k].mount_point = c[k].mount_point
         \/ ~c[k].valid
         \/ cache_entry_is_metadata_only(c[k])
  BY UpsertFacts
<1>2. g_image_cache_generation \in Nat /\ node \in [Devices -> Nat]
  BY DEF CacheInv, RecordTypes
<1>3. c'[k] = e /\ \A j \in Slots \ {k} : c'[j] = T[j]
  BY <1>1
<1> HIDE DEF T, G
<1>4. RecordTypes'
  BY <1>1, <1>2 DEF RecordTypes, T, G
<1>5. UniqueOwners'
  <2> SUFFICES ASSUME NEW i \in Slots, NEW j \in Slots, i # j,
                      c'[i].valid, c'[j].valid
               PROVE  /\ c'[i].path # c'[j].path
                      /\ c'[i].mount_point # c'[j].mount_point
                      /\ c'[i].generation # c'[j].generation
    BY DEF UniqueOwners
  <2>1. \A m \in Slots \ {k} : T[m].valid =>
          /\ T[m].path # e.path
          /\ T[m].mount_point # e.mount_point
          /\ T[m].generation # e.generation
    BY <1>1 DEF DistinctOwners, IssuedGenerations, T, G
  <2>2. CASE i = k
    BY <2>1, <2>2, <1>3
  <2>3. CASE j = k
    BY <2>1, <2>3, <1>3
  <2>4. CASE i # k /\ j # k
    BY <2>4, <1>1, <1>3 DEF DistinctOwners
  <2> QED BY <2>2, <2>3, <2>4
<1>6. IssuedGenerations(g_image_cache, g_image_cache_generation)'
  <2>1. e.generation \in 1 .. g_image_cache_generation' /\ e.path \in Paths
    BY <1>1 DEF G, T, IssuedGenerations
  <2>2. \A j \in Slots \ {k} : IF c'[j].valid
          THEN c'[j].generation \in 1 .. g_image_cache_generation' /\ c'[j].path \in Paths
          ELSE c'[j] = Wiped
    BY <1>1, <1>3 DEF IssuedGenerations, G
  <2> QED BY <2>1, <2>2, <1>3 DEF IssuedGenerations
<1>7. NamesAttachmentStep
  <2> SUFFICES ASSUME NEW j \in Slots, c'[j].valid
               PROVE  \/ c'[j].generation > g_image_cache_generation
                      \/ SameAttachment(c[j], c'[j])
    BY DEF NamesAttachmentStep
  <2>1. CASE j = k
    BY <2>1, <1>1, <1>2, <1>3 DEF G
  <2>2. CASE j # k
    <3>1. ~Wiped.valid
      BY DEF Wiped
    <3> QED BY <2>2, <3>1, <1>1, <1>3 DEF SameAttachment
  <2> QED BY <2>1, <2>2
<1>8. MappingKeptStep
  <2> SUFFICES ASSUME NEW j \in Slots, c[j].valid,
                      ~cache_entry_is_metadata_only(c[j])
               PROVE  KeepsMapping(c[j], c'[j])
    BY DEF MappingKeptStep
  <2> QED BY <1>1, <1>3 DEF KeepsMapping, T
<1> QED BY <1>4, <1>5, <1>6, <1>7, <1>8 DEF GoodStep, CacheInv

(* An operation that rewrites the record in slot k without changing what   *)
(* its generation names.                                                   *)
LEMMA SlotUpdate ==
    ASSUME CacheInv, NEW k \in Slots, NEW e \in ImageCacheEntry,
           e.valid,
           SameAttachment(g_image_cache[k], e),
           g_image_cache' = [g_image_cache EXCEPT ![k] = e],
           UNCHANGED <<g_image_cache_generation, node>>
    PROVE  GoodStep
<1>1. /\ g_image_cache \in [Slots -> ImageCacheEntry]
      /\ g_image_cache_generation \in Nat
      /\ node \in [Devices -> Nat]
      /\ UniqueOwners
      /\ IssuedGenerations(g_image_cache, g_image_cache_generation)
  BY DEF CacheInv, RecordTypes
<1>2. g_image_cache'[k] = e
  BY <1>1
<1>3. \A j \in Slots \ {k} : g_image_cache'[j] = g_image_cache[j]
  BY <1>1
<1>4. /\ g_image_cache[k].valid
      /\ g_image_cache[k].path = e.path
      /\ g_image_cache[k].mount_point = e.mount_point
      /\ g_image_cache[k].generation = e.generation
  BY DEF SameAttachment
<1>5. RecordTypes'
  BY <1>1 DEF RecordTypes
<1>6. UniqueOwners'
  BY <1>1, <1>2, <1>3, <1>4 DEF UniqueOwners
<1>7. IssuedGenerations(g_image_cache, g_image_cache_generation)'
  BY <1>1, <1>2, <1>3, <1>4 DEF IssuedGenerations
<1>8. NamesAttachmentStep
  BY <1>2, <1>3 DEF NamesAttachmentStep, SameAttachment
<1>9. MappingKeptStep
  BY <1>2, <1>3, <1>4 DEF MappingKeptStep, KeepsMapping
<1> QED BY <1>5, <1>6, <1>7, <1>8, <1>9 DEF GoodStep, CacheInv

(* An operation that wipes slot k. *)
LEMMA SlotWipe ==
    ASSUME CacheInv, NEW k \in Slots, MayBeWiped(g_image_cache[k]),
           g_image_cache' = [g_image_cache EXCEPT ![k] = Wiped],
           UNCHANGED <<g_image_cache_generation, node>>
    PROVE  GoodStep
<1>1. /\ g_image_cache \in [Slots -> ImageCacheEntry]
      /\ g_image_cache_generation \in Nat
      /\ node \in [Devices -> Nat]
      /\ UniqueOwners
      /\ IssuedGenerations(g_image_cache, g_image_cache_generation)
  BY DEF CacheInv, RecordTypes
<1>2. g_image_cache'[k] = Wiped /\ ~Wiped.valid /\ Wiped \in ImageCacheEntry
  BY <1>1 DEF Wiped, ImageCacheEntry, AttachedStates
<1>3. \A j \in Slots \ {k} : g_image_cache'[j] = g_image_cache[j]
  BY <1>1
<1>4. RecordTypes'
  BY <1>1, <1>2 DEF RecordTypes
<1>5. UniqueOwners'
  BY <1>1, <1>2, <1>3 DEF UniqueOwners
<1>6. IssuedGenerations(g_image_cache, g_image_cache_generation)'
  BY <1>1, <1>2, <1>3 DEF IssuedGenerations
<1>7. NamesAttachmentStep
  BY <1>2, <1>3 DEF NamesAttachmentStep, SameAttachment
<1>8. MappingKeptStep
  BY <1>2, <1>3 DEF MappingKeptStep, KeepsMapping
<1> QED BY <1>4, <1>5, <1>6, <1>7, <1>8 DEF GoodStep, CacheInv

(* Recording the identity of a device node keeps a record well-formed and  *)
(* changes nothing else.                                                   *)
LEMMA RefreshFacts ==
    ASSUME CacheInv, NEW r \in ImageCacheEntry
    PROVE  LET e == refresh_attached_unit_identity(r) IN
           /\ e \in ImageCacheEntry
           /\ e.valid = r.valid /\ e.generation = r.generation
           /\ e.path = r.path /\ e.mount_point = r.mount_point
           /\ e.device = r.device /\ e.state = r.state
           /\ e.detach_attempt_active = r.detach_attempt_active
           /\ r.identity # 0 => e.identity = r.identity
<1> DEFINE i == IF r.identity # 0 \/ r.device = NoDevice
                THEN r.identity ELSE node[r.device]
<1>1. r.identity \in Nat /\ r.device \in Devices \cup {NoDevice}
  BY DEF ImageCacheEntry
<1>2. i \in Nat
  BY <1>1 DEF CacheInv, RecordTypes
<1>3. refresh_attached_unit_identity(r) = [r EXCEPT !.identity = i]
  BY DEF refresh_attached_unit_identity, ImageCacheEntry
<1>4. r.identity # 0 => i = r.identity
  OBVIOUS
<1> HIDE DEF i
<1>5. [r EXCEPT !.identity = i] \in ImageCacheEntry
  BY <1>2, Zenon DEF ImageCacheEntry
<1>6. /\ [r EXCEPT !.identity = i].valid = r.valid
      /\ [r EXCEPT !.identity = i].generation = r.generation
      /\ [r EXCEPT !.identity = i].path = r.path
      /\ [r EXCEPT !.identity = i].mount_point = r.mount_point
      /\ [r EXCEPT !.identity = i].device = r.device
      /\ [r EXCEPT !.identity = i].state = r.state
      /\ [r EXCEPT !.identity = i].detach_attempt_active = r.detach_attempt_active
      /\ [r EXCEPT !.identity = i].identity = i
  BY Zenon DEF ImageCacheEntry
<1> QED BY <1>3, <1>4, <1>5, <1>6

(* cache_image_source_mapping.                                             *)
LEMMA SourceMappingIsGood ==
  ASSUME CacheInv, NEW path \in Paths, NEW mount_point \in MountPoints,
         cache_image_source_mapping(path, mount_point), UNCHANGED node
  PROVE  GoodStep
<1> USE CacheConstants
<1>0. /\ g_image_cache \in [Slots -> ImageCacheEntry]
      /\ g_image_cache_generation \in Nat
      /\ node \in [Devices -> Nat]
  BY DEF CacheInv, RecordTypes
<1>1. PICK k \in UpsertSlots(path, mount_point) :
        /\ g_image_cache' = UpsertTable(k, path, mount_point)
        /\ g_image_cache_generation' = UpsertGeneration(k, path, mount_point)
  BY DEF cache_image_source_mapping
<1>2. /\ k \in Slots
      /\ g_image_cache' \in [Slots -> ImageCacheEntry]
      /\ g_image_cache_generation' \in Nat
      /\ DistinctOwners(g_image_cache')
      /\ IssuedGenerations(g_image_cache', g_image_cache_generation')
      /\ g_image_cache'[k].valid
      /\ \A j \in Slots \ {k} :
           \/ g_image_cache'[j] = g_image_cache[j]
           \/ /\ g_image_cache'[j] = Wiped
              /\ cache_entry_is_metadata_only(g_image_cache[j])
      /\ \/ g_image_cache'[k] = g_image_cache[k]
         \/ g_image_cache'[k].generation > g_image_cache_generation
      /\ \/ /\ g_image_cache'[k].path = g_image_cache[k].path
            /\ g_image_cache'[k].mount_point = g_image_cache[k].mount_point
         \/ ~g_image_cache[k].valid
         \/ cache_entry_is_metadata_only(g_image_cache[k])
  BY <1>1, UpsertFacts
<1>3. CacheInv'
  BY <1>0, <1>2
     DEF CacheInv, RecordTypes, UniqueOwners, DistinctOwners, IssuedGenerations
<1>4. NamesAttachmentStep
  BY <1>2 DEF NamesAttachmentStep, SameAttachment, Wiped
<1>5. MappingKeptStep
  BY <1>2 DEF MappingKeptStep, KeepsMapping
<1> QED BY <1>3, <1>4, <1>5 DEF GoodStep

(* begin_image_attachment.                                                 *)
LEMMA BeginIsGood ==
  ASSUME CacheInv, NEW path \in Paths, NEW mount_point \in MountPoints,
         begin_image_attachment(path, mount_point), UNCHANGED node
  PROVE  GoodStep
<1> USE CacheConstants
<1> DEFINE T(k) == UpsertTable(k, path, mount_point)
           G(k) == UpsertGeneration(k, path, mount_point)
           e(k) == [T(k)[k] EXCEPT !.generation = G(k) + 1,
                                   !.state = "ATTACHING",
                                   !.requested = FALSE, !.identity = 0]
<1>1. PICK k \in UpsertSlots(path, mount_point) :
        /\ g_image_cache' = [T(k) EXCEPT ![k] = e(k)]
        /\ g_image_cache_generation' = G(k) + 1
  BY Zenon DEF begin_image_attachment
<1>2. T(k)[k] \in ImageCacheEntry /\ T(k)[k].valid /\ G(k) \in Nat
  BY UpsertFacts
<1>3. G(k) + 1 \in Nat
  BY <1>2
<1>4. e(k) \in ImageCacheEntry
  BY <1>2, <1>3, Zenon DEF ImageCacheEntry, AttachedStates
<1>5. /\ e(k).valid = T(k)[k].valid
      /\ e(k).path = T(k)[k].path
      /\ e(k).mount_point = T(k)[k].mount_point
      /\ e(k).generation = G(k) + 1
  BY <1>2, Zenon DEF ImageCacheEntry
<1> QED BY <1>1, <1>2, <1>4, <1>5, MappingUpdate, Zenon

(* cache_image_mount.                                                      *)
LEMMA AdoptIsGood ==
  ASSUME CacheInv, NEW path \in Paths, NEW mount_point \in MountPoints,
         NEW device \in Devices,
         cache_image_mount(path, mount_point, device), UNCHANGED node
  PROVE  GoodStep
<1> USE CacheConstants
<1> DEFINE T(k) == UpsertTable(k, path, mount_point)
           G(k) == UpsertGeneration(k, path, mount_point)
           r(k) == [T(k)[k] EXCEPT !.generation = G(k) + 1,
                                   !.device = device, !.state = "MOUNTED",
                                   !.detach_attempt_active = FALSE,
                                   !.requested = FALSE, !.identity = 0]
           e(k) == refresh_attached_unit_identity(r(k))
<1>1. PICK k \in UpsertSlots(path, mount_point) :
        /\ g_image_cache' = [T(k) EXCEPT ![k] = e(k)]
        /\ g_image_cache_generation' = G(k) + 1
  BY Zenon DEF cache_image_mount
<1>2. T(k)[k] \in ImageCacheEntry /\ T(k)[k].valid /\ G(k) \in Nat
  BY UpsertFacts
<1>3. G(k) + 1 \in Nat
  BY <1>2
<1>4. r(k) \in ImageCacheEntry
  BY <1>2, <1>3, Zenon DEF ImageCacheEntry, AttachedStates
<1>5. /\ r(k).valid = T(k)[k].valid
      /\ r(k).path = T(k)[k].path
      /\ r(k).mount_point = T(k)[k].mount_point
      /\ r(k).generation = G(k) + 1
  BY <1>2, Zenon DEF ImageCacheEntry
<1>6. /\ e(k) \in ImageCacheEntry
      /\ e(k).valid = T(k)[k].valid
      /\ e(k).path = T(k)[k].path
      /\ e(k).mount_point = T(k)[k].mount_point
      /\ e(k).generation = G(k) + 1
  BY <1>4, <1>5, RefreshFacts, Zenon
<1> QED BY <1>1, <1>2, <1>6, MappingUpdate, Zenon

(* cancel_image_attachment.                                                *)
LEMMA CancelIsGood ==
  ASSUME CacheInv, NEW path, NEW generation,
         cancel_image_attachment(path, generation), UNCHANGED node
  PROVE  GoodStep
<1> USE CacheConstants
<1>1. PICK k \in Slots : /\ IsReservation(k, path, generation)
                         /\ g_image_cache' = [g_image_cache EXCEPT ![k] = Wiped]
                         /\ UNCHANGED g_image_cache_generation
  BY Zenon DEF cancel_image_attachment
<1>2. MayBeWiped(g_image_cache[k])
  BY <1>1 DEF IsReservation, MayBeWiped
<1> QED BY <1>1, <1>2, SlotWipe, Zenon

(* publish_image_attachment.                                               *)
LEMMA PublishIsGood ==
  ASSUME CacheInv, NEW path, NEW generation, NEW device \in Devices,
         publish_image_attachment(path, generation, device), UNCHANGED node
  PROVE  GoodStep
<1> USE CacheConstants
<1>0. /\ g_image_cache \in [Slots -> ImageCacheEntry]
      /\ g_image_cache_generation \in Nat
      /\ node \in [Devices -> Nat]
  BY DEF CacheInv, RecordTypes
<1> DEFINE r(k) == [g_image_cache[k] EXCEPT !.device = device]
           e(k) == refresh_attached_unit_identity(r(k))
<1>1. PICK k \in Slots : /\ IsReservation(k, path, generation)
                         /\ g_image_cache' = [g_image_cache EXCEPT ![k] = e(k)]
                         /\ UNCHANGED g_image_cache_generation
  BY Zenon DEF publish_image_attachment
<1>2. g_image_cache[k] \in ImageCacheEntry /\ g_image_cache[k].valid
      /\ g_image_cache[k].device = NoDevice
  BY <1>0, <1>1 DEF IsReservation, PathOwners
<1>3. /\ r(k) \in ImageCacheEntry
      /\ r(k).valid = g_image_cache[k].valid
      /\ r(k).generation = g_image_cache[k].generation
      /\ r(k).path = g_image_cache[k].path
      /\ r(k).mount_point = g_image_cache[k].mount_point
      /\ r(k).identity = g_image_cache[k].identity
  BY <1>2, Zenon DEF ImageCacheEntry
<1> HIDE DEF r
<1>4. e(k) \in ImageCacheEntry /\ e(k).valid
      /\ SameAttachment(g_image_cache[k], e(k))
  BY <1>2, <1>3, RefreshFacts, Zenon DEF SameAttachment
<1> QED BY <1>1, <1>4, SlotUpdate, Zenon

(* mark_image_cache_detach_requested and complete_image_attachment: a new  *)
(* state, and the identity of the device node if it is known by now.       *)
LEMMA StateIsGood ==
  ASSUME CacheInv, NEW path, NEW generation, NEW device,
         NEW s \in AttachedStates, NEW k \in Slots,
         k \in find_attachment_record(path, generation, device),
         g_image_cache' = [g_image_cache EXCEPT ![k] =
           refresh_attached_unit_identity([@ EXCEPT !.state = s])],
         UNCHANGED <<g_image_cache_generation, node>>
  PROVE  GoodStep
<1> USE CacheConstants
<1>0. /\ g_image_cache \in [Slots -> ImageCacheEntry]
      /\ g_image_cache_generation \in Nat
      /\ node \in [Devices -> Nat]
  BY DEF CacheInv, RecordTypes
<1> DEFINE r == [g_image_cache[k] EXCEPT !.state = s]
           e == refresh_attached_unit_identity(r)
<1>1. g_image_cache[k] \in ImageCacheEntry /\ g_image_cache[k].valid
  BY <1>0 DEF find_attachment_record, PathOwners
<1>2. /\ r \in ImageCacheEntry
      /\ r.valid = g_image_cache[k].valid
      /\ r.generation = g_image_cache[k].generation
      /\ r.path = g_image_cache[k].path
      /\ r.mount_point = g_image_cache[k].mount_point
      /\ r.device = g_image_cache[k].device
      /\ r.identity = g_image_cache[k].identity
  BY <1>1, Zenon DEF ImageCacheEntry
<1>3. g_image_cache' = [g_image_cache EXCEPT ![k] = e]
  BY <1>0
<1> HIDE DEF r
<1>4. e \in ImageCacheEntry /\ e.valid /\ SameAttachment(g_image_cache[k], e)
  BY <1>1, <1>2, RefreshFacts, Zenon DEF SameAttachment
<1> QED BY <1>3, <1>4, SlotUpdate, Zenon

(* complete_image_attachment. *)
LEMMA CompleteIsGood ==
  ASSUME CacheInv, NEW path, NEW generation, NEW device,
         complete_image_attachment(path, generation, device), UNCHANGED node
  PROVE  GoodStep
<1>1. PICK k \in find_attachment_record(path, generation, device) :
        /\ g_image_cache' = [g_image_cache EXCEPT ![k] =
             refresh_attached_unit_identity([@ EXCEPT !.state = "MOUNTED"])]
        /\ UNCHANGED g_image_cache_generation
  BY Zenon DEF complete_image_attachment
<1>2. k \in Slots /\ "MOUNTED" \in AttachedStates
  BY DEF find_attachment_record, PathOwners, AttachedStates
<1> QED BY <1>1, <1>2, StateIsGood, Zenon

(* mark_image_cache_detach_requested. *)
LEMMA MarkIsGood ==
  ASSUME CacheInv, NEW path, NEW generation, NEW device,
         mark_image_cache_detach_requested(path, generation, device), UNCHANGED node
  PROVE  GoodStep
<1>1. PICK k \in find_attachment_record(path, generation, device) :
        /\ g_image_cache' = [g_image_cache EXCEPT ![k] =
             refresh_attached_unit_identity([@ EXCEPT !.state = "DETACH_REQUESTED"])]
        /\ UNCHANGED g_image_cache_generation
  BY Zenon DEF mark_image_cache_detach_requested
<1>2. k \in Slots /\ "DETACH_REQUESTED" \in AttachedStates
  BY DEF find_attachment_record, PathOwners, AttachedStates
<1> QED BY <1>1, <1>2, StateIsGood, Zenon

(* claim_image_cache_detach.                                               *)
LEMMA ClaimIsGood ==
  ASSUME CacheInv, NEW path, NEW generation, NEW device,
         claim_image_cache_detach(path, generation, device), UNCHANGED node
  PROVE  GoodStep
<1> USE CacheConstants
<1>0. /\ g_image_cache \in [Slots -> ImageCacheEntry]
      /\ g_image_cache_generation \in Nat
      /\ node \in [Devices -> Nat]
  BY DEF CacheInv, RecordTypes
<1> DEFINE r(k) == refresh_attached_unit_identity(g_image_cache[k])
           e(k) == [r(k) EXCEPT !.state = "DETACH_REQUESTED",
                                !.detach_attempt_active = TRUE]
<1>1. PICK k \in find_attachment_record(path, generation, device) :
        /\ g_image_cache' = [g_image_cache EXCEPT ![k] = e(k)]
        /\ UNCHANGED g_image_cache_generation
  BY DEF claim_image_cache_detach
<1>2. /\ k \in Slots
      /\ g_image_cache[k] \in ImageCacheEntry /\ g_image_cache[k].valid
  BY <1>0, <1>1 DEF find_attachment_record, PathOwners
<1>3. /\ r(k) \in ImageCacheEntry /\ r(k).valid
      /\ SameAttachment(g_image_cache[k], r(k))
  BY <1>2, RefreshFacts DEF SameAttachment
<1> HIDE DEF r
<1>4. /\ e(k) \in ImageCacheEntry
      /\ e(k).valid = r(k).valid
      /\ e(k).generation = r(k).generation
      /\ e(k).path = r(k).path
      /\ e(k).mount_point = r(k).mount_point
      /\ e(k).device = r(k).device
      /\ e(k).identity = r(k).identity
  BY <1>3, Zenon DEF ImageCacheEntry, AttachedStates
<1>5. e(k).valid /\ SameAttachment(g_image_cache[k], e(k))
  BY <1>3, <1>4 DEF SameAttachment
<1> QED BY <1>1, <1>2, <1>4, <1>5, SlotUpdate, Zenon

(* finish_image_cache_detach_attempt.                                      *)
LEMMA FinishIsGood ==
  ASSUME CacheInv, NEW path, NEW generation, NEW device,
         NEW identity, NEW requested \in BOOLEAN,
         finish_image_cache_detach_attempt(path, generation, device,
                                           identity, requested),
         UNCHANGED node
  PROVE  GoodStep
<1> USE CacheConstants
<1>0. /\ g_image_cache \in [Slots -> ImageCacheEntry]
      /\ g_image_cache_generation \in Nat
      /\ node \in [Devices -> Nat]
  BY DEF CacheInv, RecordTypes
<1> DEFINE e(k) == [g_image_cache[k] EXCEPT !.requested = requested,
                                            !.state = "DETACH_REQUESTED",
                                            !.detach_attempt_active = FALSE]
<1>1. PICK k \in find_attachment_record(path, generation, device) :
        /\ g_image_cache' = [g_image_cache EXCEPT ![k] = e(k)]
        /\ UNCHANGED g_image_cache_generation
  BY DEF finish_image_cache_detach_attempt
<1>2. /\ k \in Slots
      /\ g_image_cache[k] \in ImageCacheEntry /\ g_image_cache[k].valid
  BY <1>0, <1>1 DEF find_attachment_record, PathOwners
<1>3. /\ e(k) \in ImageCacheEntry
      /\ e(k).valid = g_image_cache[k].valid
      /\ e(k).generation = g_image_cache[k].generation
      /\ e(k).path = g_image_cache[k].path
      /\ e(k).mount_point = g_image_cache[k].mount_point
      /\ e(k).device = g_image_cache[k].device
      /\ e(k).identity = g_image_cache[k].identity
  BY <1>2, Zenon DEF ImageCacheEntry, AttachedStates
<1>4. e(k).valid /\ SameAttachment(g_image_cache[k], e(k))
  BY <1>2, <1>3 DEF SameAttachment
<1> QED BY <1>1, <1>2, <1>3, <1>4, SlotUpdate, Zenon

(* invalidate_image_cache_entry.                                           *)
LEMMA InvalidateIsGood ==
  ASSUME CacheInv, NEW k \in Slots, invalidate_image_cache_entry(k, copy_cache_entry(k)),
         UNCHANGED node
  PROVE  GoodStep
  BY SlotWipe, Zenon DEF invalidate_image_cache_entry, MayBeWiped

(* Every function of sm_image_cache.c that changes the table is a good step. *)
LEMMA NextIsGood == CacheInv /\ CacheNext => GoodStep
<1> SUFFICES ASSUME CacheInv, CacheNext PROVE GoodStep
  OBVIOUS
<1> USE CacheConstants
<1>0. /\ g_image_cache \in [Slots -> ImageCacheEntry]
      /\ g_image_cache_generation \in Nat
      /\ node \in [Devices -> Nat]
  BY DEF CacheInv, RecordTypes
<1>1. CASE NodeChanges
  <2>1. node' \in [Devices -> Nat]
    BY <1>0, <1>1 DEF NodeChanges
  <2> QED
    BY <1>0, <1>1, <2>1
       DEF NodeChanges, GoodStep, CacheInv, RecordTypes, UniqueOwners,
           IssuedGenerations, NamesAttachmentStep, SameAttachment,
           MappingKeptStep, KeepsMapping
<1>2. CASE MappingCall /\ UNCHANGED node
  BY <1>2, SourceMappingIsGood, BeginIsGood, AdoptIsGood DEF MappingCall
<1>3. CASE AttachmentCall /\ UNCHANGED node
  BY <1>3, CancelIsGood, PublishIsGood, CompleteIsGood DEF AttachmentCall
<1>4. CASE DetachCall /\ UNCHANGED node
  BY <1>4, MarkIsGood, ClaimIsGood, FinishIsGood, InvalidateIsGood DEF DetachCall
<1> QED BY <1>1, <1>2, <1>3, <1>4 DEF CacheNext

(* A step that leaves the table alone keeps the invariant.                    *)
LEMMA StutterIsGood == CacheInv /\ UNCHANGED cacheVars => CacheInv'
  BY DEF CacheInv, RecordTypes, UniqueOwners, IssuedGenerations, cacheVars

(* The zeroed table satisfies the invariant.                                  *)
LEMMA InitHolds == CacheInit => CacheInv
<1>1. Wiped \in ImageCacheEntry /\ ~Wiped.valid
  BY DEF Wiped, ImageCacheEntry, AttachedStates
<1>2. Identities \cup {0} \subseteq Nat
  BY CacheConstants
<1>3. ASSUME CacheInit PROVE node \in [Devices -> Nat]
  BY <1>2, <1>3 DEF CacheInit
<1> QED
  BY <1>1, <1>3 DEF CacheInit, CacheInv, RecordTypes, UniqueOwners, IssuedGenerations

(* The inductive invariant holds of every behaviour of the table, whatever *)
(* its callers do.                                                         *)
THEOREM CacheInvariance == CacheSpec => []CacheInv
<1>1. CacheInv /\ [CacheNext]_cacheVars => CacheInv'
  BY NextIsGood, StutterIsGood DEF GoodStep
<1> QED BY InitHolds, <1>1, PTL DEF CacheSpec

(* Records stay well-formed. *)
THEOREM CacheTypeCorrect == CacheSpec => []CacheTypeOK
<1>1. CacheInv => CacheTypeOK
  BY DEF CacheInv, CacheTypeOK, IssuedGenerations
<1> QED BY CacheInvariance, <1>1, PTL

(* A path, a mount point and a generation each have at most one owner.     *)
THEOREM OwnersAreUnique == CacheSpec => []UniqueOwners
<1>1. CacheInv => UniqueOwners
  BY DEF CacheInv
<1> QED BY CacheInvariance, <1>1, PTL

(* A generation never comes to name another attachment.                    *)
THEOREM GenerationsNameAttachments == CacheSpec => GenerationNamesAttachment
<1>1. CacheInv /\ [CacheNext]_cacheVars => [NamesAttachmentStep]_cacheVars
  BY NextIsGood DEF GoodStep
<1> QED BY CacheInvariance, <1>1, PTL DEF CacheSpec, GenerationNamesAttachment

(* An active mapping is never retargeted, and never dropped while its unit *)
(* is unidentified or being detached.                                      *)
THEOREM ActiveMappingsAreKept == CacheSpec => ActiveMappingKept
<1>1. CacheInv /\ [CacheNext]_cacheVars => [MappingKeptStep]_cacheVars
  BY NextIsGood DEF GoodStep
<1> QED BY CacheInvariance, <1>1, PTL DEF CacheSpec, ActiveMappingKept

=============================================================================
