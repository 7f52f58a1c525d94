-------------------------- MODULE ImageMountProofs --------------------------
(***************************************************************************)
(* Proofs about mounting and releasing images, for any number of workers,   *)
(* mounting and releasing concurrently, any images and devices, and a mount *)
(* table that may fail to be read.                                          *)
(***************************************************************************)
EXTENDS ImageMount, ImageCacheProofs

(* A claimed record waits for the detach of a unit whose node is known.     *)
ClaimedRecords ==
    \A k \in Slots : g_image_cache[k].detach_attempt_active =>
      /\ g_image_cache[k].valid
      /\ g_image_cache[k].state = "DETACH_REQUESTED"
      /\ g_image_cache[k].identity # 0

(* The record a claim names is still claimed, or was given a generation no  *)
(* worker has seen.                                                         *)
ClaimsAreRecorded ==
    \A w \in Workers : proc[w].pc \in ClaimPcs =>
      /\ proc[w].generation <= g_image_cache_generation
      /\ \A k \in Slots :
           (g_image_cache[k].valid /\ g_image_cache[k].generation = proc[w].generation)
             => g_image_cache[k].detach_attempt_active

(* The inductive invariant: a second worker cannot claim a generation that  *)
(* is claimed already because its record says so.                           *)
ClaimInv == ClaimedRecords /\ ClaimsAreRecorded /\ ClaimIsHeld

MountInv == CacheInv /\ MountTypeOK /\ ClaimInv

-----------------------------------------------------------------------------
(* What the operations of the table do to claims. *)

(* Claims are kept: a record is claimed after the step iff it was before,   *)
(* and a new generation starts unclaimed.                                   *)
ClaimsKept ==
    /\ g_image_cache_generation <= g_image_cache_generation'
    /\ \A k \in Slots : g_image_cache'[k].valid =>
         \/ /\ g_image_cache'[k].generation > g_image_cache_generation
            /\ ~g_image_cache'[k].detach_attempt_active
         \/ /\ g_image_cache[k].valid
            /\ g_image_cache'[k].generation = g_image_cache[k].generation
            /\ g_image_cache'[k].detach_attempt_active
                 <=> g_image_cache[k].detach_attempt_active
            /\ g_image_cache[k].detach_attempt_active =>
                 /\ g_image_cache'[k].path = g_image_cache[k].path
                 /\ g_image_cache'[k].identity = g_image_cache[k].identity
                 /\ g_image_cache'[k].device = g_image_cache[k].device
                 /\ g_image_cache'[k].state = "DETACH_REQUESTED"

(* A table operation that keeps the invariant of the table and the claims.  *)
TableStep == CacheInv' /\ ClaimsKept

(* Wiping a slot keeps the claims on the others.                            *)
LEMMA WipeKeepsClaims ==
  ASSUME CacheInv, ClaimedRecords, NEW k \in Slots,
         g_image_cache' = [g_image_cache EXCEPT ![k] = Wiped],
         UNCHANGED g_image_cache_generation
  PROVE  ClaimsKept
<1>1. /\ g_image_cache \in [Slots -> ImageCacheEntry]
      /\ g_image_cache_generation \in Nat
  BY DEF CacheInv, RecordTypes
<1>2. ~g_image_cache'[k].valid
  BY <1>1 DEF Wiped
<1>3. \A j \in Slots \ {k} : g_image_cache'[j] = g_image_cache[j]
  BY <1>1
<1> QED BY <1>1, <1>2, <1>3 DEF ClaimsKept, ClaimedRecords

(* Rewriting a record in progress without touching its claim keeps claims.  *)
LEMMA UpdateKeepsClaims ==
  ASSUME CacheInv, ClaimedRecords, NEW k \in Slots, NEW e \in ImageCacheEntry,
         g_image_cache[k].valid,
         e.generation = g_image_cache[k].generation,
         e.detach_attempt_active = g_image_cache[k].detach_attempt_active,
         g_image_cache[k].detach_attempt_active =>
           /\ e.path = g_image_cache[k].path
           /\ e.identity = g_image_cache[k].identity
           /\ e.device = g_image_cache[k].device
           /\ e.state = "DETACH_REQUESTED",
         g_image_cache' = [g_image_cache EXCEPT ![k] = e],
         UNCHANGED g_image_cache_generation
  PROVE  ClaimsKept
<1>1. /\ g_image_cache \in [Slots -> ImageCacheEntry]
      /\ g_image_cache_generation \in Nat
  BY DEF CacheInv, RecordTypes
<1>2. g_image_cache'[k] = e
  BY <1>1
<1>3. \A j \in Slots \ {k} : g_image_cache'[j] = g_image_cache[j]
  BY <1>1
<1> QED BY <1>1, <1>2, <1>3 DEF ClaimsKept, ClaimedRecords

(* A new mapping, or a new attachment under a mapping, starts unclaimed.    *)
LEMMA MappingKeepsClaims ==
  ASSUME CacheInv, ClaimedRecords,
         NEW path \in Paths, NEW mount_point \in MountPoints,
         NEW k \in UpsertSlots(path, mount_point), NEW e \in ImageCacheEntry,
         e.generation = UpsertGeneration(k, path, mount_point) + 1,
         ~e.detach_attempt_active,
         g_image_cache' = [UpsertTable(k, path, mount_point) EXCEPT ![k] = e],
         g_image_cache_generation' = UpsertGeneration(k, path, mount_point) + 1
  PROVE  ClaimsKept
<1> DEFINE T == UpsertTable(k, path, mount_point)
           G == UpsertGeneration(k, path, mount_point)
<1>1. /\ k \in Slots
      /\ T \in [Slots -> ImageCacheEntry]
      /\ G \in Nat /\ g_image_cache_generation <= G
      /\ \A j \in Slots \ {k} : T[j] = g_image_cache[j] \/ T[j] = Wiped
  BY UpsertFacts
<1>2. g_image_cache_generation \in Nat
  BY DEF CacheInv, RecordTypes
<1> HIDE DEF T, G
<1>3. g_image_cache'[k] = e /\ \A j \in Slots \ {k} : g_image_cache'[j] = T[j]
  BY <1>1 DEF T
<1>4. ~Wiped.valid
  BY DEF Wiped
<1>5. e.generation > g_image_cache_generation
      /\ g_image_cache_generation <= g_image_cache_generation'
  BY <1>1, <1>2 DEF G
<1> QED BY <1>1, <1>3, <1>4, <1>5 DEF ClaimsKept, ClaimedRecords

(* begin_image_attachment takes an unclaimed record under a new generation. *)
LEMMA BeginTable ==
  ASSUME CacheInv, ClaimedRecords, NEW path \in Paths, NEW mount_point \in MountPoints,
         begin_image_attachment(path, mount_point), UNCHANGED node
  PROVE  TableStep
<1> DEFINE T(k) == UpsertTable(k, path, mount_point)
           G(k) == UpsertGeneration(k, path, mount_point)
           e(k) == [T(k)[k] EXCEPT !.generation = G(k) + 1,
                                   !.state = "ATTACHING",
                                   !.requested = FALSE, !.identity = 0]
<1>1. PICK k \in UpsertSlots(path, mount_point) :
        /\ cache_entry_is_metadata_only(T(k)[k])
        /\ g_image_cache' = [T(k) EXCEPT ![k] = e(k)]
        /\ g_image_cache_generation' = G(k) + 1
  BY Zenon DEF begin_image_attachment
<1>2. T(k)[k] \in ImageCacheEntry /\ G(k) \in Nat
  BY UpsertFacts
<1>3. G(k) + 1 \in Nat
  BY <1>2
<1>4. /\ e(k) \in ImageCacheEntry
      /\ e(k).detach_attempt_active = T(k)[k].detach_attempt_active
      /\ e(k).generation = G(k) + 1
  BY <1>2, <1>3, Zenon DEF ImageCacheEntry, AttachedStates
<1>5. ~e(k).detach_attempt_active
  BY <1>1, <1>4, Zenon DEF cache_entry_is_metadata_only
<1>6. ClaimsKept
  BY <1>1, <1>4, <1>5, MappingKeepsClaims, Zenon
<1> QED BY <1>6, BeginIsGood DEF TableStep, GoodStep

(* cache_image_mount adopts a mount under a new generation, unclaimed.      *)
LEMMA AdoptTable ==
  ASSUME CacheInv, ClaimedRecords, NEW path \in Paths, NEW mount_point \in MountPoints,
         NEW device \in Devices,
         cache_image_mount(path, mount_point, device), UNCHANGED node
  PROVE  TableStep
<1> DEFINE T(k) == UpsertTable(k, path, mount_point)
           G(k) == UpsertGeneration(k, path, mount_point)
           r(k) == [T(k)[k] EXCEPT !.generation = G(k) + 1,
                                   !.device = device, !.state = "MOUNTED",
                                   !.detach_attempt_active = FALSE,
                                   !.requested = FALSE, !.identity = 0]
           e(k) == refresh_attached_unit_identity(r(k))
<1>1. PICK k \in UpsertSlots(path, mount_point) :
        /\ g_image_cache' = [T(k) EXCEPT ![k] = e(k)]
        /\ g_image_cache_generation' = G(k) + 1
  BY Zenon DEF cache_image_mount
<1>2. T(k)[k] \in ImageCacheEntry /\ G(k) \in Nat
  BY UpsertFacts
<1>3. G(k) + 1 \in Nat
  BY <1>2
<1>4. /\ r(k) \in ImageCacheEntry
      /\ r(k).generation = G(k) + 1
      /\ r(k).detach_attempt_active = FALSE
  BY <1>2, <1>3, Zenon DEF ImageCacheEntry, AttachedStates
<1> HIDE DEF r
<1>5. /\ e(k) \in ImageCacheEntry
      /\ e(k).generation = r(k).generation
      /\ e(k).detach_attempt_active = r(k).detach_attempt_active
  BY <1>4, RefreshFacts
<1>6. ~e(k).detach_attempt_active
  BY <1>4, <1>5, Zenon
<1>7. ClaimsKept
  BY <1>1, <1>4, <1>5, <1>6, MappingKeepsClaims, Zenon
<1> QED BY <1>7, AdoptIsGood DEF TableStep, GoodStep

(* cancel_image_attachment wipes a reservation.                             *)
LEMMA CancelTable ==
  ASSUME CacheInv, ClaimedRecords, NEW path, NEW generation,
         cancel_image_attachment(path, generation), UNCHANGED node
  PROVE  TableStep
<1>1. ClaimsKept
  BY WipeKeepsClaims, Zenon DEF cancel_image_attachment
<1> QED BY <1>1, CancelIsGood DEF TableStep, GoodStep

(* publish_image_attachment completes a reservation, which is not claimed.  *)
LEMMA PublishTable ==
  ASSUME CacheInv, ClaimedRecords, NEW path, NEW generation, NEW device \in Devices,
         publish_image_attachment(path, generation, device), UNCHANGED node
  PROVE  TableStep
<1> DEFINE r(k) == [g_image_cache[k] EXCEPT !.device = device]
           e(k) == refresh_attached_unit_identity(r(k))
<1>1. PICK k \in Slots : /\ IsReservation(k, path, generation)
                         /\ g_image_cache' = [g_image_cache EXCEPT ![k] = e(k)]
                         /\ UNCHANGED g_image_cache_generation
  BY Zenon DEF publish_image_attachment
<1>2. /\ g_image_cache[k] \in ImageCacheEntry /\ g_image_cache[k].valid
      /\ g_image_cache[k].state = "ATTACHING"
  BY <1>1 DEF IsReservation, PathOwners, CacheInv, RecordTypes
<1>3. /\ r(k) \in ImageCacheEntry
      /\ r(k).generation = g_image_cache[k].generation
      /\ r(k).detach_attempt_active = g_image_cache[k].detach_attempt_active
  BY <1>2, Zenon DEF ImageCacheEntry
<1> HIDE DEF r
<1>4. /\ e(k) \in ImageCacheEntry
      /\ e(k).generation = r(k).generation
      /\ e(k).detach_attempt_active = r(k).detach_attempt_active
  BY <1>3, RefreshFacts
<1>5. ~g_image_cache[k].detach_attempt_active
  BY <1>2 DEF ClaimedRecords
<1> HIDE DEF e
<1>6. ClaimsKept
  BY <1>1, <1>2, <1>3, <1>4, <1>5, UpdateKeepsClaims, Zenon
<1> QED BY <1>6, PublishIsGood DEF TableStep, GoodStep

(* A new state that is right for a claimed record.                          *)
LEMMA StateKeepsClaims ==
  ASSUME CacheInv, ClaimedRecords, NEW s \in AttachedStates, NEW k \in Slots,
         g_image_cache[k].valid,
         g_image_cache[k].detach_attempt_active => s = "DETACH_REQUESTED",
         g_image_cache' = [g_image_cache EXCEPT ![k] =
                             refresh_attached_unit_identity([@ EXCEPT !.state = s])],
         UNCHANGED g_image_cache_generation
  PROVE  ClaimsKept
<1> DEFINE r == [g_image_cache[k] EXCEPT !.state = s]
           e == refresh_attached_unit_identity(r)
<1>1. g_image_cache \in [Slots -> ImageCacheEntry]
  BY DEF CacheInv, RecordTypes
<1>2. g_image_cache[k] \in ImageCacheEntry
  BY <1>1
<1>3. /\ r \in ImageCacheEntry
      /\ r.generation = g_image_cache[k].generation
      /\ r.detach_attempt_active = g_image_cache[k].detach_attempt_active
      /\ r.path = g_image_cache[k].path
      /\ r.identity = g_image_cache[k].identity
      /\ r.device = g_image_cache[k].device
      /\ r.state = s
  BY <1>2, Zenon DEF ImageCacheEntry
<1>4. g_image_cache' = [g_image_cache EXCEPT ![k] = e]
  BY <1>1
<1> HIDE DEF r
<1>5. /\ e \in ImageCacheEntry
      /\ e.generation = r.generation
      /\ e.detach_attempt_active = r.detach_attempt_active
      /\ e.state = r.state /\ e.device = r.device /\ e.path = r.path
      /\ r.identity # 0 => e.identity = r.identity
  BY <1>3, RefreshFacts
<1> HIDE DEF e
<1>6. g_image_cache[k].detach_attempt_active => g_image_cache[k].identity # 0
  BY DEF ClaimedRecords
<1>7. /\ e.generation = g_image_cache[k].generation
      /\ e.detach_attempt_active = g_image_cache[k].detach_attempt_active
      /\ g_image_cache[k].detach_attempt_active =>
           /\ e.path = g_image_cache[k].path
           /\ e.identity = g_image_cache[k].identity
           /\ e.device = g_image_cache[k].device
           /\ e.state = "DETACH_REQUESTED"
  BY <1>3, <1>5, <1>6, Zenon
<1> QED BY <1>4, <1>5, <1>7, UpdateKeepsClaims, Zenon

(* complete_image_attachment commits an attachment that is not claimed.     *)
LEMMA CompleteTable ==
  ASSUME CacheInv, ClaimedRecords, NEW path, NEW generation, NEW device,
         complete_image_attachment(path, generation, device), UNCHANGED node
  PROVE  TableStep
<1>1. PICK k \in find_attachment_record(path, generation, device) :
        /\ g_image_cache[k].state = "ATTACHING"
        /\ g_image_cache' = [g_image_cache EXCEPT ![k] =
             refresh_attached_unit_identity([@ EXCEPT !.state = "MOUNTED"])]
        /\ UNCHANGED g_image_cache_generation
  BY Zenon DEF complete_image_attachment
<1>2. k \in Slots /\ g_image_cache[k].valid /\ "MOUNTED" \in AttachedStates
  BY DEF find_attachment_record, PathOwners, AttachedStates
<1>3. ~g_image_cache[k].detach_attempt_active
  BY <1>1, <1>2 DEF ClaimedRecords
<1>4. ClaimsKept
  BY <1>1, <1>2, <1>3, StateKeepsClaims, Zenon
<1> QED BY <1>4, CompleteIsGood DEF TableStep, GoodStep

(* mark_image_cache_detach_requested keeps a claim it meets.                *)
LEMMA MarkTable ==
  ASSUME CacheInv, ClaimedRecords, NEW path, NEW generation, NEW device,
         mark_image_cache_detach_requested(path, generation, device), UNCHANGED node
  PROVE  TableStep
<1>1. PICK k \in find_attachment_record(path, generation, device) :
        /\ g_image_cache' = [g_image_cache EXCEPT ![k] =
             refresh_attached_unit_identity([@ EXCEPT !.state = "DETACH_REQUESTED"])]
        /\ UNCHANGED g_image_cache_generation
  BY Zenon DEF mark_image_cache_detach_requested
<1>2. k \in Slots /\ g_image_cache[k].valid /\ "DETACH_REQUESTED" \in AttachedStates
  BY DEF find_attachment_record, PathOwners, AttachedStates
<1>3. ClaimsKept
  BY <1>1, <1>2, StateKeepsClaims, Zenon
<1> QED BY <1>3, MarkIsGood DEF TableStep, GoodStep

(* invalidate_image_cache_entry wipes a record nobody has claimed.          *)
LEMMA InvalidateTable ==
  ASSUME CacheInv, ClaimedRecords, NEW k \in Slots,
         invalidate_image_cache_entry(k, copy_cache_entry(k)), UNCHANGED node
  PROVE  TableStep
<1>1. ClaimsKept
  BY WipeKeepsClaims, Zenon DEF invalidate_image_cache_entry
<1> QED BY <1>1, InvalidateIsGood DEF TableStep, GoodStep
-----------------------------------------------------------------------------
(* What a step must leave alone to keep the invariant. *)

Pcs == Returns \cup DevicePcs \cup {"attach", "release", "mark"}

KernelOK ==
    /\ unit \in [Devices -> Nat] /\ attaches \in Nat
    /\ detaching \subseteq Devices /\ leaked \subseteq Devices
    /\ mounted \in [MountPoints -> Seq(Devices)]

(* q holds the claim that p holds, or neither holds one. *)
SameClaim(p, q) ==
    /\ q.pc \in ClaimPcs <=> p.pc \in ClaimPcs
    /\ p.pc \in ClaimPcs => /\ q.path = p.path /\ q.generation = p.generation
                            /\ q.identity = p.identity /\ q.device = p.device

(* A step that leaves the table alone is a table step.                      *)
LEMMA SameTable ==
  ASSUME MountInv, UNCHANGED tableVars, node' \in [Devices -> Nat]
  PROVE  TableStep
<1>1. /\ g_image_cache' = g_image_cache
      /\ g_image_cache_generation' = g_image_cache_generation
  BY DEF tableVars
<1>2. CacheInv'
  BY <1>1 DEF MountInv, CacheInv, RecordTypes, UniqueOwners, IssuedGenerations
<1>3. ClaimsKept
  BY <1>1 DEF MountInv, ClaimInv, ClaimedRecords, ClaimsKept, CacheInv, RecordTypes
<1> QED BY <1>2, <1>3 DEF TableStep

(* A table step by workers that keep what they claimed keeps the claims.    *)
LEMMA ClaimFrame ==
  ASSUME MountInv, TableStep, \A v \in Workers : SameClaim(proc[v], proc'[v])
  PROVE  ClaimInv'
<1>1. /\ g_image_cache_generation \in Nat /\ g_image_cache_generation' \in Nat
      /\ IssuedGenerations(g_image_cache, g_image_cache_generation)
      /\ IssuedGenerations(g_image_cache, g_image_cache_generation)'
  BY DEF MountInv, TableStep, CacheInv, RecordTypes
<1>2. \A k \in Slots : g_image_cache'[k].detach_attempt_active =>
        /\ g_image_cache'[k].valid /\ g_image_cache[k].detach_attempt_active
        /\ g_image_cache'[k].generation = g_image_cache[k].generation
        /\ g_image_cache'[k].path = g_image_cache[k].path
        /\ g_image_cache'[k].identity = g_image_cache[k].identity
        /\ g_image_cache'[k].device = g_image_cache[k].device
        /\ g_image_cache'[k].state = "DETACH_REQUESTED"
  <2> SUFFICES ASSUME NEW k \in Slots, g_image_cache'[k].detach_attempt_active
               PROVE  /\ g_image_cache'[k].valid /\ g_image_cache[k].detach_attempt_active
                      /\ g_image_cache'[k].generation = g_image_cache[k].generation
                      /\ g_image_cache'[k].path = g_image_cache[k].path
                      /\ g_image_cache'[k].identity = g_image_cache[k].identity
                      /\ g_image_cache'[k].device = g_image_cache[k].device
                      /\ g_image_cache'[k].state = "DETACH_REQUESTED"
    OBVIOUS
  <2>1. g_image_cache'[k].valid
    BY <1>1 DEF IssuedGenerations, Wiped
  <2> QED BY <2>1 DEF TableStep, ClaimsKept
<1>3. ClaimedRecords'
  BY <1>2 DEF MountInv, ClaimInv, ClaimedRecords
<1>4. ClaimsAreRecorded'
  <2> SUFFICES ASSUME NEW w \in Workers, proc'[w].pc \in ClaimPcs
               PROVE  /\ proc'[w].generation <= g_image_cache_generation'
                      /\ \A k \in Slots :
                           (/\ g_image_cache'[k].valid
                            /\ g_image_cache'[k].generation = proc'[w].generation)
                             => g_image_cache'[k].detach_attempt_active
    BY DEF ClaimsAreRecorded
  <2>1. proc[w].pc \in ClaimPcs /\ proc'[w].generation = proc[w].generation
    BY DEF SameClaim
  <2>2. proc[w].generation \in Nat
    BY DEF MountInv, MountTypeOK, Activity
  <2> QED BY <1>1, <2>1, <2>2 DEF MountInv, ClaimInv, ClaimsAreRecorded, TableStep, ClaimsKept
<1>5. ClaimIsHeld'
  <2>1. ASSUME NEW k \in Slots, g_image_cache'[k].detach_attempt_active
        PROVE  \E w \in Workers : HoldsClaim(proc'[w], g_image_cache'[k])
    <3>1. PICK w \in Workers : HoldsClaim(proc[w], g_image_cache[k])
      BY <1>2, <2>1 DEF MountInv, ClaimInv, ClaimIsHeld
    <3> QED BY <1>2, <2>1, <3>1 DEF HoldsClaim, SameClaim
  <2>2. ASSUME NEW v \in Workers, NEW w \in Workers, v # w,
               proc'[v].pc \in ClaimPcs, proc'[w].pc \in ClaimPcs
        PROVE  proc'[v].generation # proc'[w].generation
    BY <2>2 DEF SameClaim, MountInv, ClaimInv, ClaimIsHeld
  <2> QED BY <2>1, <2>2, Zenon DEF ClaimIsHeld
<1> QED BY <1>3, <1>4, <1>5 DEF ClaimInv

(* A step of worker w that leaves it well-formed.                           *)
LEMMA WorkerTypes ==
  ASSUME MountInv, CacheInv', KernelOK', NEW w \in Workers, NEW e \in Activity,
         HasArguments(e), proc' = [proc EXCEPT ![w] = e],
         lock' \in {lock, w, NoWorker}, lock' = w => e.pc # "idle",
         spared' \subseteq Paths, protected' \subseteq Paths
  PROVE  MountTypeOK'
<1>1. proc \in [Workers -> Activity]
  BY DEF MountInv, MountTypeOK
<1>2. /\ proc' \in [Workers -> Activity] /\ proc'[w] = e
      /\ \A v \in Workers \ {w} : proc'[v] = proc[v]
  BY <1>1
<1>3. \A v \in Workers : HasArguments(proc'[v])
  BY <1>2 DEF MountInv, MountTypeOK
<1>4. lock' \in {v \in Workers : proc'[v].pc # "idle"} \cup {NoWorker}
  BY <1>2 DEF MountInv, MountTypeOK
<1>5. CacheTypeOK'
  BY DEF CacheInv, CacheTypeOK, IssuedGenerations
<1> QED BY <1>2, <1>3, <1>4, <1>5 DEF MountTypeOK, KernelOK

(* A step of worker w that keeps its claim, or has none before and after.   *)
LEMMA StepKeeps ==
  ASSUME MountInv, TableStep, KernelOK', NEW w \in Workers, NEW e \in Activity,
         HasArguments(e), SameClaim(proc[w], e), proc' = [proc EXCEPT ![w] = e],
         lock' \in {lock, w, NoWorker}, lock' = w => e.pc # "idle",
         spared' \subseteq Paths, protected' \subseteq Paths
  PROVE  MountInv'
<1>1. proc \in [Workers -> Activity]
  BY DEF MountInv, MountTypeOK
<1>2. \A v \in Workers : SameClaim(proc[v], proc'[v])
  BY <1>1 DEF SameClaim
<1>3. ClaimInv'
  BY <1>2, ClaimFrame
<1>4. MountTypeOK'
  BY WorkerTypes, Zenon DEF TableStep
<1> QED BY <1>3, <1>4 DEF MountInv, TableStep

(* A step of the kernel, of the console or of a title.                      *)
LEMMA EnvironmentKeeps ==
  ASSUME MountInv, UNCHANGED <<tableVars, proc, lock>>, node' \in [Devices -> Nat],
         KernelOK', spared' \subseteq Paths, protected' \subseteq Paths
  PROVE  MountInv'
<1>1. TableStep
  BY SameTable
<1>2. ClaimInv'
  BY <1>1, ClaimFrame DEF SameClaim
<1>3. MountTypeOK'
  BY <1>1 DEF MountInv, MountTypeOK, KernelOK, TableStep, CacheInv, CacheTypeOK,
              IssuedGenerations
<1> QED BY <1>1, <1>2, <1>3 DEF MountInv, TableStep
-----------------------------------------------------------------------------
(* What a worker may do next. *)

(* What is known of a worker.                                               *)
LEMMA WorkerFacts ==
  ASSUME MountInv, NEW w \in Workers
  PROVE  /\ proc \in [Workers -> Activity] /\ proc[w] \in Activity
         /\ HasArguments(proc[w]) /\ KernelOK
         /\ node \in [Devices -> Nat]
         /\ g_image_cache \in [Slots -> ImageCacheEntry]
         /\ g_image_cache_generation \in Nat
         /\ lock \in Workers \cup {NoWorker}
         /\ spared \subseteq Paths /\ protected \subseteq Paths
  BY DEF MountInv, MountTypeOK, KernelOK, CacheInv, RecordTypes

(* A worker that only moves on.                                             *)
LEMMA SetPc ==
  ASSUME NEW p \in Activity, NEW pc \in Pcs
  PROVE  LET e == [p EXCEPT !.pc = pc] IN
         /\ e \in Activity /\ e.pc = pc
         /\ e.path = p.path /\ e.device = p.device /\ e.entry = p.entry
         /\ e.slot = p.slot
         /\ e.generation = p.generation /\ e.identity = p.identity
  BY Zenon DEF Activity, Pcs

(* Go, to a step that needs no more arguments than the worker has.          *)
LEMMA GoKeeps ==
  ASSUME MountInv, TableStep, KernelOK', NEW w \in Workers, NEW pc \in Pcs, Go(w, pc),
         pc \notin {"idle", "mark"},
         pc # "sweep" => proc[w].pc \notin {"idle", "sweep"},
         pc \in DevicePcs => proc[w].pc \in DevicePcs,
         pc \in UnmountPcs => proc[w].pc \in UnmountPcs,
         pc \in ClaimPcs <=> proc[w].pc \in ClaimPcs,
         lock' \in {lock, w},
         spared' \subseteq Paths, protected' \subseteq Paths
  PROVE  MountInv'
<1> DEFINE e == [proc[w] EXCEPT !.pc = pc]
<1>1. /\ proc[w] \in Activity /\ HasArguments(proc[w])
      /\ proc \in [Workers -> Activity]
  BY WorkerFacts
<1>2. proc' = [proc EXCEPT ![w] = e]
  BY <1>1 DEF Go
<1>3. /\ e \in Activity /\ e.pc = pc
      /\ e.path = proc[w].path /\ e.device = proc[w].device /\ e.slot = proc[w].slot
      /\ e.generation = proc[w].generation /\ e.identity = proc[w].identity
  BY <1>1, SetPc
<1> HIDE DEF e
<1>4. HasArguments(e)
  BY <1>1, <1>3 DEF HasArguments
<1>5. SameClaim(proc[w], e)
  BY <1>3 DEF SameClaim
<1> QED BY <1>2, <1>3, <1>4, <1>5, StepKeeps, Zenon

(* A worker between two calls.                                              *)
LEMMA IdleFacts == Idle \in Activity /\ Idle.pc = "idle"
<1>1. Wiped \in ImageCacheEntry
  BY DEF Wiped, ImageCacheEntry, AttachedStates
<1> QED BY <1>1 DEF Idle, Activity, Returns

(* A release or a failure returns to the caller.                            *)
LEMMA EndKeeps ==
  ASSUME MountInv, TableStep, KernelOK', NEW w \in Workers, NEW ok, End(w, ok),
         proc[w].pc \notin {"idle", "sweep"} \cup ClaimPcs,
         spared' \subseteq Paths, protected' \subseteq Paths
  PROVE  MountInv'
<1>1. /\ proc[w] \in Activity /\ HasArguments(proc[w])
      /\ proc \in [Workers -> Activity]
  BY WorkerFacts
<1>2. PICK next : next = IF ok \/ proc[w].ret = "sweep" THEN proc[w].ret ELSE "idle"
  OBVIOUS
<1>3. next \in Returns
  BY <1>1, <1>2 DEF Activity, Returns
<1>4. PICK e : e = IF next = "idle" THEN Idle
                   ELSE [Idle EXCEPT !.pc = next, !.path = proc[w].path,
                                     !.sweep = proc[w].sweep]
  OBVIOUS
<1>5. /\ proc' = [proc EXCEPT ![w] = e]
      /\ lock' = IF next = "idle" /\ lock = w THEN NoWorker ELSE lock
  BY <1>2, <1>4 DEF End
<1>6. Idle \in Activity /\ Idle.pc = "idle"
  BY IdleFacts
<1>7. /\ proc[w].path \in Paths \cup {NoPath} /\ proc[w].sweep \in Nat
      /\ proc[w].path \in Paths
  BY <1>1 DEF Activity, HasArguments
<1>8. e \in Activity /\ e.pc = next /\ (next # "idle" => e.path = proc[w].path)
  <2>1. CASE next = "idle"
    BY <2>1, <1>4, <1>6
  <2>2. CASE next # "idle"
    BY <2>2, <1>3, <1>4, <1>6, <1>7, Zenon DEF Activity
  <2> QED BY <2>1, <2>2
<1>9. HasArguments(e)
  BY <1>3, <1>7, <1>8, Zenon DEF HasArguments, Returns, DevicePcs, UnmountPcs
<1>10. SameClaim(proc[w], e)
  BY <1>3, <1>8, Zenon DEF SameClaim, Returns, ClaimPcs
<1>11. /\ lock' \in {lock, w, NoWorker}
       /\ lock' = w => e.pc # "idle"
  BY <1>5, <1>8, MountConstants, Zenon
<1> QED BY <1>5, <1>8, <1>9, <1>10, <1>11, StepKeeps, Zenon

(* A mount starts to release what it has, or what it found.                 *)
LEMMA CallReleaseKeeps ==
  ASSUME MountInv, TableStep, KernelOK', NEW w \in Workers,
         NEW generation \in Nat, NEW ret \in Returns, CallRelease(w, generation, ret),
         proc[w].pc \notin {"idle", "sweep"} \cup ClaimPcs,
         lock' = lock, spared' \subseteq Paths, protected' \subseteq Paths
  PROVE  MountInv'
<1> DEFINE e == [proc[w] EXCEPT !.pc = "release", !.expected = generation, !.ret = ret]
<1>1. /\ proc[w] \in Activity /\ HasArguments(proc[w])
      /\ proc \in [Workers -> Activity]
  BY WorkerFacts
<1>2. proc' = [proc EXCEPT ![w] = e]
  BY <1>1, Zenon DEF CallRelease
<1>3. e \in Activity /\ e.pc = "release" /\ e.path = proc[w].path
  BY <1>1, Zenon DEF Activity
<1> HIDE DEF e
<1>4. HasArguments(e)
  BY <1>1, <1>3 DEF HasArguments, DevicePcs, UnmountPcs
<1>5. SameClaim(proc[w], e)
  BY <1>3 DEF SameClaim, ClaimPcs
<1> QED BY <1>2, <1>3, <1>4, <1>5, StepKeeps, Zenon
(* The copy of a record that a release works from.                          *)
LEMMA CopyFacts ==
  ASSUME NEW k \in Slots, g_image_cache \in [Slots -> ImageCacheEntry],
         g_image_cache[k].device # NoDevice
  PROVE  /\ copy_cache_entry(k) \in ImageCacheEntry
         /\ copy_cache_entry(k).device \in Devices
<1>1. g_image_cache[k] \in ImageCacheEntry
  OBVIOUS
<1>2. g_image_cache[k].device \in Devices
  BY <1>1 DEF ImageCacheEntry
<1> QED BY <1>1, <1>2, Zenon DEF copy_cache_entry, ImageCacheEntry

(* A step that leaves the kernel alone.                                     *)
LEMMA SameKernel ==
  ASSUME MountInv, UNCHANGED <<kernelVars, leaked>>
  PROVE  KernelOK' /\ node' = node /\ node' \in [Devices -> Nat]
<1>1. KernelOK /\ node \in [Devices -> Nat]
  BY DEF MountInv, MountTypeOK, KernelOK, CacheInv, RecordTypes
<1> QED BY <1>1 DEF kernelVars, KernelOK

(* A step that leaves the kernel, the table and the titles alone.           *)
LEMMA QuietStep ==
  ASSUME MountInv,
         UNCHANGED <<tableVars, kernelVars, sleepVars, protected, leaked>>
  PROVE  /\ TableStep /\ KernelOK'
         /\ spared' \subseteq Paths /\ protected' \subseteq Paths
<1>1. KernelOK' /\ node' \in [Devices -> Nat]
  BY SameKernel
<1>2. TableStep
  BY <1>1, SameTable
<1> QED BY <1>1, <1>2 DEF MountInv, MountTypeOK, sleepVars

-----------------------------------------------------------------------------
(* The steps of mount_image. *)

(* MountImage.                                                              *)
LEMMA MountImageKeeps ==
  ASSUME MountInv, NEW w \in Workers, MountImage(w)
  PROVE  MountInv'
<1>1. PICK path \in Paths :
        proc' = [proc EXCEPT ![w].pc = "cached", ![w].path = path]
  BY Zenon DEF MountImage
<1> DEFINE e == [proc[w] EXCEPT !.pc = "cached", !.path = path]
<1>2. /\ proc[w] \in Activity /\ proc \in [Workers -> Activity]
      /\ proc[w].pc = "idle"
  BY WorkerFacts DEF MountImage, At
<1>3. proc' = [proc EXCEPT ![w] = e]
  BY <1>1, <1>2, Zenon
<1>4. e \in Activity /\ e.pc = "cached" /\ e.path = path
  BY <1>2, Zenon DEF Activity, Returns
<1> HIDE DEF e
<1>5. HasArguments(e) /\ SameClaim(proc[w], e)
  BY <1>2, <1>4 DEF HasArguments, SameClaim, DevicePcs, UnmountPcs, ClaimPcs
<1>6. /\ TableStep /\ KernelOK' /\ lock' = lock
      /\ spared' \subseteq Paths /\ protected' \subseteq Paths
  BY QuietStep DEF MountImage
<1> QED BY <1>3, <1>4, <1>5, <1>6, StepKeeps, Zenon

(* HandleCached.                                                            *)
LEMMA HandleCachedKeeps ==
  ASSUME MountInv, NEW w \in Workers, HandleCached(w)
  PROVE  MountInv'
<1>1. proc[w].pc = "cached" /\ g_image_cache \in [Slots -> ImageCacheEntry]
  BY WorkerFacts DEF HandleCached, At
<1>2. /\ TableStep /\ KernelOK'
      /\ spared' \subseteq Paths /\ protected' \subseteq Paths
  BY QuietStep DEF HandleCached
<1>3. \/ \E ok : End(w, ok)
      \/ Go(w, "reuse") /\ lock' = lock
      \/ \E generation \in Nat, ret \in Returns :
           CallRelease(w, generation, ret) /\ lock' = lock
  <2>1. \A k \in PathOwners(Path(w)) : g_image_cache[k].generation \in Nat
    BY <1>1 DEF PathOwners, ImageCacheEntry
  <2> QED BY <2>1, Zenon DEF HandleCached, Returns
<1>4. CASE \E ok : End(w, ok)
  BY <1>1, <1>2, <1>4, EndKeeps DEF ClaimPcs
<1>5. CASE Go(w, "reuse") /\ lock' = lock
  BY <1>1, <1>2, <1>5, GoKeeps DEF ClaimPcs, Pcs, Returns, DevicePcs, UnmountPcs
<1>6. CASE \E generation \in Nat, ret \in Returns :
             CallRelease(w, generation, ret) /\ lock' = lock
  BY <1>1, <1>2, <1>6, CallReleaseKeeps DEF ClaimPcs
<1> QED BY <1>3, <1>4, <1>5, <1>6

(* ReuseExisting: the device behind a mount point is a device.              *)
LEMMA ReuseExistingKeeps ==
  ASSUME MountInv, NEW w \in Workers, ReuseExisting(w)
  PROVE  MountInv'
<1>1. /\ proc[w].pc = "reuse" /\ proc[w] \in Activity /\ proc[w].path \in Paths
      /\ proc \in [Workers -> Activity]
      /\ g_image_cache \in [Slots -> ImageCacheEntry]
      /\ mounted \in [MountPoints -> Seq(Devices)]
  BY WorkerFacts, Zenon DEF ReuseExisting, At, HasArguments, KernelOK
<1>2. /\ TableStep /\ KernelOK' /\ lock' = lock
      /\ spared' \subseteq Paths /\ protected' \subseteq Paths
  BY QuietStep DEF ReuseExisting
<1>3. CASE Go(w, "begin")
  BY <1>1, <1>2, <1>3, GoKeeps DEF ClaimPcs, Pcs, Returns, DevicePcs, UnmountPcs
<1>4. CASE \E device \in resolve_device_from_mount(MountPoint(w)) :
             proc' = [proc EXCEPT ![w].pc = "adopt", ![w].device = device]
  <2>1. PICK device \in resolve_device_from_mount(MountPoint(w)) :
          proc' = [proc EXCEPT ![w].pc = "adopt", ![w].device = device]
    BY <1>4, Zenon
  <2>2. MountPoint(w) \in MountPoints
    BY <1>1, MountConstants DEF MountPoint, Path
  <2>3. device \in Devices
    <3>1. \A k \in MountOwners(MountPoint(w)) :
            g_image_cache[k].device # NoDevice => g_image_cache[k].device \in Devices
      BY <1>1 DEF MountOwners, ImageCacheEntry
    <3>2. mounted[MountPoint(w)] \in Seq(Devices)
      BY <1>1, <2>2
    <3>3. ASSUME NEW stack \in Seq(Devices), stack # <<>>
          PROVE  stack[Len(stack)] \in Devices
      BY <3>3
    <3> QED BY <2>1, <3>1, <3>2, <3>3 DEF resolve_device_from_mount
  <2> DEFINE e == [proc[w] EXCEPT !.pc = "adopt", !.device = device]
  <2>4. proc' = [proc EXCEPT ![w] = e]
    BY <1>1, <2>1, Zenon
  <2>5. /\ e \in Activity /\ e.pc = "adopt" /\ e.device = device
        /\ e.path = proc[w].path
    BY <1>1, <2>3, Zenon DEF Activity, DevicePcs, UnmountPcs
  <2> HIDE DEF e
  <2>6. HasArguments(e) /\ SameClaim(proc[w], e)
    BY <1>1, <2>3, <2>5 DEF HasArguments, SameClaim, DevicePcs, UnmountPcs, ClaimPcs
  <2> QED BY <1>2, <2>4, <2>5, <2>6, StepKeeps, Zenon
<1> QED BY <1>3, <1>4 DEF ReuseExisting

(* AdoptMount.                                                              *)
LEMMA AdoptMountKeeps ==
  ASSUME MountInv, NEW w \in Workers, AdoptMount(w)
  PROVE  MountInv'
<1>1. /\ proc[w].pc = "adopt" /\ proc[w].path \in Paths /\ proc[w].device \in Devices
      /\ MountPoint(w) \in MountPoints
  BY WorkerFacts, MountConstants, Zenon
     DEF AdoptMount, At, HasArguments, DevicePcs, UnmountPcs, MountPoint, Path
<1>2. /\ KernelOK' /\ node' = node /\ node' \in [Devices -> Nat]
      /\ spared' \subseteq Paths /\ protected' \subseteq Paths
  BY SameKernel, WorkerFacts DEF AdoptMount, sleepVars
<1>3. TableStep
  <2>1. CASE cache_image_mount(Path(w), MountPoint(w), proc[w].device)
    BY <1>1, <1>2, <2>1, AdoptTable DEF Path, MountInv, ClaimInv
  <2>2. CASE UNCHANGED tableVars
    BY <1>2, <2>2, SameTable, Zenon
  <2> QED BY <2>1, <2>2, Zenon DEF AdoptMount
<1>4. CASE \E ok : End(w, ok)
  BY <1>1, <1>2, <1>3, <1>4, EndKeeps, Zenon DEF ClaimPcs
<1>5. CASE CallRelease(w, 0, "begin") /\ UNCHANGED lock
  BY <1>1, <1>2, <1>3, <1>5, CallReleaseKeeps, Zenon DEF ClaimPcs, Returns
<1> QED BY <1>4, <1>5, Zenon DEF AdoptMount
(* BeginAttachment.                                                         *)
LEMMA BeginAttachmentKeeps ==
  ASSUME MountInv, NEW w \in Workers, BeginAttachment(w)
  PROVE  MountInv'
<1>1. /\ proc[w].pc = "begin" /\ proc[w].path \in Paths /\ proc[w] \in Activity
      /\ proc \in [Workers -> Activity] /\ MountPoint(w) \in MountPoints
  BY WorkerFacts, MountConstants, Zenon DEF BeginAttachment, At, HasArguments, MountPoint, Path
<1>2. /\ KernelOK' /\ node' = node /\ node' \in [Devices -> Nat]
      /\ spared' \subseteq Paths /\ protected' \subseteq Paths
  BY SameKernel, WorkerFacts DEF BeginAttachment, sleepVars
<1>3. CASE (\E ok : End(w, ok)) /\ UNCHANGED tableVars
  <2>1. TableStep
    BY <1>2, <1>3, SameTable
  <2> QED BY <1>1, <1>2, <1>3, <2>1, EndKeeps, Zenon DEF ClaimPcs
<1>4. CASE /\ begin_image_attachment(Path(w), MountPoint(w))
           /\ proc' = [proc EXCEPT ![w].pc = "attach",
                         ![w].generation = g_image_cache_generation']
           /\ UNCHANGED lock
  <2>1. TableStep
    BY <1>1, <1>2, <1>4, BeginTable DEF Path, MountInv, ClaimInv
  <2>2. PICK g : g = g_image_cache_generation'
    OBVIOUS
  <2>3. g \in Nat
    BY <2>1, <2>2 DEF TableStep, CacheInv, RecordTypes
  <2> DEFINE e == [proc[w] EXCEPT !.pc = "attach", !.generation = g]
  <2>4. proc' = [proc EXCEPT ![w] = e]
    BY <1>1, <1>4, <2>2, Zenon
  <2>5. e \in Activity /\ e.pc = "attach" /\ e.path = proc[w].path
    BY <1>1, <2>3, Zenon DEF Activity
  <2> HIDE DEF e
  <2>6. HasArguments(e) /\ SameClaim(proc[w], e)
    BY <1>1, <2>5 DEF HasArguments, SameClaim, DevicePcs, UnmountPcs, ClaimPcs
  <2> QED BY <1>2, <1>4, <2>1, <2>4, <2>5, <2>6, StepKeeps, Zenon
<1> QED BY <1>3, <1>4, Zenon DEF BeginAttachment

(* AttachDevice: a unit of the kernel, or the reservation given back.       *)
LEMMA AttachDeviceKeeps ==
  ASSUME MountInv, NEW w \in Workers, AttachDevice(w)
  PROVE  MountInv'
<1>1. /\ proc[w].pc = "attach" /\ proc[w].path \in Paths /\ proc[w] \in Activity
      /\ proc \in [Workers -> Activity] /\ KernelOK /\ node \in [Devices -> Nat]
  BY WorkerFacts DEF AttachDevice, At, HasArguments
<1>2. leaked' = leaked /\ spared' \subseteq Paths /\ protected' \subseteq Paths
  BY WorkerFacts DEF AttachDevice, sleepVars
<1>3. CASE /\ \E device \in Devices :
                /\ unit[device] = 0
                /\ attaches' = attaches + 1
                /\ unit' = [unit EXCEPT ![device] = attaches']
                /\ proc' = [proc EXCEPT ![w].pc = "publish", ![w].device = device]
           /\ UNCHANGED <<tableVars, node, detaching, mounted, lock>>
  <2>1. PICK device \in Devices :
          /\ attaches' = attaches + 1
          /\ unit' = [unit EXCEPT ![device] = attaches']
          /\ proc' = [proc EXCEPT ![w].pc = "publish", ![w].device = device]
    BY <1>3, Zenon
  <2>2. KernelOK'
    BY <1>1, <1>2, <1>3, <2>1 DEF KernelOK
  <2>3. TableStep
    BY <1>1, <1>3, SameTable
  <2> DEFINE e == [proc[w] EXCEPT !.pc = "publish", !.device = device]
  <2>4. proc' = [proc EXCEPT ![w] = e]
    BY <1>1, <2>1, Zenon
  <2>5. e \in Activity /\ e.pc = "publish" /\ e.device = device /\ e.path = proc[w].path
    BY <1>1, Zenon DEF Activity, DevicePcs, UnmountPcs
  <2> HIDE DEF e
  <2>6. HasArguments(e) /\ SameClaim(proc[w], e)
    BY <1>1, <2>5 DEF HasArguments, SameClaim, DevicePcs, UnmountPcs, ClaimPcs
  <2> QED BY <1>2, <1>3, <2>2, <2>3, <2>4, <2>5, <2>6, StepKeeps, Zenon
<1>4. CASE /\ \/ cancel_image_attachment(Path(w), proc[w].generation)
              \/ UNCHANGED tableVars
           /\ End(w, FALSE)
           /\ UNCHANGED kernelVars
  <2>1. KernelOK' /\ node' = node /\ node' \in [Devices -> Nat]
    BY <1>2, <1>4, SameKernel
  <2>2. TableStep
    BY <1>4, <2>1, CancelTable, SameTable DEF MountInv, ClaimInv
  <2> QED BY <1>1, <1>2, <1>4, <2>1, <2>2, EndKeeps, Zenon DEF ClaimPcs
<1> QED BY <1>3, <1>4, Zenon DEF AttachDevice

(* PublishAttachment.                                                       *)
LEMMA PublishAttachmentKeeps ==
  ASSUME MountInv, NEW w \in Workers, PublishAttachment(w)
  PROVE  MountInv'
<1>1. proc[w].pc = "publish" /\ proc[w].device \in Devices
  BY WorkerFacts DEF PublishAttachment, At, HasArguments, DevicePcs, UnmountPcs
<1>2. /\ KernelOK' /\ node' = node /\ node' \in [Devices -> Nat] /\ lock' = lock
      /\ spared' \subseteq Paths /\ protected' \subseteq Paths
  BY SameKernel, WorkerFacts, Zenon DEF PublishAttachment, sleepVars
<1>3. TableStep
  <2>1. CASE publish_image_attachment(Path(w), proc[w].generation, proc[w].device)
    BY <1>1, <1>2, <2>1, PublishTable DEF MountInv, ClaimInv
  <2>2. CASE UNCHANGED tableVars
    BY <1>2, <2>2, SameTable, Zenon
  <2> QED BY <2>1, <2>2, Zenon DEF PublishAttachment
<1>4. PICK pc \in {"node", "rollback"} : Go(w, pc)
  BY Zenon DEF PublishAttachment
<1> QED BY <1>1, <1>2, <1>3, <1>4, GoKeeps DEF ClaimPcs, Pcs, DevicePcs, UnmountPcs

(* RollbackUnit.                                                            *)
LEMMA RollbackUnitKeeps ==
  ASSUME MountInv, NEW w \in Workers, RollbackUnit(w)
  PROVE  MountInv'
<1>1. /\ proc[w].pc = "rollback" /\ proc[w].device \in Devices
      /\ KernelOK /\ node \in [Devices -> Nat]
  BY WorkerFacts, Zenon DEF RollbackUnit, At, HasArguments, DevicePcs, UnmountPcs
<1>2. KernelOK' /\ spared' \subseteq Paths /\ protected' \subseteq Paths
  BY <1>1, WorkerFacts DEF RollbackUnit, sleepVars, KernelOK
<1>3. TableStep
  BY <1>1, SameTable, Zenon DEF RollbackUnit
<1>4. End(w, FALSE)
  BY Zenon DEF RollbackUnit
<1> QED BY <1>1, <1>2, <1>3, <1>4, EndKeeps, Zenon DEF ClaimPcs

(* WaitForNode and ValidateMount: on, or release what was attached.         *)
LEMMA WaitForNodeKeeps ==
  ASSUME MountInv, NEW w \in Workers, WaitForNode(w) \/ ValidateMount(w)
  PROVE  MountInv'
<1>1. proc[w].pc \in {"node", "validate"} /\ proc[w].generation \in Nat
  BY WorkerFacts DEF WaitForNode, ValidateMount, At, Activity
<1>2. /\ TableStep /\ KernelOK' /\ lock' = lock
      /\ spared' \subseteq Paths /\ protected' \subseteq Paths
  BY QuietStep DEF WaitForNode, ValidateMount
<1>3. CASE \E pc \in {"nmount", "complete"} : Go(w, pc)
  BY <1>1, <1>2, <1>3, GoKeeps DEF ClaimPcs, Pcs, DevicePcs, UnmountPcs
<1>4. CASE CallRelease(w, proc[w].generation, "idle")
  BY <1>1, <1>2, <1>4, CallReleaseKeeps, Zenon DEF ClaimPcs, Returns
<1> QED BY <1>3, <1>4 DEF WaitForNode, ValidateMount

(* PerformNmount.                                                           *)
LEMMA PerformNmountKeeps ==
  ASSUME MountInv, NEW w \in Workers, PerformNmount(w)
  PROVE  MountInv'
<1>1. /\ proc[w].pc = "nmount" /\ proc[w].generation \in Nat
      /\ proc[w].device \in Devices /\ proc[w].path \in Paths
      /\ KernelOK /\ node \in [Devices -> Nat]
  BY WorkerFacts, Zenon DEF PerformNmount, At, Activity, HasArguments, DevicePcs, UnmountPcs
<1>2. /\ lock' = lock /\ spared' \subseteq Paths /\ protected' \subseteq Paths
  BY WorkerFacts DEF PerformNmount, sleepVars
<1>3. KernelOK'
  <2>1. mounted' \in [MountPoints -> Seq(Devices)]
    <3>1. MountPoint(w) \in MountPoints /\ mounted \in [MountPoints -> Seq(Devices)]
      BY <1>1, MountConstants DEF MountPoint, Path, KernelOK
    <3>2. Append(mounted[MountPoint(w)], proc[w].device) \in Seq(Devices)
      BY <1>1, <3>1
    <3> QED BY <3>1, <3>2, Zenon DEF PerformNmount
  <2> QED BY <1>1, <2>1 DEF PerformNmount, KernelOK
<1>4. TableStep
  BY <1>1, SameTable DEF PerformNmount
<1>5. CASE Go(w, "validate")
  BY <1>1, <1>2, <1>3, <1>4, <1>5, GoKeeps, Zenon DEF ClaimPcs, Pcs, DevicePcs, UnmountPcs
<1>6. CASE CallRelease(w, proc[w].generation, "idle")
  BY <1>1, <1>2, <1>3, <1>4, <1>6, CallReleaseKeeps, Zenon DEF ClaimPcs, Returns
<1> QED BY <1>5, <1>6, Zenon DEF PerformNmount

(* CompleteAttachment.                                                      *)
LEMMA CompleteAttachmentKeeps ==
  ASSUME MountInv, NEW w \in Workers, CompleteAttachment(w)
  PROVE  MountInv'
<1>1. proc[w].pc = "complete" /\ proc[w].generation \in Nat
  BY WorkerFacts DEF CompleteAttachment, At, Activity
<1>2. /\ KernelOK' /\ node' = node /\ node' \in [Devices -> Nat]
      /\ spared' \subseteq Paths /\ protected' \subseteq Paths
  BY SameKernel, WorkerFacts DEF CompleteAttachment, sleepVars
<1>3. CASE /\ complete_image_attachment(Path(w), proc[w].generation, proc[w].device)
           /\ End(w, TRUE)
  <2>1. TableStep
    BY <1>2, <1>3, CompleteTable, Zenon DEF MountInv, ClaimInv
  <2> QED BY <1>1, <1>2, <1>3, <2>1, EndKeeps, Zenon DEF ClaimPcs
<1>4. CASE CallRelease(w, proc[w].generation, "idle") /\ UNCHANGED <<tableVars, lock>>
  <2>1. TableStep
    BY <1>2, <1>4, SameTable
  <2> QED BY <1>1, <1>2, <1>4, <2>1, CallReleaseKeeps, Zenon DEF ClaimPcs, Returns
<1> QED BY <1>3, <1>4, Zenon DEF CompleteAttachment
-----------------------------------------------------------------------------
(* The steps of a release. *)

(* ReleaseImage.                                                            *)
LEMMA ReleaseImageKeeps ==
  ASSUME MountInv, NEW w \in Workers, ReleaseImage(w)
  PROVE  MountInv'
<1>1. /\ proc[w].pc = "release" /\ proc[w] \in Activity /\ proc[w].path \in Paths
      /\ proc \in [Workers -> Activity]
      /\ g_image_cache \in [Slots -> ImageCacheEntry]
  BY WorkerFacts, Zenon DEF ReleaseImage, At, HasArguments
<1>2. /\ KernelOK' /\ node' = node /\ node' \in [Devices -> Nat]
      /\ spared' \subseteq Paths /\ protected' \subseteq Paths
  BY SameKernel, WorkerFacts, Zenon DEF ReleaseImage, sleepVars
<1>3. CASE /\ \E ok : End(w, ok)
           /\ \/ UNCHANGED tableVars
              \/ cancel_image_attachment(Path(w), proc[w].expected)
  <2>1. TableStep
    BY <1>2, <1>3, SameTable, CancelTable, Zenon DEF MountInv, ClaimInv
  <2> QED BY <1>1, <1>2, <1>3, <2>1, EndKeeps, Zenon DEF ClaimPcs
<1>4. CASE \E k \in PathOwners(Path(w)) :
             /\ g_image_cache[k].device # NoDevice
             /\ proc' = [proc EXCEPT ![w].pc = "mark", ![w].slot = k,
                                     ![w].entry = copy_cache_entry(k)]
             /\ UNCHANGED <<tableVars, lock>>
  <2>1. TableStep
    BY <1>2, <1>4, SameTable
  <2>2. PICK k \in PathOwners(Path(w)) :
          /\ g_image_cache[k].device # NoDevice
          /\ proc' = [proc EXCEPT ![w].pc = "mark", ![w].slot = k,
                                  ![w].entry = copy_cache_entry(k)]
    BY <1>4, Zenon
  <2>3. k \in Nat /\ k \in Slots
    BY CacheConstants DEF PathOwners, Slots
  <2>4. /\ copy_cache_entry(k) \in ImageCacheEntry
        /\ copy_cache_entry(k).device \in Devices
    BY <1>1, <2>2, <2>3, CopyFacts
  <2> DEFINE c == copy_cache_entry(k)
             e == [proc[w] EXCEPT !.pc = "mark", !.slot = k, !.entry = c]
  <2>5. proc' = [proc EXCEPT ![w] = e]
    BY <1>1, <2>2, Zenon
  <2> HIDE DEF c
  <2>6. e \in Activity /\ e.pc = "mark" /\ e.path = proc[w].path /\ e.entry = c
        /\ e.slot = k
    BY <1>1, <2>3, <2>4, Zenon DEF Activity, c
  <2> HIDE DEF e
  <2>7. HasArguments(e) /\ SameClaim(proc[w], e)
    BY <1>1, <2>3, <2>4, <2>6 DEF HasArguments, SameClaim, DevicePcs, UnmountPcs, ClaimPcs, c
  <2> QED BY <1>2, <1>4, <2>1, <2>5, <2>6, <2>7, StepKeeps, Zenon
<1> QED BY <1>3, <1>4, Zenon DEF ReleaseImage

(* MarkDetach: the record copied has a device, so the worker gets one.      *)
LEMMA MarkDetachKeeps ==
  ASSUME MountInv, NEW w \in Workers, MarkDetach(w)
  PROVE  MountInv'
<1>1. /\ proc[w].pc = "mark" /\ proc[w] \in Activity /\ proc[w].path \in Paths
      /\ proc[w].slot \in Slots
      /\ proc[w].entry.device \in Devices
      /\ proc \in [Workers -> Activity]
      /\ g_image_cache \in [Slots -> ImageCacheEntry]
  BY WorkerFacts, Zenon DEF MarkDetach, At, HasArguments
<1>2. /\ KernelOK' /\ node' = node /\ node' \in [Devices -> Nat]
      /\ protected' \subseteq Paths
  BY SameKernel, WorkerFacts, Zenon DEF MarkDetach
<1>3. spared' \subseteq Paths
  <2>1. spared \subseteq Paths
    BY WorkerFacts, Zenon
  <2>2. \/ spared' = spared
        \/ spared' = spared \cup {Path(w)}
    BY Zenon DEF MarkDetach
  <2> QED BY <1>1, <2>1, <2>2, Zenon DEF Path
<1>4. TableStep
  <2>1. CASE UNCHANGED tableVars
    BY <1>2, <2>1, SameTable
  <2>2. CASE \E generation, device :
               mark_image_cache_detach_requested(Path(w), generation, device)
    BY <1>2, <2>2, MarkTable, Zenon DEF MountInv, ClaimInv
  <2> QED BY <2>1, <2>2, Zenon DEF MarkDetach
<1>5. CASE \E ok : End(w, ok)
  BY <1>1, <1>2, <1>3, <1>4, <1>5, EndKeeps, Zenon DEF ClaimPcs
<1>6. CASE /\ \E k \in PathOwners(Path(w)) :
                /\ g_image_cache[k].device = proc[w].entry.device
                /\ proc' = [proc EXCEPT ![w].pc = "unmount",
                              ![w].generation = g_image_cache[k].generation,
                              ![w].device = g_image_cache[k].device]
           /\ UNCHANGED lock
  <2>1. PICK k \in PathOwners(Path(w)) :
          /\ g_image_cache[k].device = proc[w].entry.device
          /\ proc' = [proc EXCEPT ![w].pc = "unmount",
                        ![w].generation = g_image_cache[k].generation,
                        ![w].device = g_image_cache[k].device]
    BY <1>6, Zenon
  <2>2. PICK g, d : g = g_image_cache[k].generation /\ d = g_image_cache[k].device
    OBVIOUS
  <2>3. g \in Nat /\ d \in Devices
    BY <1>1, <2>1, <2>2, Zenon DEF PathOwners, ImageCacheEntry
  <2> DEFINE e == [proc[w] EXCEPT !.pc = "unmount", !.generation = g, !.device = d]
  <2>4. proc' = [proc EXCEPT ![w] = e]
    BY <1>1, <2>1, <2>2, Zenon
  <2>5. e \in Activity /\ e.pc = "unmount" /\ e.path = proc[w].path /\ e.device = d
        /\ e.slot = proc[w].slot
    BY <1>1, <2>3, Zenon DEF Activity, DevicePcs, UnmountPcs
  <2> HIDE DEF e
  <2>6. HasArguments(e) /\ SameClaim(proc[w], e)
    BY <1>1, <2>3, <2>5 DEF HasArguments, SameClaim, DevicePcs, UnmountPcs, ClaimPcs
  <2> QED BY <1>2, <1>3, <1>4, <1>6, <2>4, <2>5, <2>6, StepKeeps, Zenon
<1> QED BY <1>5, <1>6, Zenon DEF MarkDetach

(* UnmountLayers.                                                           *)
LEMMA UnmountLayersKeeps ==
  ASSUME MountInv, NEW w \in Workers, UnmountLayers(w)
  PROVE  MountInv'
<1>1. /\ proc[w].pc = "unmount" /\ proc[w].path \in Paths
      /\ KernelOK /\ node \in [Devices -> Nat]
  BY WorkerFacts, Zenon DEF UnmountLayers, At, HasArguments, DevicePcs, UnmountPcs
<1>2. spared' \subseteq Paths /\ protected' \subseteq Paths
  BY WorkerFacts, Zenon DEF UnmountLayers, sleepVars
<1>3. KernelOK'
  <2>1. mounted' \in [MountPoints -> Seq(Devices)]
    <3>1. MountPoint(w) \in MountPoints /\ mounted \in [MountPoints -> Seq(Devices)]
      BY <1>1, MountConstants DEF MountPoint, Path, KernelOK
    <3>2. ASSUME NEW stack \in Seq(Devices), stack # <<>>
          PROVE  SubSeq(stack, 1, Len(stack) - 1) \in Seq(Devices)
      BY <3>2
    <3> QED BY <3>1, <3>2, Zenon DEF UnmountLayers, is_active_image_mount_point
  <2> QED BY <1>1, <2>1, Zenon DEF UnmountLayers, KernelOK
<1>4. TableStep
  BY <1>1, SameTable DEF UnmountLayers
<1>5. CASE UNCHANGED <<proc, lock>>
  BY <1>1, <1>2, <1>3, <1>5, EnvironmentKeeps, Zenon DEF UnmountLayers
<1>6. CASE End(w, FALSE)
  BY <1>1, <1>2, <1>3, <1>4, <1>6, EndKeeps, Zenon DEF ClaimPcs
<1>7. CASE Go(w, "claim") /\ UNCHANGED lock
  BY <1>1, <1>2, <1>3, <1>4, <1>7, GoKeeps DEF ClaimPcs, Pcs, DevicePcs, UnmountPcs
<1> QED BY <1>5, <1>6, <1>7, Zenon DEF UnmountLayers
(* ClaimDetach: the claim names a record that no other worker has claimed.  *)
LEMMA ClaimDetachKeeps ==
  ASSUME MountInv, NEW w \in Workers, ClaimDetach(w)
  PROVE  MountInv'
<1> DEFINE find == find_attachment_record(Path(w), proc[w].generation, proc[w].device)
<1>1. /\ proc[w].pc = "claim" /\ proc[w] \in Activity
      /\ proc[w].path \in Paths /\ proc[w].device \in Devices
      /\ proc[w].slot \in Slots /\ proc \in [Workers -> Activity]
      /\ g_image_cache \in [Slots -> ImageCacheEntry]
      /\ g_image_cache_generation \in Nat
  BY WorkerFacts, Zenon DEF ClaimDetach, At, HasArguments, DevicePcs, UnmountPcs
<1>2. /\ KernelOK' /\ node' = node /\ node' \in [Devices -> Nat] /\ lock' = lock
      /\ spared' \subseteq Paths /\ protected' \subseteq Paths
  BY SameKernel, WorkerFacts, Zenon DEF ClaimDetach, sleepVars
<1>3. CASE /\ claim_image_cache_detach(Path(w), proc[w].generation, proc[w].device)
           /\ \E k \in find :
                proc' = [proc EXCEPT ![w].pc = "prepare",
                           ![w].identity = g_image_cache'[k].identity,
                           ![w].requested = g_image_cache'[k].requested]
  <2>1. CacheInv'
    BY <1>2, <1>3, ClaimIsGood, Zenon DEF MountInv, GoodStep
  <2> DEFINE r(k) == refresh_attached_unit_identity(g_image_cache[k])
  <2>2. PICK k \in find :
          /\ ~g_image_cache[k].detach_attempt_active
          /\ r(k).identity # 0
          /\ g_image_cache' = [g_image_cache EXCEPT ![k] =
                                 [r(k) EXCEPT !.state = "DETACH_REQUESTED",
                                              !.detach_attempt_active = TRUE]]
          /\ g_image_cache_generation' = g_image_cache_generation
    BY <1>3, Zenon DEF claim_image_cache_detach
  <2>3. /\ k \in Slots /\ g_image_cache[k] \in ImageCacheEntry /\ g_image_cache[k].valid
        /\ g_image_cache[k].path = proc[w].path
        /\ g_image_cache[k].generation = proc[w].generation
        /\ g_image_cache[k].device = proc[w].device
    BY <1>1, <2>2, Zenon DEF find_attachment_record, PathOwners, Path
  <2>4. /\ r(k) \in ImageCacheEntry /\ r(k).valid = g_image_cache[k].valid
        /\ r(k).generation = g_image_cache[k].generation
        /\ r(k).path = g_image_cache[k].path /\ r(k).device = g_image_cache[k].device
    BY <2>3, RefreshFacts, Zenon DEF MountInv
  <2> DEFINE c == [r(k) EXCEPT !.state = "DETACH_REQUESTED", !.detach_attempt_active = TRUE]
  <2> HIDE DEF r
  <2>5. /\ c \in ImageCacheEntry /\ c.detach_attempt_active = TRUE
        /\ c.valid = r(k).valid /\ c.state = "DETACH_REQUESTED"
        /\ c.generation = r(k).generation /\ c.path = r(k).path
        /\ c.device = r(k).device /\ c.identity = r(k).identity
    BY <2>4, Zenon DEF ImageCacheEntry, AttachedStates
  <2>6. g_image_cache' = [g_image_cache EXCEPT ![k] = c]
    BY <2>2
  <2> HIDE DEF c
  <2>7. g_image_cache'[k] = c /\ \A j \in Slots \ {k} : g_image_cache'[j] = g_image_cache[j]
    BY <1>1, <2>3, <2>6
  <2>8. \A j \in find : j = k
    BY <2>2, <2>3 DEF find_attachment_record, PathOwners, MountInv, CacheInv, UniqueOwners
  <2>9. proc' = [proc EXCEPT ![w].pc = "prepare", ![w].identity = g_image_cache'[k].identity,
                             ![w].requested = g_image_cache'[k].requested]
    BY <1>3, <2>8, Zenon
  <2>10. PICK id, req : id = g_image_cache'[k].identity /\ req = g_image_cache'[k].requested
    OBVIOUS
  <2> DEFINE e == [proc[w] EXCEPT !.pc = "prepare", !.identity = id, !.requested = req]
  <2>11. proc' = [proc EXCEPT ![w] = e]
    BY <1>1, <2>9, <2>10, Zenon
  <2>12. id \in Nat /\ req \in BOOLEAN
    BY <2>5, <2>7, <2>10, Zenon DEF ImageCacheEntry
  <2>13. /\ e \in Activity /\ e.pc = "prepare" /\ e.path = proc[w].path
         /\ e.device = proc[w].device /\ e.generation = proc[w].generation
         /\ e.identity = id /\ e.slot = proc[w].slot
    BY <1>1, <2>12, Zenon DEF Activity, DevicePcs, UnmountPcs
  <2> HIDE DEF e
  <2>14. HasArguments(e)
    BY <1>1, <2>13, Zenon DEF HasArguments
  <2>15. proc'[w] = e /\ \A v \in Workers \ {w} : proc'[v] = proc[v]
    BY <1>1, <2>11
  <2>16. \A v \in Workers : proc[v].pc \in ClaimPcs =>
           v # w /\ proc[v].generation # proc[w].generation
    BY <1>1, <2>2, <2>3, Zenon DEF MountInv, ClaimInv, ClaimsAreRecorded, ClaimPcs
  <2>17. \A j \in Slots \ {k} : g_image_cache[j].valid =>
           g_image_cache[j].generation # proc[w].generation
    BY <2>3, Zenon DEF MountInv, CacheInv, UniqueOwners
  <2>18. ClaimedRecords'
    <3>1. c.valid /\ c.identity # 0
      BY <2>2, <2>3, <2>4, <2>5, Zenon
    <3> QED BY <2>5, <2>7, <3>1 DEF MountInv, ClaimInv, ClaimedRecords
  <2>19. ClaimsAreRecorded'
    <3>1. proc[w].generation <= g_image_cache_generation
      BY <1>1, <2>3 DEF MountInv, CacheInv, IssuedGenerations
    <3>2. ASSUME NEW v \in Workers, proc'[v].pc \in ClaimPcs
          PROVE  /\ proc'[v].generation <= g_image_cache_generation'
                 /\ \A j \in Slots :
                      (/\ g_image_cache'[j].valid
                       /\ g_image_cache'[j].generation = proc'[v].generation)
                        => g_image_cache'[j].detach_attempt_active
      <4>1. CASE v = w
        BY <2>2, <2>5, <2>7, <2>13, <2>15, <2>17, <3>1, <4>1
      <4>2. CASE v # w
        BY <2>2, <2>5, <2>7, <2>15, <3>2, <4>2 DEF MountInv, ClaimInv, ClaimsAreRecorded
      <4> QED BY <4>1, <4>2
    <3> QED BY <3>2, Zenon DEF ClaimsAreRecorded
  <2>20. ClaimIsHeld'
    <3>1. ASSUME NEW j \in Slots, g_image_cache'[j].detach_attempt_active
          PROVE  \E v \in Workers : HoldsClaim(proc'[v], g_image_cache'[j])
      <4>1. CASE j = k
        <5>1. HoldsClaim(e, c)
          BY <2>3, <2>4, <2>5, <2>7, <2>10, <2>13 DEF HoldsClaim, ClaimPcs
        <5> QED BY <2>7, <2>15, <4>1, <5>1, Zenon
      <4>2. CASE j # k
        <5>1. PICK v \in Workers : HoldsClaim(proc[v], g_image_cache[j])
          BY <2>7, <3>1, <4>2, Zenon DEF MountInv, ClaimInv, ClaimIsHeld
        <5>2. v # w
          BY <2>16, <5>1, Zenon DEF HoldsClaim
        <5> QED BY <2>7, <2>15, <4>2, <5>1, <5>2, Zenon
      <4> QED BY <4>1, <4>2, Zenon
    <3>2. ASSUME NEW u \in Workers, NEW v \in Workers, u # v,
                 proc'[u].pc \in ClaimPcs, proc'[v].pc \in ClaimPcs
          PROVE  proc'[u].generation # proc'[v].generation
      <4>1. CASE u = w
        BY <2>13, <2>15, <2>16, <3>2, <4>1, Zenon
      <4>2. CASE v = w
        BY <2>13, <2>15, <2>16, <3>2, <4>2, Zenon
      <4>3. CASE u # w /\ v # w
        BY <2>15, <3>2, <4>3, Zenon DEF MountInv, ClaimInv, ClaimIsHeld
      <4> QED BY <4>1, <4>2, <4>3, Zenon
    <3> QED BY <3>1, <3>2, Zenon DEF ClaimIsHeld
  <2>21. MountTypeOK'
    BY <1>2, <2>1, <2>11, <2>13, <2>14, WorkerTypes, Zenon
  <2> QED BY <2>1, <2>18, <2>19, <2>20, <2>21, Zenon DEF MountInv, ClaimInv
<1>4. CASE Go(w, "rmdir") /\ UNCHANGED tableVars
  <2>1. TableStep
    BY <1>2, <1>4, SameTable
  <2> QED BY <1>1, <1>2, <1>4, <2>1, GoKeeps DEF ClaimPcs, Pcs, DevicePcs, UnmountPcs
<1> QED BY <1>3, <1>4, Zenon DEF ClaimDetach
(* A worker that moves on and notes whether the target was released.        *)
LEMMA SetReleased ==
  ASSUME NEW p \in Activity, NEW pc \in Pcs, NEW released \in BOOLEAN
  PROVE  LET e == [p EXCEPT !.pc = pc, !.released = released] IN
         /\ e \in Activity /\ e.pc = pc
         /\ e.path = p.path /\ e.device = p.device /\ e.slot = p.slot
         /\ e.generation = p.generation /\ e.identity = p.identity
  BY Zenon DEF Activity, Pcs

(* PrepareDetach, FailedDetach and WaitRelease look at the target.          *)
LEMMA LookAtTargetKeeps ==
  ASSUME MountInv, NEW w \in Workers, PrepareDetach(w) \/ FailedDetach(w) \/ WaitRelease(w)
  PROVE  MountInv'
<1>1. /\ proc[w] \in Activity /\ HasArguments(proc[w]) /\ proc \in [Workers -> Activity]
      /\ proc[w].pc \in {"prepare", "failed", "wait"}
  BY WorkerFacts DEF PrepareDetach, FailedDetach, WaitRelease, At
<1>2. /\ TableStep /\ KernelOK' /\ lock' = lock
      /\ spared' \subseteq Paths /\ protected' \subseteq Paths
  BY QuietStep DEF PrepareDetach, FailedDetach, WaitRelease
<1>3. PICK pc \in {"finish", "ioctl", "rmdir"} :
        /\ pc = "rmdir" <=> proc[w].pc = "wait"
        /\ \/ Go(w, pc)
           \/ proc' = [proc EXCEPT ![w].pc = pc, ![w].released = TRUE]
  BY DEF PrepareDetach, FailedDetach, WaitRelease, At
<1>4. CASE Go(w, pc)
  BY <1>1, <1>2, <1>3, <1>4, GoKeeps, Zenon DEF ClaimPcs, Pcs, DevicePcs, UnmountPcs
<1>5. CASE proc' = [proc EXCEPT ![w].pc = pc, ![w].released = TRUE]
  <2> DEFINE e == [proc[w] EXCEPT !.pc = pc, !.released = TRUE]
  <2>1. proc' = [proc EXCEPT ![w] = e]
    BY <1>1, <1>5, Zenon
  <2>2. /\ e \in Activity /\ e.pc = pc
        /\ e.path = proc[w].path /\ e.device = proc[w].device /\ e.slot = proc[w].slot
        /\ e.generation = proc[w].generation /\ e.identity = proc[w].identity
    <3>1. pc \in Pcs /\ TRUE \in BOOLEAN
      BY Zenon DEF Pcs, DevicePcs, UnmountPcs
    <3> QED BY <1>1, <3>1, SetReleased, Zenon
  <2> HIDE DEF e
  <2>3. HasArguments(e) /\ SameClaim(proc[w], e)
    BY <1>1, <1>3, <2>2 DEF HasArguments, SameClaim, DevicePcs, UnmountPcs, ClaimPcs
  <2> QED BY <1>2, <2>1, <2>2, <2>3, StepKeeps, Zenon
<1> QED BY <1>3, <1>4, <1>5

(* DetachIoctl.                                                             *)
LEMMA DetachIoctlKeeps ==
  ASSUME MountInv, NEW w \in Workers, DetachIoctl(w)
  PROVE  MountInv'
<1>1. /\ proc[w] \in Activity /\ HasArguments(proc[w]) /\ proc \in [Workers -> Activity]
      /\ proc[w].pc = "ioctl" /\ proc[w].device \in Devices
      /\ KernelOK /\ node \in [Devices -> Nat]
  BY WorkerFacts DEF DetachIoctl, At, HasArguments, DevicePcs, UnmountPcs
<1>2. /\ lock' = lock /\ spared' \subseteq Paths /\ protected' \subseteq Paths
  BY WorkerFacts DEF DetachIoctl, sleepVars
<1>3. KernelOK'
  BY <1>1 DEF DetachIoctl, KernelOK
<1>4. TableStep
  BY <1>1, SameTable DEF DetachIoctl
<1>5. CASE \E pc \in {"failed", "finish"} : Go(w, pc)
  BY <1>1, <1>2, <1>3, <1>4, <1>5, GoKeeps, Zenon DEF ClaimPcs, Pcs, DevicePcs, UnmountPcs
<1>6. CASE proc' = [proc EXCEPT ![w].pc = "finish", ![w].requested = TRUE,
                                ![w].accepted = TRUE]
  <2> DEFINE e == [proc[w] EXCEPT !.pc = "finish", !.requested = TRUE, !.accepted = TRUE]
  <2>1. proc' = [proc EXCEPT ![w] = e]
    BY <1>1, <1>6, Zenon
  <2>2. /\ e \in Activity /\ e.pc = "finish"
        /\ e.path = proc[w].path /\ e.device = proc[w].device /\ e.slot = proc[w].slot
        /\ e.generation = proc[w].generation /\ e.identity = proc[w].identity
    BY <1>1, Zenon DEF Activity, DevicePcs, UnmountPcs
  <2> HIDE DEF e
  <2>3. HasArguments(e) /\ SameClaim(proc[w], e)
    BY <1>1, <2>2, Zenon DEF HasArguments, SameClaim, DevicePcs, UnmountPcs, ClaimPcs
  <2> QED BY <1>2, <1>3, <1>4, <2>1, <2>2, <2>3, StepKeeps, Zenon
<1> QED BY <1>5, <1>6 DEF DetachIoctl

(* A worker gives up its claim in a step that leaves no record claimed      *)
(* under its generation.                                                    *)
LEMMA GiveUpClaim ==
  ASSUME MountInv, CacheInv', NEW w \in Workers, proc[w].pc \in ClaimPcs,
         NEW e, e.pc \notin ClaimPcs, proc' = [proc EXCEPT ![w] = e],
         g_image_cache_generation' = g_image_cache_generation,
         \A k \in Slots :
           IF g_image_cache[k].generation = proc[w].generation
           THEN /\ ~g_image_cache'[k].detach_attempt_active
                /\ g_image_cache'[k].generation = g_image_cache[k].generation
           ELSE g_image_cache'[k] = g_image_cache[k]
  PROVE  ClaimInv'
<1>1. proc \in [Workers -> Activity]
  BY Zenon DEF MountInv, MountTypeOK
<1>2. proc'[w] = e /\ \A v \in Workers \ {w} : proc'[v] = proc[v]
  BY <1>1, Zenon
<1>3. \A v \in Workers : proc'[v].pc \in ClaimPcs =>
        /\ v # w /\ proc'[v] = proc[v] /\ proc[v].generation # proc[w].generation
  BY <1>2, Zenon DEF MountInv, ClaimInv, ClaimIsHeld
<1>4. \A k \in Slots : g_image_cache'[k].detach_attempt_active =>
        /\ g_image_cache'[k] = g_image_cache[k]
        /\ g_image_cache[k].generation # proc[w].generation
  BY Zenon
<1>5. ClaimedRecords'
  BY <1>4, Zenon DEF MountInv, ClaimInv, ClaimedRecords
<1>6. ClaimsAreRecorded'
  BY <1>3 DEF MountInv, ClaimInv, ClaimsAreRecorded
<1>7. ClaimIsHeld'
  <2>1. ASSUME NEW k \in Slots, g_image_cache'[k].detach_attempt_active
        PROVE  \E v \in Workers : HoldsClaim(proc'[v], g_image_cache'[k])
    <3>1. PICK v \in Workers : HoldsClaim(proc[v], g_image_cache[k])
      BY <1>4, <2>1, Zenon DEF MountInv, ClaimInv, ClaimIsHeld
    <3>2. v # w
      BY <1>4, <2>1, <3>1, Zenon DEF HoldsClaim
    <3> QED BY <1>2, <1>4, <2>1, <3>1, <3>2, Zenon
  <2>2. ASSUME NEW u \in Workers, NEW v \in Workers, u # v,
               proc'[u].pc \in ClaimPcs, proc'[v].pc \in ClaimPcs
        PROVE  proc'[u].generation # proc'[v].generation
    BY <1>3, <2>2 DEF MountInv, ClaimInv, ClaimIsHeld
  <2> QED BY <2>1, <2>2, Zenon DEF ClaimIsHeld
<1> QED BY <1>5, <1>6, <1>7, Zenon DEF ClaimInv
(* FinishDetach: the worker writes its attempt back, or finds that the      *)
(* record it claimed is no longer claimed.                                  *)
LEMMA FinishDetachKeeps ==
  ASSUME MountInv, NEW w \in Workers, FinishDetach(w)
  PROVE  MountInv'
<1> DEFINE p == proc[w]
<1>1. /\ p \in Activity /\ HasArguments(p) /\ proc \in [Workers -> Activity]
      /\ p.pc = "finish" /\ p.pc \in ClaimPcs /\ p.requested \in BOOLEAN
      /\ g_image_cache \in [Slots -> ImageCacheEntry]
  <2>1. p \in Activity
    BY WorkerFacts
  <2>2. p.requested \in BOOLEAN
    BY <2>1, Zenon DEF Activity
  <2> QED BY <2>1, <2>2, WorkerFacts, Zenon DEF FinishDetach, At, ClaimPcs
<1>2. /\ KernelOK' /\ node' = node /\ node' \in [Devices -> Nat] /\ lock' = lock
      /\ spared' \subseteq Paths /\ protected' \subseteq Paths
  BY SameKernel, WorkerFacts, Zenon DEF FinishDetach, sleepVars
<1>3. CASE finish_image_cache_detach_attempt(p.path, p.generation, p.device,
                                             p.identity, p.requested)
           /\ Go(w, IF p.accepted /\ ~p.released THEN "wait" ELSE "rmdir")
  <2>1. CacheInv'
    BY <1>1, <1>2, <1>3, FinishIsGood, Zenon DEF MountInv, GoodStep
  <2> DEFINE c(k) == [g_image_cache[k] EXCEPT !.requested = p.requested,
                                              !.state = "DETACH_REQUESTED",
                                              !.detach_attempt_active = FALSE]
  <2>2. PICK k \in find_attachment_record(p.path, p.generation, p.device) :
          /\ g_image_cache' = [g_image_cache EXCEPT ![k] = c(k)]
          /\ g_image_cache_generation' = g_image_cache_generation
    BY <1>3, Zenon DEF finish_image_cache_detach_attempt
  <2>3. /\ k \in Slots /\ g_image_cache[k] \in ImageCacheEntry /\ g_image_cache[k].valid
        /\ g_image_cache[k].generation = p.generation
    BY <1>1, <2>2 DEF find_attachment_record, PathOwners
  <2>4. /\ c(k).detach_attempt_active = FALSE
        /\ c(k).generation = g_image_cache[k].generation
    BY <2>3, Zenon DEF ImageCacheEntry
  <2> HIDE DEF c
  <2>5. g_image_cache'[k] = c(k) /\ \A j \in Slots \ {k} : g_image_cache'[j] = g_image_cache[j]
    BY <1>1, <2>2, <2>3, Zenon
  <2>6. \A j \in Slots : g_image_cache[j].generation = p.generation => j = k
    <3>1. p.generation # 0
      BY <2>3 DEF MountInv, CacheInv, IssuedGenerations
    <3>2. Wiped.generation = 0
      BY DEF Wiped
    <3>3. UniqueOwners /\ IssuedGenerations(g_image_cache, g_image_cache_generation)
      BY Zenon DEF MountInv, CacheInv
    <3> QED BY <2>3, <3>1, <3>2, <3>3, Zenon DEF IssuedGenerations, UniqueOwners
  <2>7. PICK pc \in {"wait", "rmdir"} : Go(w, pc)
    BY <1>3
  <2> DEFINE e == [p EXCEPT !.pc = pc]
  <2>8. proc' = [proc EXCEPT ![w] = e]
    BY <1>1, <2>7 DEF Go
  <2>9. e \in Activity /\ e.pc = pc /\ e.path = p.path /\ e.device = p.device
        /\ e.slot = p.slot
    BY <1>1, SetPc DEF Pcs, DevicePcs, UnmountPcs
  <2> HIDE DEF e
  <2>10. HasArguments(e) /\ e.pc \notin ClaimPcs /\ e.pc # "idle"
    BY <1>1, <2>9, Zenon DEF HasArguments, DevicePcs, UnmountPcs, ClaimPcs
  <2>11. \A j \in Slots :
           IF g_image_cache[j].generation = p.generation
           THEN /\ ~g_image_cache'[j].detach_attempt_active
                /\ g_image_cache'[j].generation = g_image_cache[j].generation
           ELSE g_image_cache'[j] = g_image_cache[j]
    BY <2>3, <2>4, <2>5, <2>6, Zenon
  <2>12. ClaimInv'
    BY <1>1, <2>1, <2>2, <2>8, <2>10, <2>11, GiveUpClaim, Zenon
  <2>13. MountTypeOK'
    BY <1>2, <2>1, <2>8, <2>9, <2>10, WorkerTypes, Zenon
  <2> QED BY <2>1, <2>12, <2>13, Zenon DEF MountInv
<1>4. CASE /\ \A k \in find_attachment_record(p.path, p.generation, p.device) :
                \/ ~g_image_cache[k].detach_attempt_active
                \/ g_image_cache[k].identity # p.identity
           /\ proc' = [proc EXCEPT ![w].pc = "rmdir", ![w].released = FALSE]
           /\ UNCHANGED tableVars
  <2>1. /\ g_image_cache' = g_image_cache
        /\ g_image_cache_generation' = g_image_cache_generation
    BY <1>4 DEF tableVars
  <2>2. CacheInv'
    BY <1>2, <1>4, SameTable DEF TableStep
  <2>3. \A j \in Slots : g_image_cache[j].generation = p.generation =>
          ~g_image_cache[j].detach_attempt_active
    <3> SUFFICES ASSUME NEW j \in Slots, g_image_cache[j].generation = p.generation,
                        g_image_cache[j].detach_attempt_active
                 PROVE  FALSE
      OBVIOUS
    <3>1. PICK v \in Workers : HoldsClaim(proc[v], g_image_cache[j])
      BY Zenon DEF MountInv, ClaimInv, ClaimIsHeld
    <3>2. v = w
      BY <1>1, <3>1 DEF HoldsClaim, MountInv, ClaimInv, ClaimIsHeld
    <3>3. g_image_cache[j].valid
      BY DEF MountInv, ClaimInv, ClaimedRecords
    <3> QED BY <1>4, <3>1, <3>2, <3>3 DEF HoldsClaim, find_attachment_record, PathOwners
  <2> DEFINE e == [p EXCEPT !.pc = "rmdir", !.released = FALSE]
  <2>4. proc' = [proc EXCEPT ![w] = e]
    BY <1>1, <1>4, Zenon
  <2>5. e \in Activity /\ e.pc = "rmdir" /\ e.path = p.path /\ e.device = p.device
        /\ e.slot = p.slot
    <3>1. "rmdir" \in Pcs /\ FALSE \in BOOLEAN
      BY Zenon DEF Pcs, DevicePcs, UnmountPcs
    <3> QED BY <1>1, <3>1, SetReleased, ZenonT(60)
  <2> HIDE DEF e
  <2>6. HasArguments(e) /\ e.pc \notin ClaimPcs /\ e.pc # "idle"
    BY <1>1, <2>5 DEF HasArguments, DevicePcs, UnmountPcs, ClaimPcs
  <2>7. ClaimInv'
    BY <1>1, <2>1, <2>2, <2>3, <2>4, <2>6, GiveUpClaim, Zenon
  <2>8. MountTypeOK'
    BY <1>2, <2>2, <2>4, <2>5, <2>6, WorkerTypes, Zenon
  <2> QED BY <2>2, <2>7, <2>8, Zenon DEF MountInv
<1> QED BY <1>3, <1>4, Zenon DEF FinishDetach

(* RemoveDirectory.                                                         *)
LEMMA RemoveDirectoryKeeps ==
  ASSUME MountInv, NEW w \in Workers, RemoveDirectory(w)
  PROVE  MountInv'
<1>1. proc[w].pc = "rmdir"
  BY DEF RemoveDirectory, At
<1>2. /\ TableStep /\ KernelOK'
      /\ spared' \subseteq Paths /\ protected' \subseteq Paths
  BY QuietStep DEF RemoveDirectory
<1>3. CASE Go(w, "invalidate") /\ UNCHANGED lock
  BY <1>1, <1>2, <1>3, GoKeeps DEF ClaimPcs, Pcs, DevicePcs, UnmountPcs
<1>4. CASE End(w, FALSE)
  BY <1>1, <1>2, <1>4, EndKeeps, Zenon DEF ClaimPcs
<1> QED BY <1>3, <1>4, Zenon DEF RemoveDirectory

(* Invalidate.                                                              *)
LEMMA InvalidateKeeps ==
  ASSUME MountInv, NEW w \in Workers, Invalidate(w)
  PROVE  MountInv'
<1>1. proc[w].pc = "invalidate" /\ proc[w].slot \in Slots
  BY WorkerFacts, Zenon DEF Invalidate, At, HasArguments, UnmountPcs
<1>2. /\ KernelOK' /\ node' = node /\ node' \in [Devices -> Nat]
      /\ spared' \subseteq Paths /\ protected' \subseteq Paths
  BY SameKernel, WorkerFacts, Zenon DEF Invalidate, sleepVars
<1>3. TableStep
  <2>1. CASE UNCHANGED tableVars
    BY <1>2, <2>1, SameTable
  <2>2. CASE invalidate_image_cache_entry(proc[w].slot, copy_cache_entry(proc[w].slot))
    BY <1>1, <1>2, <2>2, InvalidateTable DEF MountInv, ClaimInv
  <2> QED BY <2>1, <2>2, Zenon DEF Invalidate
<1>4. \E ok : End(w, ok)
  BY Zenon DEF Invalidate
<1> QED BY <1>1, <1>2, <1>3, <1>4, EndKeeps DEF ClaimPcs
(* SweepUsb.                                                                *)
LEMMA SweepUsbKeeps ==
  ASSUME MountInv, NEW w \in Workers, SweepUsb(w)
  PROVE  MountInv'
<1> DEFINE k == proc[w].sweep
<1>1. /\ proc[w].pc = "sweep" /\ proc[w] \in Activity /\ k \in Nat
      /\ proc \in [Workers -> Activity]
      /\ g_image_cache \in [Slots -> ImageCacheEntry]
  BY WorkerFacts DEF SweepUsb, At, Activity
<1>2. /\ KernelOK' /\ node' \in [Devices -> Nat]
      /\ spared' \subseteq Paths /\ protected' \subseteq Paths
  BY SameKernel, WorkerFacts DEF SweepUsb
<1>3. TableStep
  BY <1>2, SameTable, Zenon DEF SweepUsb
<1>4. CASE proc' = [proc EXCEPT ![w] = Idle] /\ lock' = NoWorker
  <2>1. /\ Idle \in Activity /\ HasArguments(Idle) /\ SameClaim(proc[w], Idle)
    BY <1>1, IdleFacts DEF HasArguments, SameClaim, DevicePcs, UnmountPcs, ClaimPcs
  <2> QED BY <1>2, <1>3, <1>4, <2>1, StepKeeps, MountConstants, Zenon
<1>5. CASE proc' = [proc EXCEPT ![w].sweep = k + 1] /\ lock' = lock
  <2> DEFINE e == [proc[w] EXCEPT !.sweep = k + 1]
  <2>1. proc' = [proc EXCEPT ![w] = e]
    BY <1>1, <1>5
  <2>2. k + 1 \in Nat
    BY <1>1
  <2>3. e \in Activity /\ e.pc = proc[w].pc
    BY <1>1, <2>2, Zenon DEF Activity
  <2> HIDE DEF e
  <2>4. HasArguments(e) /\ SameClaim(proc[w], e) /\ e.pc # "idle"
    BY <1>1, <2>3 DEF HasArguments, SameClaim, DevicePcs, UnmountPcs, ClaimPcs
  <2> QED BY <1>2, <1>3, <1>5, <2>1, <2>3, <2>4, StepKeeps, Zenon
<1>6. CASE /\ k \in Slots
           /\ g_image_cache[k].valid /\ g_image_cache[k].device # NoDevice
           /\ proc' = [proc EXCEPT ![w] =
                         [@ EXCEPT !.pc = "mark", !.path = g_image_cache[k].path,
                                   !.slot = k, !.entry = copy_cache_entry(k),
                                   !.ret = "sweep", !.sweep = k + 1]]
           /\ lock' = lock
  <2>1. PICK path, c : path = g_image_cache[k].path /\ c = copy_cache_entry(k)
    OBVIOUS
  <2>2. c \in ImageCacheEntry /\ c.device \in Devices
    BY <1>1, <1>6, <2>1, CopyFacts
  <2>3. path \in Paths
    BY <1>6, <2>1 DEF MountInv, CacheInv, IssuedGenerations
  <2>4. k + 1 \in Nat
    BY <1>1
  <2> DEFINE e == [proc[w] EXCEPT !.pc = "mark", !.path = path, !.slot = k,
                                  !.entry = c, !.ret = "sweep", !.sweep = k + 1]
  <2>5. proc' = [proc EXCEPT ![w] = e]
    BY <1>1, <1>6, <2>1
  <2>6. e \in Activity /\ e.pc = "mark" /\ e.path = path /\ e.slot = k /\ e.entry = c
    BY <1>1, <2>2, <2>3, <2>4, Zenon DEF Activity, Returns
  <2> HIDE DEF e
  <2>7. HasArguments(e) /\ SameClaim(proc[w], e)
    BY <1>1, <1>6, <2>2, <2>3, <2>6
       DEF HasArguments, SameClaim, DevicePcs, UnmountPcs, ClaimPcs
  <2> QED BY <1>2, <1>3, <1>6, <2>5, <2>6, <2>7, StepKeeps, Zenon
<1> QED BY <1>4, <1>5, <1>6, Zenon DEF SweepUsb

-----------------------------------------------------------------------------
(* The steps that start a release. *)

(* ReleaseMount.                                                            *)
LEMMA ReleaseMountKeeps ==
  ASSUME MountInv, NEW w \in Workers, ReleaseMount(w)
  PROVE  MountInv'
<1>1. PICK path \in Paths :
        proc' = [proc EXCEPT ![w].pc = "release", ![w].path = path]
  BY Zenon DEF ReleaseMount
<1> DEFINE e == [proc[w] EXCEPT !.pc = "release", !.path = path]
<1>2. /\ proc[w] \in Activity /\ proc \in [Workers -> Activity]
      /\ proc[w].pc = "idle" /\ lock' = w
  BY WorkerFacts DEF ReleaseMount, At
<1>3. proc' = [proc EXCEPT ![w] = e]
  BY <1>1, <1>2, Zenon
<1>4. e \in Activity /\ e.pc = "release" /\ e.path = path
  BY <1>2, Zenon DEF Activity
<1> HIDE DEF e
<1>5. HasArguments(e) /\ SameClaim(proc[w], e)
  BY <1>2, <1>4 DEF HasArguments, SameClaim, DevicePcs, UnmountPcs, ClaimPcs
<1>6. /\ TableStep /\ KernelOK'
      /\ spared' \subseteq Paths /\ protected' \subseteq Paths
  BY QuietStep DEF ReleaseMount
<1> QED BY <1>2, <1>3, <1>4, <1>5, <1>6, StepKeeps, Zenon

(* CleanupStale: the record it starts from is valid and has a device.       *)
LEMMA CleanupStaleKeeps ==
  ASSUME MountInv, NEW w \in Workers, CleanupStale(w)
  PROVE  MountInv'
<1>1. /\ proc[w].pc = "idle" /\ proc[w] \in Activity
      /\ proc \in [Workers -> Activity]
      /\ g_image_cache \in [Slots -> ImageCacheEntry]
  BY WorkerFacts DEF CleanupStale, At
<1>2. /\ TableStep /\ KernelOK' /\ lock' = lock
      /\ spared' \subseteq Paths /\ protected' \subseteq Paths
  BY QuietStep, Zenon DEF CleanupStale
<1>3. PICK k \in Slots :
        /\ g_image_cache[k].valid
        /\ g_image_cache[k].device # NoDevice
        /\ \/ CallUnmount(w, k, "idle")
           \/ proc' = [proc EXCEPT ![w].pc = "release",
                         ![w].path = g_image_cache[k].path,
                         ![w].expected = g_image_cache[k].generation,
                         ![w].ret = "cached"]
  BY Zenon DEF CleanupStale
<1>4. PICK path, c, g : /\ path = g_image_cache[k].path /\ c = copy_cache_entry(k)
                        /\ g = g_image_cache[k].generation
  OBVIOUS
<1>5. c \in ImageCacheEntry /\ c.device \in Devices
  BY <1>1, <1>3, <1>4, CopyFacts, Zenon
<1>6. path \in Paths /\ g \in Nat /\ k \in Nat
  BY <1>1, <1>3, <1>4, CacheConstants
     DEF MountInv, CacheInv, IssuedGenerations, ImageCacheEntry, Slots
<1>7. CASE CallUnmount(w, k, "idle")
  <2> DEFINE e == [proc[w] EXCEPT !.pc = "mark", !.path = path, !.expected = 0,
                                  !.slot = k, !.entry = c, !.ret = "idle"]
  <2>1. proc' = [proc EXCEPT ![w] = e]
    BY <1>1, <1>4, <1>7, Zenon DEF CallUnmount
  <2>2. e \in Activity /\ e.pc = "mark" /\ e.path = path /\ e.slot = k /\ e.entry = c
    <3>1. 0 \in Nat
      BY Zenon
    <3> QED BY <1>1, <1>5, <1>6, <3>1, Zenon DEF Activity, Returns
  <2> HIDE DEF e
  <2>3. HasArguments(e) /\ SameClaim(proc[w], e)
    BY <1>1, <1>5, <1>6, <2>2, Zenon
       DEF HasArguments, SameClaim, DevicePcs, UnmountPcs, ClaimPcs
  <2> QED BY <1>2, <2>1, <2>2, <2>3, StepKeeps, Zenon
<1>8. CASE proc' = [proc EXCEPT ![w].pc = "release",
                      ![w].path = g_image_cache[k].path,
                      ![w].expected = g_image_cache[k].generation,
                      ![w].ret = "cached"]
  <2> DEFINE e == [proc[w] EXCEPT !.pc = "release", !.path = path, !.expected = g,
                                  !.ret = "cached"]
  <2>1. proc' = [proc EXCEPT ![w] = e]
    BY <1>1, <1>4, <1>8, Zenon
  <2>2. e \in Activity /\ e.pc = "release" /\ e.path = path
    BY <1>1, <1>6, Zenon DEF Activity, Returns
  <2> HIDE DEF e
  <2>3. HasArguments(e) /\ SameClaim(proc[w], e)
    BY <1>1, <1>6, <2>2, Zenon DEF HasArguments, SameClaim, DevicePcs, UnmountPcs, ClaimPcs
  <2> QED BY <1>2, <2>1, <2>2, <2>3, StepKeeps, Zenon
<1> QED BY <1>3, <1>7, <1>8

(* StartSuspend.                                                            *)
LEMMA StartSuspendKeeps ==
  ASSUME MountInv, NEW w \in Workers, StartSuspend(w)
  PROVE  MountInv'
<1>1. proc[w].pc = "idle" /\ lock' = w /\ Go(w, "sweep")
  BY Zenon DEF StartSuspend, At
<1>2. /\ KernelOK' /\ node' \in [Devices -> Nat]
      /\ spared' \subseteq Paths /\ protected' \subseteq Paths
  BY SameKernel, WorkerFacts, Zenon DEF StartSuspend
<1>3. TableStep
  BY <1>2, SameTable DEF StartSuspend
<1> QED BY <1>1, <1>2, <1>3, GoKeeps, Zenon DEF ClaimPcs, Pcs, Returns, DevicePcs, UnmountPcs
-----------------------------------------------------------------------------
(* The environment, and the theorems. *)

(* The kernel's, the console's and the titles' own steps.                   *)
LEMMA EnvironmentStep ==
  ASSUME MountInv,
         \/ NodeAppears \/ DetachCompletes \/ MountLost
         \/ SleepModeChanges \/ ProtectionChanges
  PROVE  MountInv'
<1>1. /\ KernelOK /\ node \in [Devices -> Nat]
      /\ spared \subseteq Paths /\ protected \subseteq Paths
  BY Zenon DEF MountInv, MountTypeOK, KernelOK, CacheInv, RecordTypes
<1>2. UNCHANGED <<tableVars, proc, lock>>
  BY Zenon DEF NodeAppears, DetachCompletes, MountLost, SleepModeChanges, ProtectionChanges
<1>3. CASE NodeAppears
  <2>1. node' \in [Devices -> Nat] /\ KernelOK'
    BY <1>1, <1>3, Zenon DEF NodeAppears, KernelOK
  <2> QED BY <1>1, <1>2, <1>3, <2>1, EnvironmentKeeps, Zenon DEF NodeAppears, sleepVars
<1>4. CASE DetachCompletes
  <2>1. node' \in [Devices -> Nat] /\ KernelOK'
    BY <1>1, <1>4 DEF DetachCompletes, KernelOK
  <2> QED BY <1>1, <1>2, <1>4, <2>1, EnvironmentKeeps, Zenon DEF DetachCompletes, sleepVars
<1>5. CASE MountLost
  <2>1. node' \in [Devices -> Nat] /\ KernelOK'
    <3>1. <<>> \in Seq(Devices)
      OBVIOUS
    <3> QED BY <1>1, <1>5, <3>1 DEF MountLost, KernelOK
  <2> QED BY <1>1, <1>2, <1>5, <2>1, EnvironmentKeeps, Zenon DEF MountLost, sleepVars
<1>6. CASE SleepModeChanges
  <2>1. node' \in [Devices -> Nat] /\ KernelOK'
    BY <1>1, <1>6, Zenon DEF SleepModeChanges, kernelVars, KernelOK
  <2> QED BY <1>1, <1>2, <1>6, <2>1, EnvironmentKeeps, Zenon DEF SleepModeChanges
<1>7. CASE ProtectionChanges
  <2>1. node' \in [Devices -> Nat] /\ KernelOK'
    BY <1>1, <1>7, Zenon DEF ProtectionChanges, kernelVars, KernelOK
  <2>2. protected' \subseteq Paths
    BY <1>1, <1>7, MountConstants DEF ProtectionChanges
  <2> QED BY <1>1, <1>2, <1>7, <2>1, <2>2, EnvironmentKeeps, Zenon DEF ProtectionChanges, sleepVars
<1> QED BY <1>3, <1>4, <1>5, <1>6, <1>7, Zenon

(* The table is empty and nobody works when the program starts, whatever    *)
(* mounts it finds.                                                         *)
LEMMA InitIsSound == MountInit => MountInv
<1> SUFFICES ASSUME MountInit PROVE MountInv
  BY Zenon
<1>1. Wiped \in ImageCacheEntry /\ ~Wiped.valid /\ ~Wiped.detach_attempt_active
  BY Zenon DEF Wiped, ImageCacheEntry, AttachedStates
<1>2. /\ Idle \in Activity /\ Idle.pc = "idle" /\ HasArguments(Idle)
  BY IdleFacts, Zenon DEF HasArguments, DevicePcs, UnmountPcs
<1>3. /\ unit \in [Devices -> Nat] /\ node \in [Devices -> Nat]
      /\ attaches \in Nat /\ g_image_cache_generation \in Nat
      /\ mounted \in [MountPoints -> Seq(Devices)]
  <2>1. \A d \in Devices : (IF device_node_is_mounted(d) THEN 1 ELSE 0) \in Nat
    BY Zenon
  <2> QED BY <2>1, MountConstants DEF MountInit
<1>4. /\ g_image_cache \in [Slots -> ImageCacheEntry]
      /\ \A k \in Slots : g_image_cache[k] = Wiped
  BY <1>1, Zenon DEF MountInit
<1>5. CacheInv /\ CacheTypeOK
  BY <1>1, <1>3, <1>4, Zenon DEF CacheInv, CacheTypeOK, RecordTypes, UniqueOwners, IssuedGenerations
<1>6. /\ proc \in [Workers -> Activity]
      /\ \A w \in Workers : proc[w] = Idle
  BY <1>2, Zenon DEF MountInit
<1>7. MountTypeOK
  BY <1>2, <1>3, <1>5, <1>6, Zenon DEF MountInit, MountTypeOK
<1>8. ClaimInv
  BY <1>1, <1>2, <1>4, <1>6, Zenon
     DEF ClaimInv, ClaimedRecords, ClaimsAreRecorded, ClaimIsHeld, ClaimPcs
<1> QED BY <1>5, <1>7, <1>8 DEF MountInv

(* Every step of a worker or of the environment keeps the invariant.        *)
LEMMA NextIsSound == MountInv /\ [MountNext]_mountVars => MountInv'
<1> SUFFICES ASSUME MountInv, [MountNext]_mountVars PROVE MountInv'
  BY Zenon
<1>1. CASE UNCHANGED mountVars
  <2>1. /\ UNCHANGED <<tableVars, kernelVars, proc, lock>>
        /\ UNCHANGED <<spared, protected, leaked>>
    BY <1>1, Zenon DEF mountVars, sleepVars
  <2>2. /\ KernelOK' /\ node' \in [Devices -> Nat]
        /\ spared' \subseteq Paths /\ protected' \subseteq Paths
    BY <2>1, SameKernel, Zenon DEF MountInv, MountTypeOK
  <2> QED BY <2>1, <2>2, EnvironmentKeeps, Zenon
<1>2. ASSUME NEW w \in Workers, MountStep(w) PROVE MountInv'
  BY <1>2, HandleCachedKeeps, ReuseExistingKeeps, AdoptMountKeeps,
     BeginAttachmentKeeps, AttachDeviceKeeps, PublishAttachmentKeeps,
     RollbackUnitKeeps, WaitForNodeKeeps, PerformNmountKeeps,
     CompleteAttachmentKeeps, Zenon
     DEF MountStep
<1>3. ASSUME NEW w \in Workers, ReleaseStep(w) PROVE MountInv'
  BY <1>3, ReleaseImageKeeps, MarkDetachKeeps, UnmountLayersKeeps,
     ClaimDetachKeeps, LookAtTargetKeeps, DetachIoctlKeeps, FinishDetachKeeps,
     RemoveDirectoryKeeps, InvalidateKeeps, SweepUsbKeeps, Zenon
     DEF ReleaseStep
<1>4. ASSUME NEW w \in Workers,
             MountImage(w) \/ CleanupStale(w) \/ ReleaseMount(w) \/ StartSuspend(w)
      PROVE  MountInv'
  BY <1>4, MountImageKeeps, CleanupStaleKeeps, ReleaseMountKeeps, StartSuspendKeeps
<1> QED BY <1>1, <1>2, <1>3, <1>4, EnvironmentStep, Zenon DEF MountNext

(* The inductive invariant of image mounts and releases holds for any       *)
(* number of threads in mount_image, the sweeps and the releases at once.   *)
THEOREM MountInvariance == MountSpec => []MountInv
  BY InitIsSound, NextIsSound, PTL DEF MountSpec

(* Records, units and workers keep their types, a release works on a slot   *)
(* and a device of the table, and no call returns with the mount state lock *)
(* held.                                                                    *)
THEOREM MountTypesHold == MountSpec => []MountTypeOK
<1>1. MountInv => MountTypeOK
  BY DEF MountInv
<1> QED BY <1>1, MountInvariance, PTL

(* Whatever the threads do, a record that detach_cached_image_device has    *)
(* claimed is claimed by exactly one worker that will finish the attempt.   *)
THEOREM ClaimsAreHeld == MountSpec => []ClaimIsHeld
<1>1. MountInv => ClaimIsHeld
  BY DEF MountInv, ClaimInv
<1> QED BY <1>1, MountInvariance, PTL

-----------------------------------------------------------------------------
(* A mount owns its record, when one thread at a time mounts. *)

(* The gates of the ShellCore service let one thread at a time run          *)
(* mount_image and the stale sweep.                                         *)
OneMounter == \A v, w \in Mounters : v = w

OwnPcs == {"attach", "publish", "node", "nmount", "validate", "complete"}

(* The record of the attachment that a worker p has in progress.            *)
OwnedBy(p, table) ==
    p.pc \in OwnPcs =>
      \E k \in Slots :
        /\ table[k].valid /\ table[k].path = p.path
        /\ table[k].generation = p.generation
        /\ table[k].state = "ATTACHING"
        /\ table[k].device = IF p.pc \in {"attach", "publish"} THEN NoDevice ELSE p.device

(* A generation that was handed out and whose attachment is not, and will   *)
(* not be again, in progress.                                               *)
Settled(table, counter, generation) ==
    /\ generation <= counter
    /\ \A k \in Slots : table[k].valid /\ table[k].generation = generation =>
         table[k].state # "ATTACHING"

(* A thread that only releases: it names no generation, and the record it   *)
(* copied and the one it marked were not in progress.                       *)
Outsider(p, table, counter) ==
    /\ p.pc \in {"idle", "sweep", "release", "mark"} \cup UnmountPcs
    /\ p.expected = 0 /\ p.ret \in {"idle", "sweep"}
    /\ p.pc \in {"mark"} \cup UnmountPcs => Settled(table, counter, p.entry.generation)
    /\ p.pc \in UnmountPcs => Settled(table, counter, p.generation)

(* The inductive invariant behind MountOwnsRecord.                          *)
OwnInv ==
    \A w \in Workers :
      /\ OwnedBy(proc[w], g_image_cache)
      /\ w \notin Mounters => Outsider(proc[w], g_image_cache, g_image_cache_generation)

(* No generation comes back to ATTACHING.                                   *)
StatesKept ==
    /\ g_image_cache_generation <= g_image_cache_generation'
    /\ \A k \in Slots : g_image_cache'[k].valid /\ g_image_cache'[k].state = "ATTACHING" =>
         \/ g_image_cache'[k].generation > g_image_cache_generation
         \/ /\ g_image_cache[k].valid /\ g_image_cache[k].state = "ATTACHING"
            /\ g_image_cache'[k].generation = g_image_cache[k].generation

(* The records of attachments in progress are left alone.                   *)
AttachingKept ==
    \A k \in Slots : g_image_cache[k].valid /\ g_image_cache[k].state = "ATTACHING" =>
      g_image_cache'[k] = g_image_cache[k]

(* Only worker w moves.                                                     *)
OthersStay(w) == \A v \in Workers : v # w => proc'[v] = proc[v]

LEMMA TableFacts ==
  ASSUME MountInv
  PROVE  /\ g_image_cache \in [Slots -> ImageCacheEntry]
         /\ g_image_cache_generation \in Nat
         /\ \A k \in Slots : /\ g_image_cache[k] \in ImageCacheEntry
                             /\ g_image_cache[k].generation \in Nat
         /\ UniqueOwners /\ CacheInv
         /\ \A k \in Slots : g_image_cache[k].valid =>
              g_image_cache[k].generation <= g_image_cache_generation
<1>1. /\ g_image_cache \in [Slots -> ImageCacheEntry] /\ UniqueOwners
      /\ g_image_cache_generation \in Nat /\ CacheInv
      /\ IssuedGenerations(g_image_cache, g_image_cache_generation)
  BY Zenon DEF MountInv, CacheInv, RecordTypes
<1>2. \A k \in Slots : /\ g_image_cache[k] \in ImageCacheEntry
                       /\ g_image_cache[k].generation \in Nat
  BY <1>1, Zenon DEF ImageCacheEntry
<1>3. \A k \in Slots : g_image_cache[k].valid =>
        g_image_cache[k].generation <= g_image_cache_generation
  BY <1>1, <1>2 DEF IssuedGenerations
<1> QED BY <1>1, <1>2, <1>3

(* A settled generation stays settled.                                      *)
LEMMA SettledKept ==
  ASSUME MountInv, MountInv', StatesKept, NEW g \in Nat,
         Settled(g_image_cache, g_image_cache_generation, g)
  PROVE  Settled(g_image_cache', g_image_cache_generation', g)
<1>1. /\ g_image_cache_generation \in Nat /\ g_image_cache_generation' \in Nat
      /\ \A k \in Slots : g_image_cache'[k].generation \in Nat
  <2>1. g_image_cache_generation' \in Nat /\ g_image_cache' \in [Slots -> ImageCacheEntry]
    BY Zenon DEF MountInv, CacheInv, RecordTypes
  <2>2. \A k \in Slots : g_image_cache'[k].generation \in Nat
    BY <2>1, Zenon DEF ImageCacheEntry
  <2> QED BY <2>1, <2>2, TableFacts
<1>2. g <= g_image_cache_generation'
  BY <1>1 DEF Settled, StatesKept
<1>3. ASSUME NEW k \in Slots, g_image_cache'[k].valid, g_image_cache'[k].generation = g,
             g_image_cache'[k].state = "ATTACHING"
      PROVE  FALSE
  <2>1. ~(g_image_cache'[k].generation > g_image_cache_generation)
    BY <1>1, <1>3 DEF Settled
  <2>2. /\ g_image_cache[k].valid /\ g_image_cache[k].state = "ATTACHING"
        /\ g_image_cache'[k].generation = g_image_cache[k].generation
    BY <1>3, <2>1, Zenon DEF StatesKept
  <2> QED BY <1>3, <2>2, Zenon DEF Settled
<1> QED BY <1>2, <1>3, Zenon DEF Settled

(* A record that is not in progress settles its generation.                 *)
LEMMA RecordSettled ==
  ASSUME MountInv, NEW k \in Slots, g_image_cache[k].valid,
         g_image_cache[k].state # "ATTACHING"
  PROVE  Settled(g_image_cache, g_image_cache_generation, g_image_cache[k].generation)
  BY TableFacts, Zenon DEF Settled, UniqueOwners

(* The two ways a step of worker w keeps the invariant: it is the one       *)
(* mounter, or it leaves the attachments in progress alone.                 *)
LEMMA OwnFrame ==
  ASSUME OneMounter, MountInv, MountInv', OwnInv, StatesKept,
         NEW w \in Workers, OthersStay(w), w \in Mounters \/ AttachingKept,
         OwnedBy(proc'[w], g_image_cache'),
         w \notin Mounters => Outsider(proc'[w], g_image_cache', g_image_cache_generation')
  PROVE  OwnInv'
<1> SUFFICES ASSUME NEW v \in Workers, v # w
             PROVE  /\ OwnedBy(proc[v], g_image_cache')
                    /\ v \notin Mounters =>
                         Outsider(proc[v], g_image_cache', g_image_cache_generation')
  BY Zenon DEF OwnInv, OthersStay
<1>1. /\ OwnedBy(proc[v], g_image_cache)
      /\ v \notin Mounters => Outsider(proc[v], g_image_cache, g_image_cache_generation)
  BY Zenon DEF OwnInv
<1>2. ASSUME v \notin Mounters
      PROVE  /\ Outsider(proc[v], g_image_cache', g_image_cache_generation')
             /\ OwnedBy(proc[v], g_image_cache')
  <2>1. proc[v].generation \in Nat /\ proc[v].entry.generation \in Nat
    BY WorkerFacts, Zenon DEF Activity, ImageCacheEntry
  <2>2. Outsider(proc[v], g_image_cache', g_image_cache_generation')
    BY <1>1, <1>2, <2>1, SettledKept, Zenon DEF Outsider
  <2>3. proc[v].pc \notin OwnPcs
    BY <1>1, <1>2 DEF Outsider, OwnPcs, UnmountPcs
  <2> QED BY <2>2, <2>3, Zenon DEF OwnedBy
<1>3. ASSUME v \in Mounters PROVE OwnedBy(proc[v], g_image_cache')
  <2>1. AttachingKept
    BY <1>3, Zenon DEF OneMounter
  <2> QED BY <1>1, <2>1, Zenon DEF OwnedBy, AttachingKept
<1> QED BY <1>2, <1>3, Zenon

(* The table does not change.                                               *)
LEMMA SameStates ==
  ASSUME MountInv, UNCHANGED tableVars
  PROVE  StatesKept /\ AttachingKept
<1>1. g_image_cache_generation <= g_image_cache_generation'
  BY TableFacts DEF tableVars
<1> QED BY <1>1, Zenon DEF StatesKept, AttachingKept, tableVars

(* One record changes, and is not in progress afterwards.                   *)
LEMMA SlotStates ==
  ASSUME MountInv, NEW k \in Slots, NEW e, g_image_cache[k].valid,
         g_image_cache' = [g_image_cache EXCEPT ![k] = e],
         UNCHANGED g_image_cache_generation,
         e.valid => e.state # "ATTACHING"
  PROVE  /\ StatesKept
         /\ Settled(g_image_cache, g_image_cache_generation, g_image_cache[k].generation)
              => AttachingKept
<1>1. /\ g_image_cache'[k] = e
      /\ \A j \in Slots : j # k => g_image_cache'[j] = g_image_cache[j]
  BY TableFacts, Zenon
<1>2. g_image_cache_generation <= g_image_cache_generation'
  BY TableFacts
<1> QED BY <1>1, <1>2, Zenon DEF StatesKept, AttachingKept, Settled

LEMMA CancelStates ==
  ASSUME MountInv, NEW path, NEW generation, cancel_image_attachment(path, generation)
  PROVE  StatesKept
<1>1. PICK k \in Slots : /\ g_image_cache[k].valid
                         /\ g_image_cache' = [g_image_cache EXCEPT ![k] = Wiped]
                         /\ UNCHANGED g_image_cache_generation
  BY Zenon DEF cancel_image_attachment, IsReservation, PathOwners
<1>2. ~Wiped.valid
  BY DEF Wiped
<1> QED BY <1>1, <1>2, SlotStates, Zenon

LEMMA CompleteStates ==
  ASSUME MountInv, NEW path, NEW generation, NEW device,
         complete_image_attachment(path, generation, device)
  PROVE  StatesKept
<1>1. PICK k \in find_attachment_record(path, generation, device) :
        /\ g_image_cache' = [g_image_cache EXCEPT ![k] =
             refresh_attached_unit_identity([@ EXCEPT !.state = "MOUNTED"])]
        /\ UNCHANGED g_image_cache_generation
  BY Zenon DEF complete_image_attachment
<1>2. k \in Slots /\ g_image_cache[k].valid
  BY Zenon DEF find_attachment_record, PathOwners
<1> DEFINE r == [g_image_cache[k] EXCEPT !.state = "MOUNTED"]
           e == refresh_attached_unit_identity(r)
<1>3. r \in ImageCacheEntry /\ r.state = "MOUNTED"
  BY <1>2, TableFacts DEF ImageCacheEntry, AttachedStates
<1>4. g_image_cache' = [g_image_cache EXCEPT ![k] = e]
  BY <1>1, <1>2, Zenon
<1> HIDE DEF r
<1>5. e.state = "MOUNTED"
  BY <1>3, RefreshFacts, TableFacts, Zenon
<1> HIDE DEF e
<1> QED BY <1>1, <1>2, <1>4, <1>5, SlotStates, Zenon

(* mark, claim and finish: only the record they name changes.               *)
LEMMA DetachStates ==
  ASSUME MountInv, NEW path, NEW generation, NEW device, NEW identity, NEW requested,
         \/ mark_image_cache_detach_requested(path, generation, device)
         \/ claim_image_cache_detach(path, generation, device)
         \/ finish_image_cache_detach_attempt(path, generation, device, identity, requested)
  PROVE  /\ StatesKept
         /\ Settled(g_image_cache, g_image_cache_generation, generation) => AttachingKept
<1>1. \E k \in find_attachment_record(path, generation, device) : \E e :
        /\ e.state = "DETACH_REQUESTED"
        /\ g_image_cache' = [g_image_cache EXCEPT ![k] = e]
        /\ UNCHANGED g_image_cache_generation
  <2>0. \A k \in find_attachment_record(path, generation, device) :
          k \in Slots /\ g_image_cache[k] \in ImageCacheEntry
    BY TableFacts, Zenon DEF find_attachment_record, PathOwners
  <2>1. CASE mark_image_cache_detach_requested(path, generation, device)
    <3>1. PICK k \in find_attachment_record(path, generation, device) :
            /\ g_image_cache' = [g_image_cache EXCEPT ![k] =
                 refresh_attached_unit_identity([@ EXCEPT !.state = "DETACH_REQUESTED"])]
            /\ UNCHANGED g_image_cache_generation
      BY <2>1, Zenon DEF mark_image_cache_detach_requested
    <3> DEFINE r == [g_image_cache[k] EXCEPT !.state = "DETACH_REQUESTED"]
    <3>2. r \in ImageCacheEntry /\ r.state = "DETACH_REQUESTED"
      BY <2>0 DEF ImageCacheEntry, AttachedStates
    <3>3. g_image_cache' = [g_image_cache EXCEPT ![k] = refresh_attached_unit_identity(r)]
      BY <3>1, Zenon
    <3> HIDE DEF r
    <3>4. refresh_attached_unit_identity(r).state = "DETACH_REQUESTED"
      BY <3>2, RefreshFacts, TableFacts, Zenon
    <3> QED BY <3>1, <3>3, <3>4, Zenon
  <2>2. CASE claim_image_cache_detach(path, generation, device)
    <3>1. PICK k \in find_attachment_record(path, generation, device) :
            /\ g_image_cache' = [g_image_cache EXCEPT ![k] =
                 [refresh_attached_unit_identity(g_image_cache[k]) EXCEPT
                    !.state = "DETACH_REQUESTED", !.detach_attempt_active = TRUE]]
            /\ UNCHANGED g_image_cache_generation
      BY <2>2, Zenon DEF claim_image_cache_detach
    <3> DEFINE r == refresh_attached_unit_identity(g_image_cache[k])
               e == [r EXCEPT !.state = "DETACH_REQUESTED", !.detach_attempt_active = TRUE]
    <3>2. r \in ImageCacheEntry
      BY <2>0, RefreshFacts, TableFacts, Zenon
    <3>3. g_image_cache' = [g_image_cache EXCEPT ![k] = e]
      BY <3>1, Zenon
    <3> HIDE DEF r
    <3>4. e.state = "DETACH_REQUESTED"
      BY <3>2 DEF ImageCacheEntry
    <3> QED BY <3>1, <3>3, <3>4, Zenon
  <2>3. CASE finish_image_cache_detach_attempt(path, generation, device, identity, requested)
    <3>1. PICK k \in find_attachment_record(path, generation, device) :
            /\ g_image_cache' = [g_image_cache EXCEPT ![k] =
                 [g_image_cache[k] EXCEPT !.requested = requested,
                    !.state = "DETACH_REQUESTED", !.detach_attempt_active = FALSE]]
            /\ UNCHANGED g_image_cache_generation
      BY <2>3, <2>0, Zenon DEF finish_image_cache_detach_attempt
    <3> DEFINE e == [g_image_cache[k] EXCEPT !.requested = requested,
                       !.state = "DETACH_REQUESTED", !.detach_attempt_active = FALSE]
    <3>2. e.state = "DETACH_REQUESTED"
      BY <2>0 DEF ImageCacheEntry
    <3> QED BY <3>1, <3>2, Zenon
  <2> QED BY <2>1, <2>2, <2>3, Zenon
<1>2. PICK k \in find_attachment_record(path, generation, device) : \E e :
        /\ e.state = "DETACH_REQUESTED"
        /\ g_image_cache' = [g_image_cache EXCEPT ![k] = e]
        /\ UNCHANGED g_image_cache_generation
  BY <1>1, Zenon
<1>3. k \in Slots /\ g_image_cache[k].valid /\ g_image_cache[k].generation = generation
  BY Zenon DEF find_attachment_record, PathOwners
<1> QED BY <1>2, <1>3, SlotStates, Zenon

(* A mapping operation: slot k gets a new generation, the other records     *)
(* stay or are merged away.                                                 *)
LEMMA MappingStates ==
  ASSUME MountInv, NEW path \in Paths, NEW mount_point \in MountPoints,
         NEW k \in UpsertSlots(path, mount_point), NEW e,
         g_image_cache' = [UpsertTable(k, path, mount_point) EXCEPT ![k] = e],
         g_image_cache_generation' = UpsertGeneration(k, path, mount_point) + 1,
         e.generation = UpsertGeneration(k, path, mount_point) + 1
  PROVE  /\ StatesKept /\ k \in Slots /\ g_image_cache'[k] = e
         /\ e.generation = g_image_cache_generation'
<1> DEFINE T == UpsertTable(k, path, mount_point)
           G == UpsertGeneration(k, path, mount_point)
<1>1. /\ k \in Slots /\ T \in [Slots -> ImageCacheEntry]
      /\ G \in Nat /\ g_image_cache_generation <= G
      /\ \A j \in Slots \ {k} : T[j] = g_image_cache[j] \/ T[j] = Wiped
  BY UpsertFacts, TableFacts, ZenonT(60)
<1>2. g_image_cache' = [T EXCEPT ![k] = e] /\ g_image_cache_generation' = G + 1
      /\ e.generation = G + 1
  OBVIOUS
<1> HIDE DEF T, G
<1>3. /\ g_image_cache'[k] = e
      /\ \A j \in Slots : j # k => g_image_cache'[j] = g_image_cache[j] \/ g_image_cache'[j] = Wiped
  BY <1>1, <1>2, Zenon
<1>4. /\ g_image_cache_generation <= g_image_cache_generation'
      /\ e.generation > g_image_cache_generation
  BY <1>1, <1>2, TableFacts
<1>5. ~Wiped.valid
  BY DEF Wiped
<1> QED BY <1>1, <1>2, <1>3, <1>4, <1>5, Zenon DEF StatesKept

(* The slot an upsert returns maps the path.                                *)
LEMMA UpsertedPath ==
  ASSUME MountInv, NEW path \in Paths, NEW mount_point \in MountPoints,
         NEW k \in UpsertSlots(path, mount_point), k \in Slots
  PROVE  UpsertTable(k, path, mount_point)[k].path = path
<1>1. CASE IsMapped(k, path, mount_point)
  BY <1>1, Zenon DEF UpsertTable, IsMapped, PathOwners
<1>2. CASE ~IsMapped(k, path, mount_point)
  <2>1. UpsertTable(k, path, mount_point)[k] =
          [g_image_cache[k] EXCEPT
             !.valid = TRUE, !.path = path, !.mount_point = mount_point,
             !.generation = g_image_cache_generation + 1]
    BY <1>2, Zenon DEF UpsertTable
  <2>2. g_image_cache[k] \in ImageCacheEntry
    BY TableFacts, Zenon
  <2> QED BY <2>1, <2>2, Zenon DEF ImageCacheEntry
<1> QED BY <1>1, <1>2, Zenon

(* begin_image_attachment gives the path a record in progress.              *)
LEMMA BeginStates ==
  ASSUME MountInv, NEW path \in Paths, NEW mount_point \in MountPoints,
         begin_image_attachment(path, mount_point)
  PROVE  /\ StatesKept
         /\ \E k \in Slots :
              /\ g_image_cache'[k].valid /\ g_image_cache'[k].path = path
              /\ g_image_cache'[k].generation = g_image_cache_generation'
              /\ g_image_cache'[k].state = "ATTACHING"
              /\ g_image_cache'[k].device = NoDevice
<1>1. PICK k \in UpsertSlots(path, mount_point) :
        /\ cache_entry_is_metadata_only(UpsertTable(k, path, mount_point)[k])
        /\ g_image_cache' =
             [UpsertTable(k, path, mount_point) EXCEPT ![k] =
                [@ EXCEPT !.generation = UpsertGeneration(k, path, mount_point) + 1,
                          !.state = "ATTACHING", !.requested = FALSE, !.identity = 0]]
        /\ g_image_cache_generation' = UpsertGeneration(k, path, mount_point) + 1
  BY Zenon DEF begin_image_attachment
<1> DEFINE T == UpsertTable(k, path, mount_point)
           G == UpsertGeneration(k, path, mount_point)
           e == [T[k] EXCEPT !.generation = G + 1, !.state = "ATTACHING",
                             !.requested = FALSE, !.identity = 0]
<1>2. k \in Slots /\ T \in [Slots -> ImageCacheEntry] /\ T[k].valid
  BY UpsertFacts, TableFacts, Zenon
<1>3. T[k].path = path
  BY <1>2, UpsertedPath
<1>4. T[k] \in ImageCacheEntry /\ T[k].device = NoDevice
  BY <1>1, <1>2, Zenon DEF cache_entry_is_metadata_only
<1>5. g_image_cache' = [T EXCEPT ![k] = e] /\ g_image_cache_generation' = G + 1
  BY <1>1, <1>2, Zenon
<1> HIDE DEF T, G
<1>6. /\ e.valid /\ e.path = path /\ e.generation = G + 1
      /\ e.state = "ATTACHING" /\ e.device = NoDevice
  BY <1>2, <1>3, <1>4 DEF ImageCacheEntry
<1> HIDE DEF e
<1>7. /\ StatesKept /\ g_image_cache'[k] = e
      /\ e.generation = g_image_cache_generation'
  BY <1>5, <1>6, MappingStates, ZenonT(60) DEF T, G
<1> QED BY <1>2, <1>6, <1>7, Zenon

(* An adopted mount is not in progress.                                     *)
LEMMA AdoptStates ==
  ASSUME MountInv, NEW path \in Paths, NEW mount_point \in MountPoints,
         NEW device \in Devices, cache_image_mount(path, mount_point, device)
  PROVE  StatesKept
<1>1. PICK k \in UpsertSlots(path, mount_point) :
        /\ g_image_cache' =
             [UpsertTable(k, path, mount_point) EXCEPT ![k] =
                refresh_attached_unit_identity(
                  [@ EXCEPT !.generation = UpsertGeneration(k, path, mount_point) + 1,
                            !.device = device, !.state = "MOUNTED",
                            !.detach_attempt_active = FALSE,
                            !.requested = FALSE, !.identity = 0])]
        /\ g_image_cache_generation' = UpsertGeneration(k, path, mount_point) + 1
  BY Zenon DEF cache_image_mount
<1> DEFINE T == UpsertTable(k, path, mount_point)
           G == UpsertGeneration(k, path, mount_point)
           r == [T[k] EXCEPT !.generation = G + 1, !.device = device, !.state = "MOUNTED",
                             !.detach_attempt_active = FALSE,
                             !.requested = FALSE, !.identity = 0]
           e == refresh_attached_unit_identity(r)
<1>2. k \in Slots /\ T \in [Slots -> ImageCacheEntry] /\ T[k] \in ImageCacheEntry /\ G \in Nat
  BY UpsertFacts, TableFacts, Zenon
<1>3. g_image_cache' = [T EXCEPT ![k] = e] /\ g_image_cache_generation' = G + 1
  BY <1>1, <1>2, Zenon
<1> HIDE DEF T, G
<1>4. G + 1 \in Nat
  BY <1>2
<1>5. r \in ImageCacheEntry /\ r.generation = G + 1
  BY <1>2, <1>4, Zenon DEF ImageCacheEntry, AttachedStates
<1> HIDE DEF r
<1>6. e.generation = G + 1
  BY <1>5, RefreshFacts, TableFacts, Zenon
<1> HIDE DEF e
<1> QED BY <1>3, <1>6, MappingStates, ZenonT(60) DEF T, G

(* publish_image_attachment completes the record of the reservation.        *)
LEMMA PublishStates ==
  ASSUME MountInv, NEW path, NEW generation, NEW device \in Devices,
         publish_image_attachment(path, generation, device)
  PROVE  /\ StatesKept
         /\ \E k \in Slots :
              /\ g_image_cache'[k].valid /\ g_image_cache'[k].path = path
              /\ g_image_cache'[k].generation = generation
              /\ g_image_cache'[k].state = "ATTACHING"
              /\ g_image_cache'[k].device = device
<1>1. PICK k \in Slots :
        /\ IsReservation(k, path, generation)
        /\ g_image_cache' = [g_image_cache EXCEPT ![k] =
             refresh_attached_unit_identity([@ EXCEPT !.device = device])]
        /\ UNCHANGED g_image_cache_generation
  BY Zenon DEF publish_image_attachment
<1> DEFINE r == [g_image_cache[k] EXCEPT !.device = device]
           e == refresh_attached_unit_identity(r)
<1>2. /\ g_image_cache[k] \in ImageCacheEntry /\ g_image_cache[k].valid
      /\ g_image_cache[k].path = path /\ g_image_cache[k].generation = generation
      /\ g_image_cache[k].state = "ATTACHING"
  BY <1>1, TableFacts, Zenon DEF IsReservation, PathOwners
<1>3. /\ r \in ImageCacheEntry /\ r.valid /\ r.path = path /\ r.generation = generation
      /\ r.state = "ATTACHING" /\ r.device = device
  BY <1>2, Zenon DEF ImageCacheEntry
<1>4. g_image_cache' = [g_image_cache EXCEPT ![k] = e]
  BY <1>1, Zenon
<1> HIDE DEF r
<1>5. /\ e.valid /\ e.path = path /\ e.generation = generation
      /\ e.state = "ATTACHING" /\ e.device = device
  BY <1>3, RefreshFacts, TableFacts, Zenon
<1> HIDE DEF e
<1>6. /\ g_image_cache'[k] = e
      /\ \A j \in Slots : j # k => g_image_cache'[j] = g_image_cache[j]
  BY <1>4, TableFacts, Zenon
<1>7. g_image_cache_generation <= g_image_cache_generation'
  BY <1>1, TableFacts
<1>8. StatesKept
  BY <1>2, <1>5, <1>6, <1>7, Zenon DEF StatesKept
<1> QED BY <1>5, <1>6, <1>8, Zenon

(* A worker that mounts is the mounter.                                     *)
LEMMA MounterFact ==
  ASSUME OwnInv, NEW w \in Workers,
         proc[w].pc \in {"cached", "reuse", "adopt", "begin", "rollback"} \cup OwnPcs
  PROVE  w \in Mounters
  BY DEF OwnInv, Outsider, OwnPcs, UnmountPcs

(* A worker whose next step holds no record.                                *)
LEMMA NotOwner ==
  ASSUME NEW p, p.pc \notin OwnPcs
  PROVE  OwnedBy(p, g_image_cache')
  BY Zenon DEF OwnedBy

(* The record of worker w after an assignment to some of its fields.        *)
LEMMA MoveFacts ==
  ASSUME MountInv, NEW w \in Workers, NEW e, proc' = [proc EXCEPT ![w] = e]
  PROVE  proc'[w] = e /\ OthersStay(w)
  BY WorkerFacts, Zenon DEF OthersStay

LEMMA GoFacts ==
  ASSUME MountInv, NEW w \in Workers, NEW pc, Go(w, pc)
  PROVE  /\ OthersStay(w) /\ proc'[w].pc = pc /\ proc'[w].path = proc[w].path
         /\ proc'[w].generation = proc[w].generation /\ proc'[w].device = proc[w].device
         /\ proc'[w].expected = proc[w].expected /\ proc'[w].ret = proc[w].ret
         /\ proc'[w].entry = proc[w].entry
<1>1. proc[w] \in Activity /\ proc \in [Workers -> Activity]
  BY WorkerFacts
<1>2. proc'[w] = [proc[w] EXCEPT !.pc = pc] /\ OthersStay(w)
  BY <1>1, MoveFacts, Zenon DEF Go
<1> QED BY <1>1, <1>2, Zenon DEF Activity

(* A call or a release returns.                                             *)
LEMMA EndOwns ==
  ASSUME OneMounter, MountInv, MountInv', OwnInv, StatesKept,
         NEW w \in Workers, w \in Mounters \/ AttachingKept, NEW ok, End(w, ok)
  PROVE  OwnInv'
<1>1. proc[w] \in Activity /\ proc \in [Workers -> Activity]
  BY WorkerFacts
<1>2. PICK next : next = IF ok \/ proc[w].ret = "sweep" THEN proc[w].ret ELSE "idle"
  OBVIOUS
<1>3. PICK e : e = IF next = "idle" THEN Idle
                   ELSE [Idle EXCEPT !.pc = next, !.path = proc[w].path,
                                     !.sweep = proc[w].sweep]
  OBVIOUS
<1>4. proc' = [proc EXCEPT ![w] = e]
  BY <1>2, <1>3, Zenon DEF End
<1>5. proc'[w] = e /\ OthersStay(w)
  BY <1>4, MoveFacts, Zenon
<1>6. e.pc = next /\ e.expected = 0 /\ e.ret = "idle"
  BY <1>3 DEF Idle
<1>7. next \notin OwnPcs
  <2>1. next \in Returns
    BY <1>1, <1>2, Zenon DEF Activity, Returns
  <2> QED BY <2>1 DEF Returns, OwnPcs
<1>8. OwnedBy(proc'[w], g_image_cache')
  BY <1>5, <1>6, <1>7, NotOwner, Zenon
<1>9. w \notin Mounters => Outsider(proc'[w], g_image_cache', g_image_cache_generation')
  <2> HAVE w \notin Mounters
  <2>1. next \in {"idle", "sweep"}
    BY <1>2, Zenon DEF OwnInv, Outsider
  <2> QED BY <1>5, <1>6, <2>1 DEF Outsider, UnmountPcs
<1> QED BY <1>5, <1>8, <1>9, OwnFrame, Zenon

(* The mounter moves to a step that holds no record.                        *)
LEMMA MounterMoves ==
  ASSUME OneMounter, MountInv, MountInv', OwnInv, StatesKept,
         NEW w \in Mounters, OthersStay(w), proc'[w].pc \notin OwnPcs
  PROVE  OwnInv'
<1>1. w \in Workers
  BY MountConstants
<1> QED BY <1>1, NotOwner, OwnFrame, Zenon

LEMMA CallReleaseOwns ==
  ASSUME OneMounter, MountInv, MountInv', OwnInv, StatesKept,
         NEW w \in Mounters, NEW generation, NEW ret, CallRelease(w, generation, ret)
  PROVE  OwnInv'
<1>1. proc[w] \in Activity /\ proc \in [Workers -> Activity] /\ w \in Workers
  BY WorkerFacts, MountConstants
<1>2. /\ proc'[w] = [proc[w] EXCEPT !.pc = "release", !.expected = generation, !.ret = ret]
      /\ OthersStay(w)
  BY <1>1, Zenon DEF CallRelease, OthersStay
<1>3. proc'[w].pc = "release"
  BY <1>1, <1>2, Zenon DEF Activity
<1> QED BY <1>2, <1>3, MounterMoves, Zenon DEF OwnPcs

(* The mounter moves on with its record.                                    *)
LEMMA OwnerMoves ==
  ASSUME OneMounter, MountInv, MountInv', OwnInv, UNCHANGED tableVars,
         NEW w \in Mounters, OthersStay(w),
         proc[w].pc \in OwnPcs, proc'[w].pc \in OwnPcs,
         proc'[w].path = proc[w].path, proc'[w].generation = proc[w].generation,
         proc[w].pc \in {"attach", "publish"} <=> proc'[w].pc \in {"attach", "publish"},
         proc[w].pc \notin {"attach", "publish"} => proc'[w].device = proc[w].device
  PROVE  OwnInv'
<1>1. w \in Workers
  BY MountConstants
<1>2. StatesKept
  BY SameStates
<1>3. PICK k \in Slots :
        /\ g_image_cache[k].valid /\ g_image_cache[k].path = proc[w].path
        /\ g_image_cache[k].generation = proc[w].generation
        /\ g_image_cache[k].state = "ATTACHING"
        /\ g_image_cache[k].device =
             IF proc[w].pc \in {"attach", "publish"} THEN NoDevice ELSE proc[w].device
  BY <1>1, Zenon DEF OwnInv, OwnedBy
<1>4. g_image_cache[k].device =
        IF proc'[w].pc \in {"attach", "publish"} THEN NoDevice ELSE proc'[w].device
  BY <1>3, Zenon
<1>5. OwnedBy(proc'[w], g_image_cache')
  BY <1>3, <1>4, Zenon DEF OwnedBy, tableVars
<1> QED BY <1>1, <1>2, <1>5, OwnFrame, Zenon

(* A release goes on with the record it copied.                             *)
LEMMA UnmountMoves ==
  ASSUME OneMounter, MountInv, MountInv', OwnInv, StatesKept,
         NEW w \in Workers, w \in Mounters \/ AttachingKept, OthersStay(w),
         proc[w].pc \in UnmountPcs, proc'[w].pc \in UnmountPcs,
         proc'[w].generation = proc[w].generation, proc'[w].entry = proc[w].entry,
         proc'[w].expected = proc[w].expected, proc'[w].ret = proc[w].ret
  PROVE  OwnInv'
<1>1. proc'[w].pc \notin OwnPcs
  BY DEF OwnPcs, UnmountPcs
<1>2. proc[w].generation \in Nat /\ proc[w].entry.generation \in Nat
  BY WorkerFacts, Zenon DEF Activity, ImageCacheEntry
<1>3. w \notin Mounters => Outsider(proc'[w], g_image_cache', g_image_cache_generation')
  <2> HAVE w \notin Mounters
  <2>1. Outsider(proc[w], g_image_cache, g_image_cache_generation)
    BY Zenon DEF OwnInv
  <2>2. /\ Settled(g_image_cache', g_image_cache_generation', proc[w].generation)
        /\ Settled(g_image_cache', g_image_cache_generation', proc[w].entry.generation)
    BY <1>2, <2>1, SettledKept, Zenon DEF Outsider
  <2> QED BY <2>1, <2>2, Zenon DEF Outsider
<1> QED BY <1>1, <1>3, NotOwner, OwnFrame, Zenon

(* The steps of mount_image, and what starts them.                          *)
LEMMA MountStepOwns ==
  ASSUME OneMounter, MountInv, MountInv', OwnInv, NEW w \in Workers, MountStep(w)
  PROVE  OwnInv'
<1>1. /\ proc[w] \in Activity /\ proc \in [Workers -> Activity] /\ HasArguments(proc[w])
  BY WorkerFacts
<1>2. w \in Mounters
  <2>1. proc[w].pc \in {"cached", "reuse", "adopt", "begin", "rollback"} \cup OwnPcs
    BY Zenon DEF MountStep, HandleCached, ReuseExisting, AdoptMount, BeginAttachment,
       AttachDevice, PublishAttachment, RollbackUnit, WaitForNode, PerformNmount,
       ValidateMount, CompleteAttachment, At, OwnPcs
  <2> QED BY <2>1, MounterFact
<1>3. ASSUME UNCHANGED tableVars,
             \/ \E ok : End(w, ok)
             \/ \E generation, ret : CallRelease(w, generation, ret)
      PROVE  OwnInv'
  BY <1>2, <1>3, SameStates, EndOwns, CallReleaseOwns, Zenon
<1>4. ASSUME UNCHANGED tableVars, NEW pc, Go(w, pc), pc \notin OwnPcs PROVE OwnInv'
  BY <1>2, <1>4, GoFacts, SameStates, MounterMoves, Zenon
<1>5. ASSUME UNCHANGED tableVars, NEW pc \in {"nmount", "validate", "complete"}, Go(w, pc),
             proc[w].pc \in {"node", "nmount", "validate"}
      PROVE  OwnInv'
  <2>1. /\ proc[w].pc \in OwnPcs /\ pc \in OwnPcs
        /\ proc[w].pc \notin {"attach", "publish"} /\ pc \notin {"attach", "publish"}
    BY <1>5 DEF OwnPcs
  <2> QED BY <1>2, <1>5, <2>1, GoFacts, OwnerMoves, Zenon
<1>6. CASE HandleCached(w)
  <2>1. /\ UNCHANGED tableVars
        /\ \/ \E ok : End(w, ok)
           \/ \E generation, ret : CallRelease(w, generation, ret)
           \/ Go(w, "reuse")
    BY <1>6, Zenon DEF HandleCached
  <2> QED BY <1>3, <1>4, <2>1, Zenon DEF OwnPcs
<1>7. CASE ReuseExisting(w)
  <2>1. CASE Go(w, "begin")
    BY <1>4, <1>7, <2>1, Zenon DEF ReuseExisting, OwnPcs
  <2>2. ASSUME NEW device, proc' = [proc EXCEPT ![w].pc = "adopt", ![w].device = device]
        PROVE  OwnInv'
    <3>1. proc'[w] = [proc[w] EXCEPT !.pc = "adopt", !.device = device] /\ OthersStay(w)
      BY <1>1, <2>2, Zenon DEF OthersStay
    <3>2. proc'[w].pc = "adopt"
      BY <1>1, <3>1, Zenon DEF Activity
    <3> QED BY <1>2, <1>7, <3>1, <3>2, SameStates, MounterMoves, Zenon
            DEF ReuseExisting, OwnPcs
  <2> QED BY <1>7, <2>1, <2>2, Zenon DEF ReuseExisting
<1>8. CASE AdoptMount(w)
  <2>1. CASE UNCHANGED tableVars
    BY <1>3, <1>8, <2>1, Zenon DEF AdoptMount
  <2>2. CASE cache_image_mount(Path(w), MountPoint(w), proc[w].device)
    <3>1. StatesKept
      <4>1. Path(w) \in Paths /\ MountPoint(w) \in MountPoints /\ proc[w].device \in Devices
        BY <1>1, <1>8, MountConstants, Zenon
           DEF AdoptMount, At, Path, MountPoint, HasArguments, DevicePcs
      <4> QED BY <2>2, <4>1, AdoptStates, Zenon
    <3>2. (\E ok : End(w, ok)) \/ \E generation, ret : CallRelease(w, generation, ret)
      BY <1>8, Zenon DEF AdoptMount
    <3> QED BY <1>2, <3>1, <3>2, EndOwns, CallReleaseOwns, Zenon
  <2> QED BY <1>8, <2>1, <2>2, Zenon DEF AdoptMount
<1>9. CASE BeginAttachment(w)
  <2>1. CASE UNCHANGED tableVars /\ \E ok : End(w, ok)
    BY <1>3, <2>1, Zenon
  <2>2. CASE /\ begin_image_attachment(Path(w), MountPoint(w))
             /\ proc' = [proc EXCEPT ![w].pc = "attach",
                                     ![w].generation = g_image_cache_generation']
    <3>1. Path(w) \in Paths /\ MountPoint(w) \in MountPoints /\ Path(w) = proc[w].path
      BY <1>1, <1>9, MountConstants, Zenon
         DEF BeginAttachment, At, Path, MountPoint, HasArguments
    <3>2. /\ StatesKept
          /\ \E k \in Slots :
               /\ g_image_cache'[k].valid /\ g_image_cache'[k].path = Path(w)
               /\ g_image_cache'[k].generation = g_image_cache_generation'
               /\ g_image_cache'[k].state = "ATTACHING"
               /\ g_image_cache'[k].device = NoDevice
      BY <2>2, <3>1, BeginStates, Zenon
    <3>3. /\ proc'[w] = [proc[w] EXCEPT !.pc = "attach",
                                        !.generation = g_image_cache_generation']
          /\ OthersStay(w)
      BY <1>1, <2>2, Zenon DEF OthersStay
    <3>4. /\ proc'[w].pc = "attach" /\ proc'[w].path = proc[w].path
          /\ proc'[w].generation = g_image_cache_generation'
      BY <1>1, <3>3, Zenon DEF Activity
    <3>5. OwnedBy(proc'[w], g_image_cache')
      BY <3>1, <3>2, <3>4, Zenon DEF OwnedBy
    <3> QED BY <1>2, <3>2, <3>3, <3>5, OwnFrame, Zenon
  <2> QED BY <1>9, <2>1, <2>2, Zenon DEF BeginAttachment
<1>10. CASE AttachDevice(w)
  <2>1. ASSUME NEW device, UNCHANGED tableVars,
               proc' = [proc EXCEPT ![w].pc = "publish", ![w].device = device]
        PROVE  OwnInv'
    <3>1. proc'[w] = [proc[w] EXCEPT !.pc = "publish", !.device = device] /\ OthersStay(w)
      BY <1>1, <2>1, Zenon DEF OthersStay
    <3>2. /\ proc'[w].pc = "publish" /\ proc'[w].path = proc[w].path
          /\ proc'[w].generation = proc[w].generation /\ proc[w].pc = "attach"
      BY <1>1, <1>10, <3>1, Zenon DEF Activity, AttachDevice, At
    <3> QED BY <1>2, <2>1, <3>1, <3>2, OwnerMoves, Zenon DEF OwnPcs
  <2>2. ASSUME cancel_image_attachment(Path(w), proc[w].generation), End(w, FALSE)
        PROVE  OwnInv'
    BY <1>2, <2>2, CancelStates, EndOwns, Zenon
  <2>3. ASSUME UNCHANGED tableVars, End(w, FALSE) PROVE OwnInv'
    BY <1>3, <2>3, Zenon
  <2> QED BY <1>10, <2>1, <2>2, <2>3, Zenon DEF AttachDevice, tableVars
<1>11. CASE PublishAttachment(w)
  <2>1. CASE UNCHANGED tableVars /\ Go(w, "rollback")
    BY <1>4, <2>1, Zenon DEF OwnPcs
  <2>2. CASE /\ publish_image_attachment(Path(w), proc[w].generation, proc[w].device)
             /\ Go(w, "node")
    <3>0. publish_image_attachment(Path(w), proc[w].generation, proc[w].device)
      BY <2>2
    <3>1. proc[w].device \in Devices
      BY <1>1, <1>11, Zenon DEF PublishAttachment, At, HasArguments, DevicePcs
    <3>2. /\ StatesKept
          /\ \E k \in Slots :
               /\ g_image_cache'[k].valid /\ g_image_cache'[k].path = Path(w)
               /\ g_image_cache'[k].generation = proc[w].generation
               /\ g_image_cache'[k].state = "ATTACHING"
               /\ g_image_cache'[k].device = proc[w].device
      BY <3>0, <3>1, PublishStates
    <3>3. /\ proc'[w].pc = "node" /\ proc'[w].path = proc[w].path
          /\ proc'[w].generation = proc[w].generation
          /\ proc'[w].device = proc[w].device /\ OthersStay(w)
      BY <2>2, GoFacts, Zenon
    <3>4. OwnedBy(proc'[w], g_image_cache')
      BY <3>2, <3>3, Zenon DEF OwnedBy, Path
    <3> QED BY <1>2, <3>2, <3>3, <3>4, OwnFrame, Zenon
  <2> QED BY <1>11, <2>1, <2>2, Zenon DEF PublishAttachment
<1>12. CASE RollbackUnit(w)
  BY <1>3, <1>12, Zenon DEF RollbackUnit
<1>13. CASE WaitForNode(w) \/ PerformNmount(w) \/ ValidateMount(w)
  <2>1. /\ UNCHANGED tableVars /\ proc[w].pc \in {"node", "nmount", "validate"}
        /\ \/ \E pc \in {"nmount", "validate", "complete"} : Go(w, pc)
           \/ \E generation, ret : CallRelease(w, generation, ret)
    BY <1>13, Zenon DEF WaitForNode, PerformNmount, ValidateMount, At
  <2> QED BY <1>3, <1>5, <2>1, Zenon
<1>14. CASE CompleteAttachment(w)
  <2>1. CASE UNCHANGED tableVars
    BY <1>3, <1>14, <2>1, Zenon DEF CompleteAttachment
  <2>2. CASE complete_image_attachment(Path(w), proc[w].generation, proc[w].device)
    <3>1. StatesKept
      BY <2>2, CompleteStates, Zenon
    <3>2. (\E ok : End(w, ok)) \/ \E generation, ret : CallRelease(w, generation, ret)
      BY <1>14, Zenon DEF CompleteAttachment
    <3> QED BY <1>2, <3>1, <3>2, EndOwns, CallReleaseOwns, Zenon
  <2> QED BY <1>14, <2>1, <2>2, Zenon DEF CompleteAttachment, tableVars
<1> QED BY <1>6, <1>7, <1>8, <1>9, <1>10, <1>11, <1>12, <1>13, <1>14, Zenon DEF MountStep

(* A release starts on the copy of a record.                                *)
LEMMA MarkMoves ==
  ASSUME OneMounter, MountInv, MountInv', OwnInv, UNCHANGED tableVars,
         NEW w \in Workers, OthersStay(w), NEW k \in Slots, g_image_cache[k].valid,
         proc'[w].pc = "mark", proc'[w].entry = copy_cache_entry(k),
         w \notin Mounters => /\ g_image_cache[k].state # "ATTACHING"
                              /\ proc'[w].expected = 0
                              /\ proc'[w].ret \in {"idle", "sweep"}
  PROVE  OwnInv'
<1>1. StatesKept /\ AttachingKept
  BY SameStates
<1>2. copy_cache_entry(k).generation = g_image_cache[k].generation
  BY TableFacts, Zenon DEF copy_cache_entry, ImageCacheEntry
<1>3. w \notin Mounters => Outsider(proc'[w], g_image_cache', g_image_cache_generation')
  <2> HAVE w \notin Mounters
  <2>1. Settled(g_image_cache, g_image_cache_generation, proc'[w].entry.generation)
    BY <1>2, RecordSettled
  <2>2. Settled(g_image_cache', g_image_cache_generation', proc'[w].entry.generation)
    BY <2>1, Zenon DEF tableVars
  <2>3. proc'[w].pc \notin UnmountPcs
    BY DEF UnmountPcs
  <2> QED BY <2>2, <2>3, Zenon DEF Outsider
<1>4. OwnedBy(proc'[w], g_image_cache')
  BY NotOwner DEF OwnPcs
<1> QED BY <1>1, <1>3, <1>4, OwnFrame, Zenon

(* ReleaseImage: only the mounter names a generation, and cancels.          *)
LEMMA ReleaseImageOwns ==
  ASSUME OneMounter, MountInv, MountInv', OwnInv, NEW w \in Workers, ReleaseImage(w)
  PROVE  OwnInv'
<1>1. proc[w] \in Activity /\ proc \in [Workers -> Activity]
  BY WorkerFacts
<1>2. w \notin Mounters => proc[w].expected = 0 /\ proc[w].ret \in {"idle", "sweep"}
  BY Zenon DEF OwnInv, Outsider
<1>3. CASE UNCHANGED tableVars /\ \E ok : End(w, ok)
  BY <1>3, SameStates, EndOwns, Zenon
<1>4. CASE /\ proc[w].expected # 0
           /\ cancel_image_attachment(Path(w), proc[w].expected) /\ End(w, TRUE)
  BY <1>2, <1>4, CancelStates, EndOwns, Zenon
<1>5. ASSUME NEW k \in PathOwners(Path(w)), UNCHANGED tableVars,
             proc[w].expected # 0 \/ g_image_cache[k].state # "ATTACHING",
             proc' = [proc EXCEPT ![w].pc = "mark", ![w].slot = k,
                                  ![w].entry = copy_cache_entry(k)]
      PROVE  OwnInv'
  <2>1. k \in Slots /\ g_image_cache[k].valid
    BY Zenon DEF PathOwners
  <2>2. /\ proc'[w] = [proc[w] EXCEPT !.pc = "mark", !.slot = k,
                                      !.entry = copy_cache_entry(k)]
        /\ OthersStay(w)
    BY <1>1, <1>5, Zenon DEF OthersStay
  <2>3. /\ proc'[w].pc = "mark" /\ proc'[w].entry = copy_cache_entry(k)
        /\ proc'[w].expected = proc[w].expected /\ proc'[w].ret = proc[w].ret
    BY <1>1, <2>2, Zenon DEF Activity
  <2> QED BY <1>2, <1>5, <2>1, <2>2, <2>3, MarkMoves, Zenon
<1> QED BY <1>3, <1>4, <1>5, Zenon DEF ReleaseImage, tableVars

(* MarkDetach: a release that names no generation marks no record in        *)
(* progress.                                                                *)
LEMMA MarkDetachOwns ==
  ASSUME OneMounter, MountInv, MountInv', OwnInv, NEW w \in Workers, MarkDetach(w)
  PROVE  OwnInv'
<1>1. proc[w] \in Activity /\ proc \in [Workers -> Activity] /\ proc[w].pc = "mark"
  BY WorkerFacts, Zenon DEF MarkDetach, At
<1>2. CASE UNCHANGED tableVars /\ \E ok : End(w, ok)
  BY <1>2, SameStates, EndOwns, Zenon
<1>3. ASSUME NEW k \in PathOwners(Path(w)),
             proc[w].expected # 0 \/ g_image_cache[k].state # "ATTACHING",
             mark_image_cache_detach_requested(
               Path(w), g_image_cache[k].generation, g_image_cache[k].device),
             \/ proc' = [proc EXCEPT ![w].pc = "unmount",
                           ![w].generation = g_image_cache[k].generation,
                           ![w].device = g_image_cache[k].device]
             \/ End(w, FALSE)
      PROVE  OwnInv'
  <2>1. k \in Slots /\ g_image_cache[k].valid /\ g_image_cache[k].generation \in Nat
    BY TableFacts, Zenon DEF PathOwners
  <2>2. /\ StatesKept
        /\ Settled(g_image_cache, g_image_cache_generation, g_image_cache[k].generation)
             => AttachingKept
    BY <1>3, DetachStates, Zenon
  <2>3. w \notin Mounters =>
          /\ Outsider(proc[w], g_image_cache, g_image_cache_generation)
          /\ Settled(g_image_cache, g_image_cache_generation, g_image_cache[k].generation)
    BY <1>3, <2>1, RecordSettled, Zenon DEF OwnInv, Outsider
  <2>4. CASE End(w, FALSE)
    BY <2>2, <2>3, <2>4, EndOwns, Zenon
  <2>5. CASE proc' = [proc EXCEPT ![w].pc = "unmount",
                        ![w].generation = g_image_cache[k].generation,
                        ![w].device = g_image_cache[k].device]
    <3>1. /\ proc'[w] = [proc[w] EXCEPT !.pc = "unmount",
                           !.generation = g_image_cache[k].generation,
                           !.device = g_image_cache[k].device]
          /\ OthersStay(w)
      BY <1>1, <2>5, Zenon DEF OthersStay
    <3>2. /\ proc'[w].pc = "unmount" /\ proc'[w].entry = proc[w].entry
          /\ proc'[w].generation = g_image_cache[k].generation
          /\ proc'[w].expected = proc[w].expected /\ proc'[w].ret = proc[w].ret
      BY <1>1, <3>1, Zenon DEF Activity
    <3>3. OwnedBy(proc'[w], g_image_cache')
      BY <3>2, NotOwner DEF OwnPcs
    <3>4. proc[w].entry.generation \in Nat
      BY <1>1, Zenon DEF Activity, ImageCacheEntry
    <3>5. w \notin Mounters => Outsider(proc'[w], g_image_cache', g_image_cache_generation')
      <4> HAVE w \notin Mounters
      <4>1. /\ Settled(g_image_cache', g_image_cache_generation', g_image_cache[k].generation)
            /\ Settled(g_image_cache', g_image_cache_generation', proc[w].entry.generation)
        BY <1>1, <2>1, <2>2, <2>3, <3>4, SettledKept, Zenon DEF Outsider
      <4> QED BY <2>3, <3>2, <4>1, ZenonT(30) DEF Outsider, UnmountPcs
    <3> QED BY <2>2, <2>3, <3>1, <3>3, <3>5, OwnFrame, Zenon
  <2> QED BY <1>3, <2>4, <2>5, Zenon
<1> QED BY <1>2, <1>3, Zenon DEF MarkDetach

(* The rest of a release works on the generation it marked.                 *)
LEMMA UnmountStepOwns ==
  ASSUME OneMounter, MountInv, MountInv', OwnInv, NEW w \in Workers,
         \/ UnmountLayers(w) \/ ClaimDetach(w) \/ PrepareDetach(w) \/ DetachIoctl(w)
         \/ FailedDetach(w) \/ FinishDetach(w) \/ WaitRelease(w)
         \/ RemoveDirectory(w) \/ Invalidate(w)
  PROVE  OwnInv'
<1>1. /\ proc[w] \in Activity /\ proc \in [Workers -> Activity]
      /\ proc[w].pc \in UnmountPcs
  BY WorkerFacts, Zenon
     DEF UnmountLayers, ClaimDetach, PrepareDetach, DetachIoctl, FailedDetach,
         FinishDetach, WaitRelease, RemoveDirectory, Invalidate, At, UnmountPcs
<1>2. w \notin Mounters =>
        /\ Settled(g_image_cache, g_image_cache_generation, proc[w].generation)
        /\ Settled(g_image_cache, g_image_cache_generation, proc[w].entry.generation)
  BY <1>1, Zenon DEF OwnInv, Outsider
<1>3. ASSUME StatesKept, w \in Mounters \/ AttachingKept,
             NEW pc \in UnmountPcs, Go(w, pc)
      PROVE  OwnInv'
  <2>1. /\ OthersStay(w) /\ proc'[w].pc = pc
        /\ proc'[w].generation = proc[w].generation /\ proc'[w].entry = proc[w].entry
        /\ proc'[w].expected = proc[w].expected /\ proc'[w].ret = proc[w].ret
    BY <1>3, GoFacts, Zenon
  <2> QED BY <1>1, <1>3, <2>1, UnmountMoves, ZenonT(60)
<1>4. ASSUME StatesKept, w \in Mounters \/ AttachingKept,
             NEW pc \in UnmountPcs, NEW released,
             proc' = [proc EXCEPT ![w].pc = pc, ![w].released = released]
      PROVE  OwnInv'
  <2>1. proc'[w] = [proc[w] EXCEPT !.pc = pc, !.released = released] /\ OthersStay(w)
    BY <1>1, <1>4, Zenon DEF OthersStay
  <2>2. /\ proc'[w].pc = pc /\ proc'[w].generation = proc[w].generation
        /\ proc'[w].entry = proc[w].entry
        /\ proc'[w].expected = proc[w].expected /\ proc'[w].ret = proc[w].ret
    BY <1>1, <2>1, Zenon DEF Activity
  <2> QED BY <1>1, <1>4, <2>1, <2>2, UnmountMoves, Zenon
<1>5. UNCHANGED tableVars => StatesKept /\ AttachingKept
  BY SameStates
<1>6. ASSUME StatesKept, w \in Mounters \/ AttachingKept, NEW ok, End(w, ok)
      PROVE  OwnInv'
  BY <1>6, EndOwns, Zenon
<1>7. CASE UnmountLayers(w)
  <2>1. CASE UNCHANGED proc
    BY <1>1, <1>5, <1>7, <2>1, UnmountMoves, Zenon DEF UnmountLayers, OthersStay
  <2> QED BY <1>3, <1>5, <1>6, <1>7, <2>1, Zenon DEF UnmountLayers, UnmountPcs
<1>8. CASE ClaimDetach(w)
  <2>1. CASE UNCHANGED tableVars /\ Go(w, "rmdir")
    BY <1>3, <1>5, <2>1, Zenon DEF UnmountPcs
  <2>2. ASSUME claim_image_cache_detach(Path(w), proc[w].generation, proc[w].device),
               NEW identity, NEW requested,
               proc' = [proc EXCEPT ![w].pc = "prepare", ![w].identity = identity,
                                    ![w].requested = requested]
        PROVE  OwnInv'
    <3>1. StatesKept /\ (w \in Mounters \/ AttachingKept)
      BY <1>2, <2>2, DetachStates, Zenon
    <3>2. /\ proc'[w] = [proc[w] EXCEPT !.pc = "prepare", !.identity = identity,
                                        !.requested = requested]
          /\ OthersStay(w)
      BY <1>1, <2>2, Zenon DEF OthersStay
    <3>3. /\ proc'[w].pc = "prepare" /\ proc'[w].generation = proc[w].generation
          /\ proc'[w].entry = proc[w].entry
          /\ proc'[w].expected = proc[w].expected /\ proc'[w].ret = proc[w].ret
      BY <1>1, <3>2, Zenon DEF Activity
    <3> QED BY <1>1, <3>1, <3>2, <3>3, UnmountMoves, Zenon DEF UnmountPcs
  <2> QED BY <1>8, <2>1, <2>2, Zenon DEF ClaimDetach
<1>9. CASE PrepareDetach(w) \/ FailedDetach(w) \/ WaitRelease(w)
  <2>1. /\ UNCHANGED tableVars
        /\ \/ \E pc \in UnmountPcs : Go(w, pc)
           \/ \E pc \in UnmountPcs : \E released :
                proc' = [proc EXCEPT ![w].pc = pc, ![w].released = released]
    BY <1>9, Zenon DEF PrepareDetach, FailedDetach, WaitRelease, UnmountPcs
  <2> QED BY <1>3, <1>4, <1>5, <2>1, Zenon
<1>10. CASE DetachIoctl(w)
  <2>1. CASE proc' = [proc EXCEPT ![w].pc = "finish", ![w].requested = TRUE,
                                  ![w].accepted = TRUE]
    <3>1. /\ proc'[w] = [proc[w] EXCEPT !.pc = "finish", !.requested = TRUE,
                                        !.accepted = TRUE]
          /\ OthersStay(w)
      BY <1>1, <2>1, Zenon DEF OthersStay
    <3>2. /\ proc'[w].pc = "finish" /\ proc'[w].generation = proc[w].generation
          /\ proc'[w].entry = proc[w].entry
          /\ proc'[w].expected = proc[w].expected /\ proc'[w].ret = proc[w].ret
      BY <1>1, <3>1, Zenon DEF Activity
    <3> QED BY <1>1, <1>5, <1>10, <3>1, <3>2, UnmountMoves, Zenon DEF DetachIoctl, UnmountPcs
  <2> QED BY <1>3, <1>5, <1>10, <2>1, Zenon DEF DetachIoctl, UnmountPcs
<1>11. CASE FinishDetach(w)
  <2>1. CASE UNCHANGED tableVars
    BY <1>3, <1>4, <1>5, <1>11, <2>1, Zenon DEF FinishDetach, UnmountPcs
  <2>2. CASE finish_image_cache_detach_attempt(proc[w].path, proc[w].generation,
               proc[w].device, proc[w].identity, proc[w].requested)
    <3>1. StatesKept /\ (w \in Mounters \/ AttachingKept)
      BY <1>2, <2>2, DetachStates, Zenon
    <3>2. \/ Go(w, "wait") \/ Go(w, "rmdir")
          \/ proc' = [proc EXCEPT ![w].pc = "rmdir", ![w].released = FALSE]
      BY <1>11, Zenon DEF FinishDetach
    <3> QED BY <1>3, <1>4, <3>1, <3>2, Zenon DEF UnmountPcs
  <2> QED BY <1>11, <2>1, <2>2, Zenon DEF FinishDetach
<1>12. CASE RemoveDirectory(w)
  BY <1>3, <1>5, <1>6, <1>12, Zenon DEF RemoveDirectory, UnmountPcs
<1>13. CASE Invalidate(w)
  <2>1. CASE UNCHANGED tableVars /\ \E ok : End(w, ok)
    BY <1>5, <1>6, <2>1, Zenon
  <2>2. ASSUME g_image_cache[proc[w].slot].generation = proc[w].entry.generation,
               invalidate_image_cache_entry(proc[w].slot, copy_cache_entry(proc[w].slot)),
               End(w, TRUE)
        PROVE  OwnInv'
    <3>1. proc[w].slot \in Slots
      BY <1>1, WorkerFacts, Zenon DEF HasArguments
    <3>2. ~Wiped.valid
      BY DEF Wiped
    <3>3. /\ StatesKept
          /\ Settled(g_image_cache, g_image_cache_generation, proc[w].entry.generation)
               => AttachingKept
      BY <2>2, <3>1, <3>2, SlotStates, Zenon DEF invalidate_image_cache_entry
    <3> QED BY <1>2, <1>6, <2>2, <3>3, Zenon
  <2> QED BY <1>13, <2>1, <2>2, Zenon DEF Invalidate
<1> QED BY <1>7, <1>8, <1>9, <1>10, <1>11, <1>12, <1>13, Zenon

(* The calls, and the sweep of a sleep.                                     *)
LEMMA CallOwns ==
  ASSUME OneMounter, MountInv, MountInv', OwnInv, NEW w \in Workers,
         \/ MountImage(w) \/ CleanupStale(w) \/ ReleaseMount(w) \/ StartSuspend(w)
         \/ SweepUsb(w)
  PROVE  OwnInv'
<1>1. /\ proc[w] \in Activity /\ proc \in [Workers -> Activity]
  BY WorkerFacts
<1>2. StatesKept /\ AttachingKept /\ UNCHANGED tableVars
  BY SameStates, Zenon DEF MountImage, CleanupStale, ReleaseMount, StartSuspend, SweepUsb
<1>3. w \notin Mounters => proc[w].expected = 0 /\ proc[w].ret \in {"idle", "sweep"}
  BY Zenon DEF OwnInv, Outsider
<1>4. ASSUME OthersStay(w), proc'[w].pc \in {"idle", "sweep", "release"},
             w \notin Mounters => proc'[w].expected = 0 /\ proc'[w].ret \in {"idle", "sweep"}
      PROVE  OwnInv'
  <2>1. proc'[w].pc \notin {"mark"} \cup UnmountPcs \cup OwnPcs
    BY <1>4 DEF UnmountPcs, OwnPcs
  <2>2. w \notin Mounters => Outsider(proc'[w], g_image_cache', g_image_cache_generation')
    BY <1>4, <2>1, Zenon DEF Outsider
  <2> QED BY <1>2, <1>4, <2>1, <2>2, NotOwner, OwnFrame, ZenonT(60)
<1>5. CASE MountImage(w)
  <2>1. PICK path : proc' = [proc EXCEPT ![w].pc = "cached", ![w].path = path]
    BY <1>5, Zenon DEF MountImage
  <2>2. proc'[w] = [proc[w] EXCEPT !.pc = "cached", !.path = path] /\ OthersStay(w)
    BY <1>1, <2>1, Zenon DEF OthersStay
  <2>3. proc'[w].pc = "cached" /\ w \in Mounters
    BY <1>1, <1>5, <2>2, Zenon DEF Activity, MountImage
  <2> QED BY <1>2, <2>2, <2>3, MounterMoves, Zenon DEF OwnPcs
<1>6. CASE CleanupStale(w)
  <2>1. w \in Mounters
    BY <1>6, Zenon DEF CleanupStale
  <2>2. OthersStay(w) /\ proc'[w].pc \in {"mark", "release"}
    <3>1. PICK k \in Slots :
            \/ CallUnmount(w, k, "idle")
            \/ proc' = [proc EXCEPT ![w].pc = "release",
                          ![w].path = g_image_cache[k].path,
                          ![w].expected = g_image_cache[k].generation,
                          ![w].ret = "cached"]
      BY <1>6, Zenon DEF CleanupStale
    <3>2. CASE CallUnmount(w, k, "idle")
      <4>1. /\ OthersStay(w)
            /\ proc'[w] = [proc[w] EXCEPT !.pc = "mark", !.path = g_image_cache[k].path,
                             !.expected = 0, !.slot = k,
                             !.entry = copy_cache_entry(k), !.ret = "idle"]
        BY <1>1, <3>2, Zenon DEF CallUnmount, OthersStay
      <4> QED BY <1>1, <4>1, Zenon DEF Activity
    <3>3. CASE proc' = [proc EXCEPT ![w].pc = "release",
                          ![w].path = g_image_cache[k].path,
                          ![w].expected = g_image_cache[k].generation,
                          ![w].ret = "cached"]
      <4>1. /\ OthersStay(w)
            /\ proc'[w] = [proc[w] EXCEPT !.pc = "release", !.path = g_image_cache[k].path,
                             !.expected = g_image_cache[k].generation, !.ret = "cached"]
        BY <1>1, <3>3, Zenon DEF OthersStay
      <4> QED BY <1>1, <4>1, Zenon DEF Activity
    <3> QED BY <3>1, <3>2, <3>3
  <2> QED BY <1>2, <2>1, <2>2, MounterMoves, Zenon DEF OwnPcs
<1>7. CASE ReleaseMount(w)
  <2>1. PICK path : proc' = [proc EXCEPT ![w].pc = "release", ![w].path = path]
    BY <1>7, Zenon DEF ReleaseMount
  <2>2. proc'[w] = [proc[w] EXCEPT !.pc = "release", !.path = path] /\ OthersStay(w)
    BY <1>1, <2>1, Zenon DEF OthersStay
  <2>3. /\ proc'[w].pc = "release"
        /\ proc'[w].expected = proc[w].expected /\ proc'[w].ret = proc[w].ret
    BY <1>1, <2>2, Zenon DEF Activity
  <2> QED BY <1>3, <1>4, <2>2, <2>3, Zenon
<1>8. CASE StartSuspend(w)
  BY <1>3, <1>4, <1>8, GoFacts, Zenon DEF StartSuspend
<1>9. CASE SweepUsb(w)
  <2>1. CASE proc' = [proc EXCEPT ![w] = Idle]
    <3>1. proc'[w] = Idle /\ OthersStay(w)
      BY <2>1, MoveFacts, Zenon
    <3>2. Idle.pc = "idle" /\ Idle.expected = 0 /\ Idle.ret = "idle"
      BY DEF Idle
    <3> QED BY <1>4, <3>1, <3>2, Zenon
  <2>2. CASE proc' = [proc EXCEPT ![w].sweep = proc[w].sweep + 1]
    <3>1. proc'[w] = [proc[w] EXCEPT !.sweep = proc[w].sweep + 1] /\ OthersStay(w)
      BY <1>1, <2>2, Zenon DEF OthersStay
    <3>2. /\ proc'[w].pc = "sweep" /\ proc'[w].expected = proc[w].expected
          /\ proc'[w].ret = proc[w].ret
      BY <1>1, <1>9, <3>1, Zenon DEF Activity, SweepUsb, At
    <3> QED BY <1>3, <1>4, <3>1, <3>2, Zenon
  <2>3. ASSUME NEW k \in Slots, g_image_cache[k].valid,
               g_image_cache[k].state # "ATTACHING",
               proc' = [proc EXCEPT ![w] =
                          [@ EXCEPT !.pc = "mark", !.path = g_image_cache[k].path,
                                    !.slot = k, !.entry = copy_cache_entry(k),
                                    !.ret = "sweep", !.sweep = k + 1]]
        PROVE  OwnInv'
    <3>1. /\ proc'[w] = [proc[w] EXCEPT !.pc = "mark", !.path = g_image_cache[k].path,
                           !.slot = k, !.entry = copy_cache_entry(k),
                           !.ret = "sweep", !.sweep = k + 1]
          /\ OthersStay(w)
      BY <1>1, <2>3, Zenon DEF OthersStay
    <3>2. /\ proc'[w].pc = "mark" /\ proc'[w].entry = copy_cache_entry(k)
          /\ proc'[w].expected = proc[w].expected /\ proc'[w].ret = "sweep"
      BY <1>1, <3>1, Zenon DEF Activity
    <3> QED BY <1>2, <1>3, <2>3, <3>1, <3>2, MarkMoves, ZenonT(60)
  <2> QED BY <1>9, <2>1, <2>2, <2>3, Zenon DEF SweepUsb
<1> QED BY <1>5, <1>6, <1>7, <1>8, <1>9, Zenon

(* Every step keeps it.                                                     *)
LEMMA NextOwns ==
  ASSUME OneMounter, MountInv, MountInv', OwnInv, [MountNext]_mountVars
  PROVE  OwnInv'
<1>1. CASE UNCHANGED <<tableVars, proc>>
  BY <1>1, Zenon DEF OwnInv, tableVars
<1>2. UNCHANGED mountVars \/ NodeAppears \/ DetachCompletes \/ MountLost
        \/ SleepModeChanges \/ ProtectionChanges => UNCHANGED <<tableVars, proc>>
  BY Zenon DEF mountVars, NodeAppears, DetachCompletes, MountLost, SleepModeChanges,
     ProtectionChanges
<1>3. ASSUME NEW w \in Workers, ReleaseStep(w) PROVE OwnInv'
  BY <1>3, ReleaseImageOwns, MarkDetachOwns, UnmountStepOwns, CallOwns, Zenon
     DEF ReleaseStep
<1> QED BY <1>1, <1>2, <1>3, MountStepOwns, CallOwns, Zenon DEF MountNext

(* While one thread at a time mounts, whatever the releasing threads do: a  *)
(* mount owns its record from begin_image_attachment to                     *)
(* complete_image_attachment.                                               *)
THEOREM MountsOwnRecords ==
  ASSUME OneMounter
  PROVE  MountSpec => []MountOwnsRecord
<1>1. MountInit => OwnInv
  <2>1. Idle.pc = "idle" /\ Idle.expected = 0 /\ Idle.ret = "idle"
    BY DEF Idle
  <2>2. Idle.pc \notin {"mark"} \cup UnmountPcs \cup OwnPcs
    BY <2>1 DEF UnmountPcs, OwnPcs
  <2> QED BY <2>1, <2>2, Zenon DEF MountInit, OwnInv, OwnedBy, Outsider
<1>2. MountInv /\ MountInv' /\ OwnInv /\ [MountNext]_mountVars => OwnInv'
  BY NextOwns, Zenon
<1>3. OwnInv => MountOwnsRecord
  BY Zenon DEF OwnInv, OwnedBy, OwnPcs, MountOwnsRecord, PathOwners
<1> QED BY <1>1, <1>2, <1>3, MountInvariance, PTL DEF MountSpec
=============================================================================
