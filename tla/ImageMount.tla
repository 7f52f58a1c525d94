----------------------------- MODULE ImageMount -----------------------------
(***************************************************************************)
(* Mounting and releasing images (sm_image.c) through the attachment table *)
(* of ImageCache and the kernel's units (sm_mount_device.c), by threads    *)
(* that interleave between any two calls.                                  *)
(*                                                                         *)
(* A Mounter runs mount_image and the stale sweep of the scanner; the      *)
(* gates of the ShellCore service are meant to let one thread at a time do *)
(* this.  A run with two Mounters shows what holds without them.           *)
(* A Releaser releases an image or, when the console goes to sleep, all    *)
(* USB images, and holds the lock of the mount state throughout.           *)
(*                                                                         *)
(* The kernel numbers attachments: unit[d] is the number of the attachment *)
(* behind device name d, and the device node shows the same number as its  *)
(* identity once it is published.                                          *)
(***************************************************************************)
EXTENDS ImageCache, Sequences

CONSTANTS Workers, Mounters, Releasers, NoWorker,
          UsbPaths,             \* images on USB storage
          TitlePaths,           \* images that titles may come to protect
          image_mount_point,    \* path -> mount point, fixed by the file name
          Leftover,             \* mount point -> layers found at startup
          MountTableFails,      \* may a mount table snapshot fail?
          ConsoleSleeps,        \* may the console go to sleep?
          MaxMounts             \* bound on the mount_image calls made

ASSUME MountConstants ==
    /\ Mounters \subseteq Workers /\ Releasers \subseteq Workers
    /\ NoWorker \notin Workers
    /\ UsbPaths \subseteq Paths /\ TitlePaths \subseteq Paths
    /\ image_mount_point \in [Paths -> MountPoints]
    /\ Leftover \in [MountPoints -> Seq(Devices)]
    /\ MountTableFails \in BOOLEAN /\ ConsoleSleeps \in BOOLEAN
    /\ MaxMounts \in Nat

VARIABLES
    unit,        \* kernel: attachment number behind each device name, 0 = none
    detaching,   \* kernel: devices whose detach was accepted
    mounted,     \* kernel: the stack of devices mounted on each mount point
    attaches,    \* kernel: attachments made so far
    proc,        \* what each worker is doing
    lock,        \* holder of runtime_mount_state_lock
    starts,      \* mount_image calls made so far
    sleeping,    \* runtime_sleep_mode_active(), set without the lock
    cleanup,     \* USB cleanup of the current sleep: no, running, done
    spared,      \* paths that cleanup left alone as protected
    protected,   \* sm_shellcore_source_is_protected
    leaked       \* devices whose rollback failed before they were recorded

tableVars  == <<g_image_cache, g_image_cache_generation>>
kernelVars == <<node, unit, detaching, mounted, attaches>>
sleepVars  == <<sleeping, cleanup, spared>>
mountVars  == <<tableVars, kernelVars, proc, lock, starts, sleepVars,
                protected, leaked>>

-----------------------------------------------------------------------------
(* A worker: where it is, its arguments, the record it copied, the detach  *)
(* attempt it claimed, and where a successful release takes it.            *)

Idle == [pc |-> "idle", path |-> NoPath, device |-> NoDevice, generation |-> 0,
         expected |-> 0, slot |-> 0, entry |-> Wiped, identity |-> 0,
         requested |-> FALSE, accepted |-> FALSE, released |-> FALSE,
         ret |-> "idle", sweep |-> 0]

At(w, pc) == proc[w].pc = pc

Path(w) == proc[w].path

MountPoint(w) == image_mount_point[Path(w)]

Go(w, pc) == proc' = [proc EXCEPT ![w].pc = pc]

(* Return from a call or a release: on success to the caller's next step;  *)
(* on failure the whole mount fails, while a sweep goes on.                *)
End(w, ok) ==
    LET next == IF ok \/ proc[w].ret = "sweep" THEN proc[w].ret ELSE "idle" IN
    /\ proc' = [proc EXCEPT ![w] =
                  IF next = "idle" THEN Idle
                  ELSE [Idle EXCEPT !.pc = next, !.path = proc[w].path,
                                    !.sweep = proc[w].sweep]]
    /\ lock' = IF next = "idle" /\ lock = w THEN NoWorker ELSE lock

(* release_runtime_image_attachment(path, generation), or, with generation *)
(* 0, release_runtime_image_mount(path).                                   *)
CallRelease(w, generation, ret) ==
    proc' = [proc EXCEPT ![w].pc = "release", ![w].expected = generation,
                         ![w].ret = ret]

(* unmount_image_impl on the copy of a record; expected generation 0. *)
CallUnmount(w, k, ret) ==
    proc' = [proc EXCEPT ![w].pc = "mark", ![w].path = g_image_cache[k].path,
                         ![w].expected = 0, ![w].slot = k,
                         ![w].entry = copy_cache_entry(k), ![w].ret = ret]

-----------------------------------------------------------------------------
(* What the kernel and the table answer. *)

is_active_image_mount_point(w) == mounted[MountPoint(w)] # <<>>

device_node_is_mounted(device) ==
    \E m \in MountPoints : \E i \in DOMAIN mounted[m] : mounted[m][i] = device

(* Has the attachment the worker claimed gone?  The node is absent, has    *)
(* another identity, or is in use by a filesystem.                         *)
detach_target_is_released_or_reused(w) ==
    \/ node[proc[w].device] # proc[w].identity
    \/ device_node_is_mounted(proc[w].device)

(* The device behind a mount point: the table first, then the mount table. *)
resolve_device_from_mount(mount_point) ==
    LET cached == {k \in MountOwners(mount_point) :
                     g_image_cache[k].device # NoDevice}
        stack  == mounted[mount_point]
    IN IF cached # {} THEN {g_image_cache[k].device : k \in cached}
       ELSE IF stack # <<>> THEN {stack[Len(stack)]}
       ELSE {}

-----------------------------------------------------------------------------
(* mount_image. *)

MountImage(w) ==
    /\ w \in Mounters
    /\ At(w, "idle")
    /\ starts < MaxMounts
    /\ ~sleeping
    /\ \E path \in Paths :
         proc' = [proc EXCEPT ![w].pc = "cached", ![w].path = path]
    /\ starts' = starts + 1
    /\ UNCHANGED <<tableVars, kernelVars, lock, sleepVars, protected, leaked>>

(* handle_cached_or_existing_image_mount, up to the reuse of a mount. *)
HandleCached(w) ==
    LET cached == {k \in PathOwners(Path(w)) : g_image_cache[k].device # NoDevice} IN
    /\ At(w, "cached")
    /\ \/ sleeping /\ End(w, FALSE)
       \/ ~sleeping /\ cached = {} /\ Go(w, "reuse") /\ UNCHANGED lock
       \/ /\ ~sleeping
          /\ \E k \in cached :
               CASE g_image_cache[k].state = "DETACH_REQUESTED" ->
                      CallRelease(w, 0, "idle") /\ UNCHANGED lock
                 [] g_image_cache[k].state = "ATTACHING" -> End(w, FALSE)
                 [] OTHER ->
                      \/ is_active_image_mount_point(w) /\ End(w, TRUE)
                      \/ /\ CallRelease(w, g_image_cache[k].generation, "reuse")
                         /\ UNCHANGED lock
    /\ UNCHANGED <<tableVars, kernelVars, starts, sleepVars, protected, leaked>>

(* reuse_existing_image_mount: an existing mount is adopted. *)
ReuseExisting(w) ==
    /\ At(w, "reuse")
    /\ \/ /\ mounted[MountPoint(w)] = <<>>      \* no directory, or no device
          /\ Go(w, "begin")
       \/ \E device \in resolve_device_from_mount(MountPoint(w)) :
            proc' = [proc EXCEPT ![w].pc = "adopt", ![w].device = device]
    /\ UNCHANGED <<tableVars, kernelVars, lock, starts, sleepVars, protected, leaked>>

(* An adopted mount whose root cannot be read is released, then remounted. *)
AdoptMount(w) ==
    /\ At(w, "adopt")
    /\ \/ /\ cache_image_mount(Path(w), MountPoint(w), proc[w].device)
          /\ \/ End(w, TRUE)
             \/ CallRelease(w, 0, "begin") /\ UNCHANGED lock
       \/ /\ UpsertSlots(Path(w), MountPoint(w)) = {}
          /\ End(w, FALSE)
          /\ UNCHANGED tableVars
    /\ UNCHANGED <<kernelVars, starts, sleepVars, protected, leaked>>

CanBegin(w) ==
    \E k \in UpsertSlots(Path(w), MountPoint(w)) :
      cache_entry_is_metadata_only(UpsertTable(k, Path(w), MountPoint(w))[k])

(* The reservation, under runtime_mount_state_lock; it first finds the     *)
(* image file readable.                                                    *)
BeginAttachment(w) ==
    LET done == \E k \in PathOwners(Path(w)) : g_image_cache[k].state = "MOUNTED" IN
    /\ At(w, "begin")
    /\ \/ End(w, FALSE) /\ UNCHANGED tableVars              \* stat_image_file
       \/ /\ lock = NoWorker
          /\ \/ sleeping /\ End(w, FALSE) /\ UNCHANGED tableVars
             \/ ~sleeping /\ done /\ End(w, TRUE) /\ UNCHANGED tableVars
             \/ /\ ~sleeping /\ ~done /\ ~CanBegin(w)
                /\ End(w, FALSE) /\ UNCHANGED tableVars
             \/ /\ ~sleeping /\ ~done
                /\ begin_image_attachment(Path(w), MountPoint(w))
                /\ proc' = [proc EXCEPT ![w].pc = "attach",
                              ![w].generation = g_image_cache_generation']
                /\ UNCHANGED lock
    /\ UNCHANGED <<kernelVars, starts, sleepVars, protected, leaked>>

(* The attach ioctl; a failure gives the reservation back. *)
AttachDevice(w) ==
    /\ At(w, "attach")
    /\ \/ /\ \E device \in Devices :
               /\ unit[device] = 0
               /\ attaches' = attaches + 1
               /\ unit' = [unit EXCEPT ![device] = attaches']
               /\ proc' = [proc EXCEPT ![w].pc = "publish", ![w].device = device]
          /\ UNCHANGED <<tableVars, node, detaching, mounted, lock>>
       \/ /\ \/ cancel_image_attachment(Path(w), proc[w].generation)
             \/ /\ \A k \in Slots : ~IsReservation(k, Path(w), proc[w].generation)
                /\ UNCHANGED tableVars
          /\ End(w, FALSE)
          /\ UNCHANGED kernelVars
    /\ UNCHANGED <<starts, sleepVars, protected, leaked>>

PublishAttachment(w) ==
    /\ At(w, "publish")
    /\ \/ /\ publish_image_attachment(Path(w), proc[w].generation, proc[w].device)
          /\ Go(w, "node")
       \/ /\ \A k \in Slots : ~IsReservation(k, Path(w), proc[w].generation)
          /\ Go(w, "rollback")
          /\ UNCHANGED tableVars
    /\ UNCHANGED <<kernelVars, lock, starts, sleepVars, protected, leaked>>

(* rollback_unpublished_attached_unit: the detach is accepted, or the node *)
(* does not appear in time or the ioctl fails and the unit is left behind. *)
RollbackUnit(w) ==
    LET device == proc[w].device IN
    /\ At(w, "rollback")
    /\ \/ /\ node[device] # 0
          /\ detaching' = detaching \cup {device}
          /\ UNCHANGED leaked
       \/ leaked' = leaked \cup {device} /\ UNCHANGED detaching
    /\ End(w, FALSE)
    /\ UNCHANGED <<tableVars, node, unit, mounted, attaches, starts, sleepVars, protected>>

(* Mutant: the wait for the device node has no timeout. *)
WaitForNodeForever(w) ==
    /\ At(w, "node")
    /\ node[proc[w].device] # 0 /\ Go(w, "nmount")
    /\ UNCHANGED <<tableVars, kernelVars, lock, starts, sleepVars, protected, leaked>>

WaitForNode(w) ==
    /\ At(w, "node")
    /\ \/ node[proc[w].device] # 0 /\ Go(w, "nmount")
       \/ node[proc[w].device] = 0 /\ CallRelease(w, proc[w].generation, "idle")
    /\ UNCHANGED <<tableVars, kernelVars, lock, starts, sleepVars, protected, leaked>>

(* perform_image_nmount, after a look at the sleep mode. *)
PerformNmount(w) ==
    /\ At(w, "nmount")
    /\ \/ /\ ~sleeping
          /\ node[proc[w].device] # 0
          /\ mounted' = [mounted EXCEPT ![MountPoint(w)] = Append(@, proc[w].device)]
          /\ Go(w, "validate")
       \/ CallRelease(w, proc[w].generation, "idle") /\ UNCHANGED mounted
    /\ UNCHANGED <<tableVars, node, unit, detaching, attaches, lock, starts, sleepVars,
                   protected, leaked>>

(* Another look at the sleep mode, then validate_mounted_image. *)
ValidateMount(w) ==
    /\ At(w, "validate")
    /\ \/ ~sleeping /\ Go(w, "complete")
       \/ CallRelease(w, proc[w].generation, "idle")
    /\ UNCHANGED <<tableVars, kernelVars, lock, starts, sleepVars, protected, leaked>>

(* Mutant: the commit does not look at the sleep mode. *)
CompleteDespiteSleep(w) ==
    /\ At(w, "complete")
    /\ lock = NoWorker
    /\ complete_image_attachment(Path(w), proc[w].generation, proc[w].device)
    /\ End(w, TRUE)
    /\ UNCHANGED <<kernelVars, starts, sleepVars, protected, leaked>>

(* The commit, under runtime_mount_state_lock, unless the console sleeps. *)
CompleteAttachment(w) ==
    LET records == {k \in find_attachment_record(Path(w), proc[w].generation,
                                                 proc[w].device) :
                      g_image_cache[k].state = "ATTACHING"} IN
    /\ At(w, "complete")
    /\ lock = NoWorker
    /\ \/ /\ ~sleeping
          /\ complete_image_attachment(Path(w), proc[w].generation, proc[w].device)
          /\ End(w, TRUE)
       \/ /\ sleeping \/ records = {}
          /\ CallRelease(w, proc[w].generation, "idle")
          /\ UNCHANGED <<tableVars, lock>>
    /\ UNCHANGED <<kernelVars, starts, sleepVars, protected, leaked>>

-----------------------------------------------------------------------------
(* Releasing an image. *)

(* Mutant: a release drops a reservation, whoever holds it. *)
ReleaseReservation(w) ==
    /\ At(w, "release")
    /\ \E k \in PathOwners(Path(w)) :
         /\ g_image_cache[k].device = NoDevice
         /\ cancel_image_attachment(Path(w), g_image_cache[k].generation)
         /\ End(w, TRUE)
    /\ UNCHANGED <<kernelVars, starts, sleepVars, protected, leaked>>

(* release_runtime_image_attachment and release_runtime_image_mount, up to *)
(* their call of unmount_image_impl.                                       *)
ReleaseImage(w) ==
    LET expected == proc[w].expected
        found    == {k \in PathOwners(Path(w)) :
                       expected \in {0, g_image_cache[k].generation}}
    IN
    /\ At(w, "release")
    /\ \/ /\ found = {}
          /\ End(w, expected = 0)
          /\ UNCHANGED tableVars
       \/ \E k \in found :
            \/ /\ g_image_cache[k].device = NoDevice /\ expected # 0
               /\ \/ /\ cancel_image_attachment(Path(w), expected)
                     /\ End(w, TRUE)
                  \/ /\ ~IsReservation(k, Path(w), expected)
                     /\ End(w, FALSE)
                     /\ UNCHANGED tableVars
            \/ /\ expected = 0
               /\ \/ g_image_cache[k].state = "ATTACHING" /\ End(w, FALSE)
                  \/ /\ g_image_cache[k].state # "ATTACHING"
                     /\ g_image_cache[k].device = NoDevice
                     /\ End(w, TRUE)
               /\ UNCHANGED tableVars
            \/ /\ g_image_cache[k].device # NoDevice
               /\ expected # 0 \/ g_image_cache[k].state # "ATTACHING"
               /\ proc' = [proc EXCEPT ![w].pc = "mark", ![w].slot = k,
                                       ![w].entry = copy_cache_entry(k)]
               /\ UNCHANGED <<tableVars, lock>>
    /\ UNCHANGED <<kernelVars, starts, sleepVars, protected, leaked>>

(* unmount_image_impl, up to its first unmount: the record must still be   *)
(* the one that was copied, and an attachment in progress belongs to its   *)
(* mount.  Marking fails when the identity of the node is unknown.  The    *)
(* lookup and the marking name the same generation and device, and within  *)
(* a generation no record returns to ATTACHING, so they are one step.      *)
MarkDetach(w) ==
    LET tracked == {k \in PathOwners(Path(w)) :
                      /\ g_image_cache[k].device = proc[w].entry.device
                      /\ proc[w].expected \in {0, g_image_cache[k].generation}
                      /\ proc[w].expected # 0 \/ g_image_cache[k].state # "ATTACHING"}
    IN
    /\ At(w, "mark")
    /\ \/ /\ Path(w) \in protected
          /\ spared' = IF proc[w].ret = "sweep" THEN spared \cup {Path(w)} ELSE spared
          /\ End(w, FALSE)
          /\ UNCHANGED tableVars
       \/ /\ Path(w) \notin protected
          /\ tracked = {}
          /\ End(w, FALSE)
          /\ UNCHANGED <<tableVars, spared>>
       \/ /\ Path(w) \notin protected
          /\ \E k \in tracked :
               /\ mark_image_cache_detach_requested(
                    Path(w), g_image_cache[k].generation, g_image_cache[k].device)
               /\ IF g_image_cache'[k].identity # 0
                  THEN /\ proc' = [proc EXCEPT ![w].pc = "unmount",
                                     ![w].generation = g_image_cache[k].generation,
                                     ![w].device = g_image_cache[k].device]
                       /\ UNCHANGED lock
                  ELSE End(w, FALSE)
          /\ UNCHANGED spared
    /\ UNCHANGED <<kernelVars, starts, sleeping, cleanup, protected, leaked>>

(* The loop over the layers of the mount point: each is unmounted, or the  *)
(* filesystem is busy, or the mount table cannot be read.                  *)
UnmountLayers(w) ==
    /\ At(w, "unmount")
    /\ \/ /\ is_active_image_mount_point(w)
          /\ mounted' = [mounted EXCEPT ![MountPoint(w)] = SubSeq(@, 1, Len(@) - 1)]
          /\ UNCHANGED <<proc, lock>>
       \/ /\ is_active_image_mount_point(w) \/ MountTableFails
          /\ End(w, FALSE)
          /\ UNCHANGED mounted
       \/ /\ ~is_active_image_mount_point(w)
          /\ Go(w, "claim")
          /\ UNCHANGED <<mounted, lock>>
    /\ UNCHANGED <<tableVars, node, unit, detaching, attaches, starts, sleepVars,
                   protected, leaked>>

(* detach_cached_image_device: the claim makes this worker the only one    *)
(* that may ask the kernel for this detach.                                *)
ClaimDetach(w) ==
    /\ At(w, "claim")
    /\ \/ /\ claim_image_cache_detach(Path(w), proc[w].generation, proc[w].device)
          /\ \E k \in find_attachment_record(Path(w), proc[w].generation,
                                             proc[w].device) :
               proc' = [proc EXCEPT ![w].pc = "prepare",
                          ![w].identity = g_image_cache'[k].identity,
                          ![w].requested = g_image_cache'[k].requested]
       \/ /\ \A k \in find_attachment_record(Path(w), proc[w].generation,
                                             proc[w].device) :
               \/ g_image_cache[k].detach_attempt_active
               \/ refresh_attached_unit_identity(g_image_cache[k]).identity = 0
          /\ Go(w, "rmdir")
          /\ UNCHANGED tableVars
    /\ UNCHANGED <<kernelVars, lock, starts, sleepVars, protected, leaked>>

(* Mutant: a detach that was already accepted is asked for again. *)
PrepareAgain(w) ==
    /\ At(w, "prepare")
    /\ \/ /\ detach_target_is_released_or_reused(w)
          /\ proc' = [proc EXCEPT ![w].pc = "finish", ![w].released = TRUE]
       \/ ~detach_target_is_released_or_reused(w) /\ Go(w, "ioctl")
    /\ UNCHANGED <<tableVars, kernelVars, lock, starts, sleepVars, protected, leaked>>

(* prepare_attached_unit_detach; a mount table that cannot be read counts  *)
(* as a device in use, hence as a released target.                         *)
PrepareDetach(w) ==
    /\ At(w, "prepare")
    /\ \/ /\ detach_target_is_released_or_reused(w) \/ MountTableFails
          /\ proc' = [proc EXCEPT ![w].pc = "finish", ![w].released = TRUE]
       \/ /\ ~detach_target_is_released_or_reused(w)
          /\ Go(w, IF proc[w].requested THEN "finish" ELSE "ioctl")
    /\ UNCHANGED <<tableVars, kernelVars, lock, starts, sleepVars, protected, leaked>>

(* Mutant: when the control device fails to open, the claim is kept. *)
DetachKeepsClaim(w) ==
    /\ At(w, "ioctl")
    /\ Go(w, "rmdir")
    /\ UNCHANGED <<tableVars, kernelVars, lock, starts, sleepVars, protected, leaked>>

(* The detach ioctl: accepted, refused, or the control device fails to open. *)
DetachIoctl(w) ==
    /\ At(w, "ioctl")
    /\ \/ /\ unit[proc[w].device] # 0
          /\ detaching' = detaching \cup {proc[w].device}
          /\ proc' = [proc EXCEPT ![w].pc = "finish", ![w].requested = TRUE,
                                  ![w].accepted = TRUE]
       \/ Go(w, "failed") /\ UNCHANGED detaching
       \/ Go(w, "finish") /\ UNCHANGED detaching
    /\ UNCHANGED <<tableVars, node, unit, mounted, attaches, lock, starts, sleepVars,
                   protected, leaked>>

(* finish_failed_detach. *)
FailedDetach(w) ==
    /\ At(w, "failed")
    /\ \/ /\ detach_target_is_released_or_reused(w) \/ MountTableFails
          /\ proc' = [proc EXCEPT ![w].pc = "finish", ![w].released = TRUE]
       \/ ~detach_target_is_released_or_reused(w) /\ Go(w, "finish")
    /\ UNCHANGED <<tableVars, kernelVars, lock, starts, sleepVars, protected, leaked>>

(* The attempt is written back; a detach just accepted is waited for. *)
FinishDetach(w) ==
    LET p == proc[w] IN
    /\ At(w, "finish")
    /\ \/ /\ finish_image_cache_detach_attempt(p.path, p.generation, p.device,
                                               p.identity, p.requested)
          /\ Go(w, IF p.accepted /\ ~p.released THEN "wait" ELSE "rmdir")
       \/ /\ \A k \in find_attachment_record(p.path, p.generation, p.device) :
               \/ ~g_image_cache[k].detach_attempt_active
               \/ g_image_cache[k].identity # p.identity
          /\ proc' = [proc EXCEPT ![w].pc = "rmdir", ![w].released = FALSE]
          /\ UNCHANGED tableVars
    /\ UNCHANGED <<kernelVars, lock, starts, sleepVars, protected, leaked>>

(* wait_for_attached_unit_release. *)
WaitRelease(w) ==
    /\ At(w, "wait")
    /\ \/ /\ detach_target_is_released_or_reused(w) \/ MountTableFails
          /\ proc' = [proc EXCEPT ![w].pc = "rmdir", ![w].released = TRUE]
       \/ ~detach_target_is_released_or_reused(w) /\ Go(w, "rmdir")
    /\ UNCHANGED <<tableVars, kernelVars, lock, starts, sleepVars, protected, leaked>>

(* Mutant: the record is dropped though the device is still attached. *)
RemoveWithoutRelease(w) ==
    /\ At(w, "rmdir")
    /\ \/ ~is_active_image_mount_point(w) /\ Go(w, "invalidate") /\ UNCHANGED lock
       \/ End(w, FALSE)
    /\ UNCHANGED <<tableVars, kernelVars, starts, sleepVars, protected, leaked>>

(* The mount directory goes last; only a complete release drops the record. *)
RemoveDirectory(w) ==
    /\ At(w, "rmdir")
    /\ \/ /\ ~is_active_image_mount_point(w)
          /\ proc[w].released
          /\ Go(w, "invalidate") /\ UNCHANGED lock
       \/ End(w, FALSE)
    /\ UNCHANGED <<tableVars, kernelVars, starts, sleepVars, protected, leaked>>

(* invalidate_matching_image_cache_entry: the record must still be the one *)
(* copied before the release.                                              *)
Invalidate(w) ==
    LET old == proc[w].entry
        cur == g_image_cache[proc[w].slot]
        matches == /\ cur.generation = old.generation /\ cur.path = old.path
                   /\ cur.mount_point = old.mount_point /\ cur.device = old.device
                   /\ old.identity \in {0, cur.identity}
        done == /\ matches
                /\ invalidate_image_cache_entry(proc[w].slot,
                                                copy_cache_entry(proc[w].slot))
    IN
    /\ At(w, "invalidate")
    /\ \/ done /\ End(w, TRUE)
       \/ /\ ~matches \/ ~cur.valid \/ cur.detach_attempt_active \/ cur.identity = 0
          /\ End(w, proc[w].expected = 0)
          /\ UNCHANGED tableVars
    /\ UNCHANGED <<kernelVars, starts, sleepVars, protected, leaked>>

-----------------------------------------------------------------------------
(* Who releases images. *)

(* A title stops needing an image: the ShellCore service and the API. *)
ReleaseMount(w) ==
    /\ w \in Releasers
    /\ At(w, "idle")
    /\ lock = NoWorker
    /\ lock' = w
    /\ \E path \in Paths :
         proc' = [proc EXCEPT ![w].pc = "release", ![w].path = path]
    /\ UNCHANGED <<tableVars, kernelVars, starts, sleepVars, protected, leaked>>

(* One record of cleanup_stale_image_mounts: a pending detach is retried,  *)
(* the image of a removed source unmounted, a lost or unreadable mount     *)
(* released and mounted again.                                             *)
CleanupStale(w) ==
    /\ w \in Mounters
    /\ At(w, "idle")
    /\ \E k \in Slots :
         /\ g_image_cache[k].valid
         /\ g_image_cache[k].device # NoDevice
         /\ g_image_cache[k].state # "ATTACHING"
         /\ g_image_cache[k].path \notin protected
         /\ \/ CallUnmount(w, k, "idle") /\ UNCHANGED starts
            \/ /\ g_image_cache[k].state = "MOUNTED"
               /\ starts < MaxMounts
               /\ starts' = starts + 1
               /\ proc' = [proc EXCEPT ![w].pc = "release",
                             ![w].path = g_image_cache[k].path,
                             ![w].expected = g_image_cache[k].generation,
                             ![w].ret = "cached"]
    /\ UNCHANGED <<tableVars, kernelVars, lock, sleepVars, protected, leaked>>

(* unmount_usb_image_mounts_for_suspend, run once by the lifecycle watcher *)
(* when the console sleeps.                                                *)
StartSuspend(w) ==
    /\ w \in Releasers
    /\ At(w, "idle")
    /\ sleeping /\ cleanup = "no"
    /\ lock = NoWorker
    /\ lock' = w
    /\ cleanup' = "running"
    /\ Go(w, "sweep")
    /\ UNCHANGED <<tableVars, kernelVars, starts, sleeping, spared, protected, leaked>>

SweepUsb(w) ==
    LET k == proc[w].sweep IN
    /\ At(w, "sweep")
    /\ \/ /\ k \notin Slots
          /\ cleanup' = IF cleanup = "running" THEN "done" ELSE cleanup
          /\ proc' = [proc EXCEPT ![w] = Idle]
          /\ lock' = NoWorker
       \/ /\ k \in Slots
          /\ IF /\ g_image_cache[k].valid
                /\ g_image_cache[k].path \in UsbPaths
                /\ g_image_cache[k].state # "ATTACHING"
                /\ g_image_cache[k].device # NoDevice
             THEN proc' = [proc EXCEPT ![w] =
                             [@ EXCEPT !.pc = "mark", !.path = g_image_cache[k].path,
                                       !.slot = k, !.entry = copy_cache_entry(k),
                                       !.ret = "sweep", !.sweep = k + 1]]
             ELSE proc' = [proc EXCEPT ![w].sweep = k + 1]
          /\ UNCHANGED <<cleanup, lock>>
    /\ UNCHANGED <<tableVars, kernelVars, starts, sleeping, spared, protected, leaked>>

-----------------------------------------------------------------------------
(* The environment: the kernel publishes nodes, completes accepted         *)
(* detaches and drops mounts; the console sleeps and wakes; titles start   *)
(* and stop protecting their images.                                       *)

NodeAppears ==
    /\ \E device \in Devices \ detaching :
         /\ unit[device] # node[device]
         /\ node' = [node EXCEPT ![device] = unit[device]]
    /\ UNCHANGED <<tableVars, unit, detaching, mounted, attaches, proc, lock, starts,
                   sleepVars, protected, leaked>>

DetachCompletes ==
    /\ \E device \in detaching :
         /\ detaching' = detaching \ {device}
         /\ unit' = [unit EXCEPT ![device] = 0]
         /\ node' = [node EXCEPT ![device] = 0]
    /\ UNCHANGED <<tableVars, mounted, attaches, proc, lock, starts, sleepVars,
                   protected, leaked>>

MountLost ==
    /\ \E m \in MountPoints :
         mounted[m] # <<>> /\ mounted' = [mounted EXCEPT ![m] = <<>>]
    /\ UNCHANGED <<tableVars, node, unit, detaching, attaches, proc, lock, starts,
                   sleepVars, protected, leaked>>

(* request_runtime_sleep_mode. *)
SleepModeChanges ==
    /\ ConsoleSleeps
    /\ sleeping' = ~sleeping
    /\ cleanup' = "no"
    /\ spared' = {}
    /\ UNCHANGED <<tableVars, kernelVars, proc, lock, starts, protected, leaked>>

ProtectionChanges ==
    /\ \E path \in TitlePaths :
         protected' = IF path \in protected THEN protected \ {path}
                      ELSE protected \cup {path}
    /\ UNCHANGED <<tableVars, kernelVars, proc, lock, starts, sleepVars, leaked>>

-----------------------------------------------------------------------------
MountInit ==
    /\ g_image_cache = [k \in Slots |-> Wiped]
    /\ g_image_cache_generation = 0
    /\ mounted = Leftover
    /\ unit = [d \in Devices |-> IF device_node_is_mounted(d) THEN 1 ELSE 0]
    /\ node = unit
    /\ attaches = 1
    /\ detaching = {} /\ leaked = {}
    /\ proc = [w \in Workers |-> Idle]
    /\ lock = NoWorker
    /\ starts = 0
    /\ sleeping = FALSE /\ cleanup = "no" /\ spared = {}
    /\ protected = {}

MountStep(w) ==
    \/ HandleCached(w) \/ ReuseExisting(w) \/ AdoptMount(w) \/ BeginAttachment(w)
    \/ AttachDevice(w) \/ PublishAttachment(w) \/ RollbackUnit(w) \/ WaitForNode(w)
    \/ PerformNmount(w) \/ ValidateMount(w) \/ CompleteAttachment(w)

ReleaseStep(w) ==
    \/ ReleaseImage(w) \/ MarkDetach(w) \/ UnmountLayers(w) \/ ClaimDetach(w)
    \/ PrepareDetach(w) \/ DetachIoctl(w) \/ FailedDetach(w) \/ FinishDetach(w)
    \/ WaitRelease(w) \/ RemoveDirectory(w) \/ Invalidate(w) \/ SweepUsb(w)

MountNext ==
    \/ \E w \in Workers :
         \/ MountImage(w) \/ CleanupStale(w) \/ ReleaseMount(w) \/ StartSuspend(w)
         \/ MountStep(w) \/ ReleaseStep(w)
    \/ NodeAppears \/ DetachCompletes \/ MountLost
    \/ SleepModeChanges \/ ProtectionChanges

MountSpec == MountInit /\ [][MountNext]_mountVars

(* Threads are scheduled, and a thread that waits for the mutex of the     *)
(* mount state gets it when it keeps being released.                       *)
MountFairness ==
    \A w \in Workers :
      /\ WF_mountVars(MountStep(w) \/ ReleaseStep(w))
      /\ SF_mountVars(BeginAttachment(w) \/ CompleteAttachment(w))

MountFairSpec == MountSpec /\ MountFairness

-----------------------------------------------------------------------------
(* Properties. *)

Returns == {"idle", "cached", "reuse", "begin", "sweep"}

UnmountPcs == {"unmount", "claim", "prepare", "ioctl", "failed", "finish",
               "wait", "rmdir", "invalidate"}

DevicePcs == {"adopt", "publish", "rollback", "node", "nmount", "validate",
              "complete"} \cup UnmountPcs

Activity ==
    [pc : Returns \cup DevicePcs \cup {"attach", "release", "mark"},
     path : Paths \cup {NoPath}, device : Devices \cup {NoDevice},
     generation : Nat, expected : Nat, slot : Nat, entry : ImageCacheEntry,
     identity : Nat, requested : BOOLEAN, accepted : BOOLEAN,
     released : BOOLEAN, ret : Returns, sweep : Nat]

HasArguments(p) ==
    /\ p.pc \notin {"idle", "sweep"} => p.path \in Paths
    /\ p.pc \in DevicePcs => p.device \in Devices
    /\ p.pc = "mark" => p.entry.device \in Devices
    /\ p.pc \in {"mark"} \cup UnmountPcs => p.slot \in Slots

(* Values have their types, a worker past its arguments works on a real    *)
(* path, one past its attach or its lookup on a real device and, in a      *)
(* release, on a slot of the table, and no call returns with the mount     *)
(* state lock held.                                                        *)
MountTypeOK ==
    /\ CacheTypeOK
    /\ unit \in [Devices -> Nat] /\ attaches \in Nat
    /\ detaching \subseteq Devices /\ leaked \subseteq Devices
    /\ mounted \in [MountPoints -> Seq(Devices)]
    /\ proc \in [Workers -> Activity]
    /\ \A w \in Workers : HasArguments(proc[w])
    /\ lock \in {w \in Workers : proc[w].pc # "idle"} \cup {NoWorker}
    /\ spared \subseteq Paths /\ protected \subseteq Paths

(* Where a worker has claimed a detach attempt. *)
ClaimPcs == {"prepare", "ioctl", "failed", "finish"}

HoldsClaim(p, entry) ==
    /\ p.pc \in ClaimPcs
    /\ p.path = entry.path
    /\ p.generation = entry.generation
    /\ p.identity = entry.identity
    /\ p.device = entry.device

(* No unit is forgotten: a unit this program attached is named by a record *)
(* of the table, is in the hands of the mount that is about to record it,  *)
(* or is one whose rollback failed before it was ever recorded.  "Keep a   *)
(* device in the detach-retry queue until its node is released"            *)
(* (sm_image_cache.h).                                                     *)
NoForgottenUnit ==
    \A d \in Devices : unit[d] > 1 =>
      \/ d \in leaked
      \/ \E k \in Slots : /\ g_image_cache[k].valid
                          /\ g_image_cache[k].device = d
                          /\ g_image_cache[k].identity \in {0, unit[d]}
      \/ \E w \in Workers : proc[w].pc \in {"publish", "rollback"} /\ proc[w].device = d

(* A claimed detach attempt is always in the hands of exactly one worker,  *)
(* which will finish it: no record is left claimed for ever by             *)
(* detach_cached_image_device, which would block every later detach, and   *)
(* no two workers carry out a detach of the same attachment.               *)
ClaimIsHeld ==
    /\ \A k \in Slots : g_image_cache[k].detach_attempt_active =>
         \E w \in Workers : HoldsClaim(proc[w], g_image_cache[k])
    /\ \A v, w \in Workers :
         (v # w /\ proc[v].pc \in ClaimPcs /\ proc[w].pc \in ClaimPcs) =>
           proc[v].generation # proc[w].generation

(* The detach ioctl names a unit by number only.  Whenever it is issued,   *)
(* that number still means the attachment the worker claimed, no detach of *)
(* it was accepted before and no filesystem lies on it: neither a unit     *)
(* that another image has got in the meantime nor a unit in use is ever    *)
(* detached.                                                               *)
DetachHitsOwnUnit ==
    \A w \in Workers : proc[w].pc = "ioctl" =>
      /\ unit[proc[w].device] = proc[w].identity
      /\ proc[w].device \notin detaching
      /\ ~device_node_is_mounted(proc[w].device)

(* From its reservation to its commit a mount owns its record: nobody else *)
(* cancels, adopts, completes or detaches an attachment in progress, so    *)
(* the publish and the commit fail only when the console sleeps.           *)
MountOwnsRecord ==
    \A w \in Workers :
      proc[w].pc \in {"attach", "publish", "node", "nmount", "validate", "complete"} =>
        \E k \in PathOwners(proc[w].path) :
          /\ g_image_cache[k].generation = proc[w].generation
          /\ g_image_cache[k].state = "ATTACHING"
          /\ g_image_cache[k].device =
               IF proc[w].pc \in {"attach", "publish"} THEN NoDevice ELSE proc[w].device

(* Once the USB cleanup of a sleep is over and no call is in progress, no  *)
(* USB image is recorded as mounted, unless a running title protected it:  *)
(* a mount that raced the cleanup was either seen by it or saw the sleep   *)
(* mode itself before its commit.  A mount of an earlier run (attachment   *)
(* 1) is excepted: the cleanup goes by the records, and                    *)
(* reuse_existing_image_mount records it without a look at the sleep mode. *)
UsbReleasedInSleep ==
    (sleeping /\ cleanup = "done" /\ \A w \in Workers : proc[w].pc = "idle") =>
      \A k \in Slots :
        /\ g_image_cache[k].valid
        /\ g_image_cache[k].path \in UsbPaths \ spared
        /\ g_image_cache[k].identity # 1
        => g_image_cache[k].state # "MOUNTED"

(* Every call returns: neither the waits for device nodes nor the retries  *)
(* and releases that mount_image and the sweeps start from one another go  *)
(* on for ever, and no worker waits for ever for the mount state lock.     *)
CallsReturn == \A w \in Workers : proc[w].pc # "idle" ~> proc[w].pc = "idle"

=============================================================================
