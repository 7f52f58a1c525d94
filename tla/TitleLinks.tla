----------------------------- MODULE TitleLinks -----------------------------
(***************************************************************************)
(* The link files and the mount stack of one title (sm_filesystem.c, and   *)
(* the parts of sm_install.c, sm_scan.c and sm_shellcore_service.c that    *)
(* drive them).  mount.lnk names the title's source, mount.lnk.cleanup is  *)
(* the link while a cleanup runs, mount_img.lnk the image behind a source  *)
(* that lies on a mounted image.  The stack on /system_ex/app/<title> is a *)
(* nullfs layer of the source, perhaps a unionfs backport above it.        *)
(*                                                                         *)
(* The link files survive a crash; the kernel's mounts survive the death   *)
(* of the process and not a reboot.  An image source and its image file    *)
(* are the same value.  Unlinking an existing link file succeeds; renames  *)
(* and writes may fail.                                                    *)
(***************************************************************************)
EXTENDS Naturals, Sequences, SequencesExt

CONSTANTS FolderSources,   \* game directories outside the image mount base
          ImageSources,    \* game directories on a mounted image
          UsbSources,      \* the sources that lie on USB storage
          MaxLayers,       \* bound of the modelled stack
          MaxFaults        \* bound on crashes and on comings and goings

VARIABLES link,       \* [mount, staged, image]: the three files
          stack,      \* layers, the lowest first
          world,      \* [here, files, backport, protected, asleep, faults]
          scan,       \* the scanner thread inside an operation
          runtime,    \* the source the ShellCore service read from mount.lnk
          up          \* "down", "starting" or "running"

linkVars == <<link, stack, world, scan, runtime, up>>

NoSource == "no source"
LinkSources == FolderSources \cup ImageSources
Idle == [at |-> "idle", src |-> NoSource]
Layer(fs, from) == [fs |-> fs, from |-> from]
Backport == Layer("unionfs", "backport")

Running == up = "running"
\* Whoever holds the runtime mount lock is inside one of these steps.
LockFree == scan.at \in {"idle", "track"}
Recorded == {link.mount, link.staged} \ {NoSource}
NullfsOf(stk) == {stk[i].from : i \in {j \in DOMAIN stk : stk[j].fs = "nullfs"}}

----------------------------------------------------------------------------
(* The stack. *)

inspect_title_stack(stk, s) ==
  LET top == IF stk = <<>> THEN Layer("none", NoSource) ELSE Last(stk)
  IN [mounted |-> stk # <<>>,
      has_our_nullfs |-> s \in NullfsOf(stk),
      top_is_our_nullfs |-> top = Layer("nullfs", s),
      top_is_backport |-> top = Backport,
      our_nullfs_count |-> Len(SelectSeq(stk, LAMBDA l : l = Layer("nullfs", s))),
      our_backport_count |-> Len(SelectSeq(stk, LAMBDA l : l = Backport))]

title_stack_top_is_managed(st) == st.top_is_our_nullfs \/ st.top_is_backport

\* Layers come off from the top until one is busy.
unmount_controlled_mount_stack(stk) ==
  {[ok |-> n = 0, stk |-> SubSeq(stk, 1, n)] : n \in 0..Len(stk)}

unmount_top_controlled_layer(stk) ==
  {[ok |-> FALSE, stk |-> stk], [ok |-> TRUE, stk |-> Front(stk)]}

rollback_title_nullfs_mount(stk, s) ==
  IF inspect_title_stack(stk, s).top_is_our_nullfs
  THEN unmount_top_controlled_layer(stk)
  ELSE {[ok |-> FALSE, stk |-> stk]}

\* A running call may see the sleep flag rise after its nmount.
mount_title_nullfs(stk, s) ==
  LET st == inspect_title_stack(stk, s)
      reset == IF st.mounted THEN unmount_controlled_mount_stack(stk)
               ELSE {[ok |-> TRUE, stk |-> stk]}
      new == Append(<<>>, Layer("nullfs", s))
  IN IF s \notin world.here THEN {[ok |-> FALSE, stk |-> stk]}
     ELSE IF st.has_our_nullfs /\ title_stack_top_is_managed(st)
          THEN {[ok |-> TRUE, stk |-> stk]}
     ELSE {r \in reset : ~r.ok} \cup {[ok |-> FALSE, stk |-> <<>>]}
          \cup (IF world.asleep THEN {}
                ELSE {[ok |-> TRUE, stk |-> new], [ok |-> FALSE, stk |-> new]})

reconcile_title_backport_mount(stk, s) ==
  LET st == inspect_title_stack(stk, s)
  IN IF ~st.has_our_nullfs THEN {[ok |-> FALSE, active |-> FALSE, stk |-> stk]}
     ELSE IF st.top_is_our_nullfs
          THEN {[ok |-> world.backport, active |-> FALSE, stk |-> stk]}
     ELSE IF ~st.top_is_backport THEN {[ok |-> FALSE, active |-> FALSE, stk |-> stk]}
     ELSE IF world.backport THEN {[ok |-> TRUE, active |-> TRUE, stk |-> stk]}
     ELSE {[ok |-> FALSE, active |-> FALSE, stk |-> r.stk] :
             r \in unmount_top_controlled_layer(stk)}

\* No backport directory resolves: the title runs without one.  A blocked or
\* unstable backport, or a failing nmount, makes the call fail.
mount_backport_overlay_for_title(stk, s) ==
  IF ~world.backport THEN {[ok |-> ~world.asleep, stk |-> stk]}
  ELSE IF world.asleep THEN {[ok |-> FALSE, stk |-> stk]}
  ELSE {[ok |-> FALSE, stk |-> stk]} \cup
       UNION {IF r.ok /\ ~r.active
              THEN {[ok |-> TRUE, stk |-> Append(r.stk, Backport)],
                    [ok |-> FALSE, stk |-> r.stk]}
              ELSE {[ok |-> r.ok, stk |-> r.stk]}
              : r \in reconcile_title_backport_mount(stk, s)}

unmount_title_runtime_layers(stk) ==
  IF world.protected THEN {[ok |-> FALSE, stk |-> stk]}
  ELSE unmount_controlled_mount_stack(stk)

----------------------------------------------------------------------------
(* Start-up, after a crash or an orderly stop. *)

\* A staged link without a link is an interrupted cleanup: it is put back.
StagedRestored ==
  IF link.staged = NoSource THEN {link}
  ELSE IF link.mount # NoSource THEN {[link EXCEPT !.staged = NoSource]}
  ELSE {[link EXCEPT !.mount = link.staged, !.staged = NoSource], link}

cleanup_staged_mount_links ==
  /\ up = "down" /\ up' = "starting"
  /\ \E l \in StagedRestored :
       link' = IF l.staged # NoSource \/ l.mount \in ImageSources THEN l
               ELSE [l EXCEPT !.image = NoSource]
  /\ UNCHANGED <<stack, world, scan, runtime>>

cleanup_duplicate_title_mounts ==
  /\ up = "starting" /\ up' = "running"
  /\ LET st == inspect_title_stack(stack, link.mount)
     IN IF /\ link.mount # NoSource /\ st.has_our_nullfs
           /\ st.our_nullfs_count > 1 \/ st.our_backport_count > 1
           /\ title_stack_top_is_managed(st)
        THEN \E r \in unmount_controlled_mount_stack(stack) : stack' = r.stk
        ELSE UNCHANGED stack
  /\ UNCHANGED <<link, world, scan, runtime>>

----------------------------------------------------------------------------
(* Cleanup of stale links: one title's visit, under the mount lock. *)

\* An image mount point is absent outside install and launch.
source_path_needs_cleanup(s) ==
  IF s \in ImageSources /\ s \in world.files /\ s \notin world.here THEN FALSE
  ELSE s \notin world.here

HasImageSource == link.mount \in ImageSources /\ link.image # NoSource

ShouldRemove ==
  \/ HasImageSource /\ link.image \notin world.files
  \/ source_path_needs_cleanup(link.mount)

Stage(st) ==
  \/ /\ st.has_our_nullfs /\ title_stack_top_is_managed(st)
     /\ link' = [link EXCEPT !.staged = link.mount, !.mount = NoSource]
     /\ scan' = [at |-> "unstack", src |-> link.mount]
  \/ /\ ~st.has_our_nullfs
     /\ link' = [link EXCEPT !.mount = NoSource]
     /\ scan' = [at |-> "unimage", src |-> link.mount]

\* forced: the image or storage below the source is about to be unmounted.
cleanup_mount_links_entry(forced) ==
  /\ Running /\ scan = Idle /\ ~world.protected
  /\ link.mount # NoSource
  /\ forced \/ ShouldRemove
  /\ Stage(inspect_title_stack(stack, link.mount))
  /\ UNCHANGED <<stack, world, runtime, up>>

UnlinksWhenBusy ==
  /\ Running /\ scan.at = "unstack"
  /\ \E r \in unmount_controlled_mount_stack(stack) :
       stack' = r.stk /\ scan' = [scan EXCEPT !.at = "unlink"]
  /\ UNCHANGED <<link, world, runtime, up>>

UnstackTitle ==
  /\ Running /\ scan.at = "unstack"
  /\ \E r \in unmount_controlled_mount_stack(stack) :
       /\ stack' = r.stk
       /\ scan' = [scan EXCEPT !.at = IF r.ok THEN "unlink" ELSE "restore"]
  /\ UNCHANGED <<link, world, runtime, up>>

UnlinkStaged ==
  /\ Running /\ scan.at = "unlink"
  /\ link' = [link EXCEPT !.staged = NoSource]
  /\ scan' = [scan EXCEPT !.at = "unimage"]
  /\ UNCHANGED <<stack, world, runtime, up>>

UnlinkImage ==
  /\ Running /\ scan.at = "unimage"
  /\ link' = [link EXCEPT !.image = NoSource]
  /\ scan' = Idle
  /\ UNCHANGED <<stack, world, runtime, up>>

RestoreStaged ==
  /\ Running /\ scan.at = "restore"
  /\ scan' = Idle
  /\ \/ link' = [link EXCEPT !.mount = link.staged, !.staged = NoSource]
     \/ UNCHANGED link
  /\ UNCHANGED <<stack, world, runtime, up>>

\* Before sleep the USB stacks go and their links stay.
cleanup_usb_mount_links_for_suspend ==
  /\ Running /\ LockFree /\ world.asleep /\ ~world.protected
  /\ link.mount \in UsbSources \/ (HasImageSource /\ link.image \in UsbSources)
  /\ LET st == inspect_title_stack(stack, link.mount)
     IN st.has_our_nullfs /\ title_stack_top_is_managed(st)
  /\ \E r \in unmount_controlled_mount_stack(stack) : stack' = r.stk
  /\ UNCHANGED <<link, world, scan, runtime, up>>

----------------------------------------------------------------------------
(* Install: the mount is made outside the lock, the links written inside. *)

MountForInstall(s) ==
  /\ Running /\ scan = Idle /\ ~world.asleep /\ ~world.protected
  /\ s \in world.here
  /\ \E r \in mount_title_nullfs(stack, s) :
       /\ stack' = r.stk
       /\ scan' = IF r.ok THEN [at |-> "track", src |-> s] ELSE Idle
  /\ UNCHANGED <<link, world, runtime, up>>

RollBack(s) ==
  /\ \E r \in rollback_title_nullfs_mount(stack, s) : stack' = r.stk
  /\ scan' = Idle

write_mount_link ==
  /\ Running /\ scan.at = "track"
  /\ \/ ~world.asleep /\ link' = [link EXCEPT !.mount = scan.src]
        /\ scan' = [scan EXCEPT !.at = "image"] /\ UNCHANGED stack
     \/ UNCHANGED link /\ RollBack(scan.src)
  /\ UNCHANGED <<world, runtime, up>>

\* The mapping of an image source to its image may be missing from the cache.
write_mount_image_chain ==
  /\ Running /\ scan.at = "image"
  /\ \/ scan.src \in ImageSources /\ link' = [link EXCEPT !.image = scan.src]
        /\ scan' = Idle /\ UNCHANGED stack
     \/ scan.src \in ImageSources /\ link' = [link EXCEPT !.mount = NoSource]
        /\ RollBack(scan.src)
     \/ link' = [link EXCEPT !.image = NoSource]
        /\ scan' = Idle /\ UNCHANGED stack
  /\ UNCHANGED <<world, runtime, up>>

----------------------------------------------------------------------------
(* Launch and release by the ShellCore service. *)

ReadLinkForLaunch ==
  /\ Running /\ ~world.asleep /\ link.mount # NoSource /\ runtime = NoSource
  /\ runtime' = link.mount
  /\ UNCHANGED <<link, stack, world, scan, up>>

PrepareOutcomes(s) ==
  UNION {IF ~m.ok THEN {m}
         ELSE UNION {IF o.ok THEN {o} ELSE unmount_title_runtime_layers(o.stk)
                     : o \in mount_backport_overlay_for_title(m.stk, s)}
         : m \in mount_title_nullfs(stack, s)}

prepare_title_runtime ==
  /\ Running /\ LockFree /\ runtime # NoSource
  /\ runtime' = NoSource
  /\ IF world.asleep THEN UNCHANGED stack
     ELSE \E r \in PrepareOutcomes(runtime) :
            Len(r.stk) <= MaxLayers /\ stack' = r.stk
  /\ UNCHANGED <<link, world, scan, up>>

\* Exit of the game, or the scanner's sweep over all titles.
ReleaseTitle ==
  /\ Running /\ LockFree /\ stack # <<>>
  /\ \E r \in unmount_title_runtime_layers(stack) : stack' = r.stk /\ r.stk # stack
  /\ UNCHANGED <<link, world, scan, runtime, up>>

shutdown_title_mounts ==
  /\ Running /\ scan = Idle /\ runtime = NoSource
  /\ up' = "down"
  /\ LET st == inspect_title_stack(stack, link.mount)
     IN IF link.mount # NoSource /\ st.has_our_nullfs /\ title_stack_top_is_managed(st)
        THEN \E r \in unmount_controlled_mount_stack(stack) : stack' = r.stk
        ELSE UNCHANGED stack
  /\ UNCHANGED <<link, world, scan, runtime>>

----------------------------------------------------------------------------
(* The environment. *)

Crash(reboot) ==
  /\ up # "down" /\ world.faults < MaxFaults
  /\ up' = "down" /\ scan' = Idle /\ runtime' = NoSource
  /\ stack' = IF reboot THEN <<>> ELSE stack
  /\ world' = [world EXCEPT !.faults = @ + 1, !.protected = FALSE, !.asleep = FALSE]
  /\ UNCHANGED link

SourceMoves(s) ==
  /\ world.faults < MaxFaults
  /\ \/ /\ s \in ImageSources /\ s \in world.files
        /\ world' = [world EXCEPT !.faults = @ + 1, !.files = @ \ {s}, !.here = @ \ {s}]
     \/ /\ s \in world.here
        /\ world' = [world EXCEPT !.faults = @ + 1, !.here = @ \ {s}]
     \/ /\ s \notin world.here
        /\ world' = [world EXCEPT !.faults = @ + 1, !.here = @ \cup {s},
                                  !.files = @ \cup ({s} \cap ImageSources)]
  /\ UNCHANGED <<link, stack, scan, runtime, up>>

ServiceChanges ==
  /\ Running
  /\ \/ world' = [world EXCEPT !.protected = ~@]
     \/ world' = [world EXCEPT !.asleep = ~@]
     \/ world.faults < MaxFaults
        /\ world' = [world EXCEPT !.backport = ~@, !.faults = @ + 1]
  /\ UNCHANGED <<link, stack, scan, runtime, up>>

TitleInit ==
  /\ link = [mount |-> NoSource, staged |-> NoSource, image |-> NoSource]
  /\ stack = <<>>
  /\ world = [here |-> LinkSources, files |-> ImageSources, backport |-> FALSE,
              protected |-> FALSE, asleep |-> FALSE, faults |-> 0]
  /\ scan = Idle /\ runtime = NoSource /\ up = "down"

TitleNext ==
  \/ cleanup_staged_mount_links \/ cleanup_duplicate_title_mounts
  \/ \E forced \in BOOLEAN : cleanup_mount_links_entry(forced)
  \/ UnstackTitle \/ UnlinkStaged \/ UnlinkImage \/ RestoreStaged
  \/ cleanup_usb_mount_links_for_suspend
  \/ \E s \in LinkSources : MountForInstall(s)
  \/ write_mount_link \/ write_mount_image_chain
  \/ ReadLinkForLaunch \/ prepare_title_runtime \/ ReleaseTitle
  \/ shutdown_title_mounts
  \/ \E reboot \in BOOLEAN : Crash(reboot)
  \/ \E s \in LinkSources : SourceMoves(s)
  \/ ServiceChanges

TitleSpec == TitleInit /\ [][TitleNext]_linkVars

----------------------------------------------------------------------------
\* Cleanup never forgets a title whose source is still mounted: the step that
\* removes the last record of a source (mount.lnk or its staged copy) leaves
\* no nullfs layer of it behind, whichever unmount was busy and wherever the
\* process died.  (cleanup_mount_links_entry stages the link, unmounts, and
\* unlinks or restores; cleanup_staged_mount_links finishes what a crash cut.)
LinkOutlivesStackStep ==
  \A s \in LinkSources :
    (s \in Recorded /\ Recorded' = {} /\ scan.at # "image") => s \notin NullfsOf(stack')
=============================================================================
