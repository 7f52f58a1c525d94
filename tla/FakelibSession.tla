--------------------------- MODULE FakelibSession ---------------------------
(***************************************************************************)
(* The mounts one game's sandbox gets from sm_fakelib.c: a library overlay    *)
(* and aliases of storage volumes, recorded as the layers of one session.     *)
(* The service thread (before the process exists), the lifecycle watcher      *)
(* (exec, exit, sleep, retries) and the scanner (USB changes) call in; each   *)
(* handler runs under g_fakelib_mutex, so it is one step.  Mounts and         *)
(* unmounts may fail, and the console mounts over or removes what it likes.   *)
(***************************************************************************)
EXTENDS Naturals, SequencesExt

CONSTANTS SandboxTitles, GamePids, Volumes,
          OthersMount    \* bound: the sandboxes in which another producer mounts

VARIABLES
  session,     \* g_fakelib_mount: [pid, title, layers, ready, retry]
  kernel,      \* mounts at <<title, root>>, bottom first
  volume,      \* the volume mounted at the USB root, or 0
  requests,    \* titles whose sandbox-ready request passed the service's sleep check
  live,        \* game processes: pid -> title or "none"
  mode         \* [sleep, released, stop]: released: the USB aliases were reported released

sessionVars == <<session, kernel, volume, requests, live, mode>>

(* An owned layer has its mount on its path; "dir" is a created parent.       *)
Roots == {"lib", "data", "usb"}
NoSession == [pid |-> 0, title |-> "none", layers |-> <<>>, ready |-> FALSE,
              retry |-> FALSE]
fakelib_session_active == session.layers # <<>>
Awake == ~mode.sleep /\ ~mode.stop

SessionInit ==
  /\ session = NoSession
  /\ kernel = [at \in SandboxTitles \X Roots |-> IF at[2] = "lib" THEN <<"native">> ELSE <<>>]
  /\ volume \in {0} \cup Volumes
  /\ requests = {} /\ live = [p \in GamePids |-> "none"]
  /\ mode = [sleep |-> FALSE, released |-> FALSE, stop |-> FALSE]

Top(k, at) == IF k[at] = <<>> THEN "none" ELSE Last(k[at])
sandbox_mount_identity_present(k, at) == "ours" \in Range(k[at])
IsMount(layer) == layer.root # "dir"
At(title, layer) == <<title, layer.root>>

(* unmount_sandbox_layer, unmount_unreachable_sandbox_layer: a layer that is  *)
(* covered by a newer mount stays, as does one the kernel reports busy; a     *)
(* mount that is gone, or was never ours, needs nothing.                      *)
MustStay(k, title, layer) ==
  /\ IsMount(layer) /\ layer.owned
  /\ sandbox_mount_identity_present(k, At(title, layer))
  /\ Top(k, At(title, layer)) # "ours"
MayStay(k, title, layer) ==
  IsMount(layer) /\ layer.owned /\ sandbox_mount_identity_present(k, At(title, layer))

Unmounted(k, title, layers) ==
  [at \in DOMAIN k |->
     IF \E layer \in layers : IsMount(layer) /\ layer.owned /\ At(title, layer) = at
     THEN SelectSeq(k[at], LAMBDA m : m # "ours") ELSE k[at]]

(* cleanup_fakelib_mount: `stuck` layers stay recorded, and so does a created *)
(* parent whose child stays; an emptied session is wiped.                     *)
CleanupResults(s, k) ==
  LET layers == Range(s.layers)
      results(stuck) ==
        LET stays(layer) == layer \in stuck \/ (layer.root = "dir" /\ \E l \in stuck : l.root = "usb")
            rest == SelectSeq(s.layers, stays)
        IN  [session |-> IF rest = <<>> THEN NoSession
                         ELSE [s EXCEPT !.layers = rest, !.ready = FALSE],
             kernel |-> Unmounted(k, s.title, layers \ stuck)]
  IN  {results(stuck) : stuck \in {S \in SUBSET {l \in layers : MayStay(k, s.title, l)} :
                                     {l \in layers : MustStay(k, s.title, l)} \subseteq S}}

(* schedule_fakelib_cleanup: only a busy failure is retried, until a deadline. *)
Scheduled(s) ==
  IF ~Awake \/ s.layers = <<>> THEN {[s EXCEPT !.retry = FALSE]}
  ELSE {[s EXCEPT !.retry = FALSE], [s EXCEPT !.retry = TRUE]}

CleanupAndSchedule(s, k) ==
  \E r \in CleanupResults(s, k) : kernel' = r.kernel /\ session' \in Scheduled(r.session)

-----------------------------------------------------------------------------
(* Mounting.                                                                  *)

Layer(root, owned, vol) == [root |-> root, owned |-> owned, source |-> vol, detached |-> FALSE]

(* track_sandbox_layer, mount_sandbox_directory: the session and the mounts   *)
(* after one more layer; `ok` is the return value.  An existing alias of the  *)
(* same source is borrowed, any other occupant refused; the overlay covers    *)
(* the console's own library mount.  A mount whose identity cannot be read    *)
(* stays recorded.                                                            *)
Tracked(s, k, root, vol) ==
  LET at == <<s.title, root>>
      free == Top(k, at) = "none" \/ (root = "lib" /\ Top(k, at) = "native")
      mounted(ok) == [ok |-> ok, kernel |-> [k EXCEPT ![at] = Append(@, "ours")],
                      session |-> [s EXCEPT !.layers = Append(@, Layer(root, TRUE, vol))]]
      refused == [ok |-> FALSE, kernel |-> k, session |-> s]
  IN  IF free THEN {mounted(TRUE), mounted(FALSE), refused}
      ELSE IF Top(k, at) = "same"
           THEN {[ok |-> TRUE, kernel |-> k,
                  session |-> [s EXCEPT !.layers = Append(@, Layer(root, FALSE, vol))]]}
           ELSE {refused}

(* sync_sandbox_storage_root: an alias of the mounted volume is kept, one of  *)
(* another volume is unmounted or marked, then the current volume is mounted. *)
Synced(s, k) ==
  LET is(layer) == layer.root = "usb"
      old == {i \in DOMAIN s.layers : is(s.layers[i])}
      none(s2, k2) == [ok |-> TRUE, kernel |-> k2, session |-> s2]   \* unmounted, or just removed
      add(s2, k2) == {none(s2, k2)} \cup (IF volume = 0 THEN {} ELSE Tracked(s2, k2, "usb", volume))
  IN  IF old = {} THEN add(s, k)
      ELSE LET i == CHOOSE n \in old : TRUE
               layer == s.layers[i]
               marked == [s EXCEPT !.layers[i].detached = TRUE]
               failed == [ok |-> FALSE, kernel |-> k, session |-> marked]
               gone == add([s EXCEPT !.layers = RemoveAt(@, i)], Unmounted(k, s.title, {layer}))
           IN  IF volume # 0 /\ ~layer.detached /\ layer.source = volume
               THEN {[ok |-> TRUE, kernel |-> k, session |-> s]}
               ELSE IF ~layer.owned /\ volume # 0 THEN {failed}
               ELSE (IF MayStay(k, s.title, layer) THEN {failed} ELSE {})
                    \cup (IF MustStay(k, s.title, layer) THEN {} ELSE gone)

(* The mounts of a new session, in order: the overlay if there is a source,   *)
(* the created parent directory, /data, the storage roots.                    *)
MountResults(s, k) ==
  LET none(s2, k2) == [ok |-> TRUE, kernel |-> k2, session |-> s2]
      chain(rs, step(_)) == UNION {IF r.ok THEN step(r) ELSE {r} : r \in rs}
      parent(r) == {[r EXCEPT !.session.layers = Append(@, Layer("dir", FALSE, 0))], r,
                    [r EXCEPT !.ok = FALSE]}
      data(r) == Tracked(r.session, r.kernel, "data", 0)
      roots(r) == Synced(r.session, r.kernel)
  IN  chain(chain(chain({none(s, k)} \cup Tracked(s, k, "lib", 0), parent), data), roots)

Rebuild(s, pid, title) ==
  \E c \in CleanupResults(s, kernel) :
    IF c.session.layers # <<>> THEN session' = c.session /\ kernel' = c.kernel
    ELSE \E r \in MountResults([NoSession EXCEPT !.pid = pid, !.title = title], c.kernel) :
           IF r.ok THEN session' = [r.session EXCEPT !.ready = TRUE] /\ kernel' = r.kernel
           ELSE CleanupAndSchedule(r.session, r.kernel)

Taken(pid, title) ==
  IF pid # 0 /\ fakelib_session_active /\ session.title = title
  THEN [session EXCEPT !.pid = pid, !.retry = FALSE] ELSE session

(* A mutant: sleep is not rechecked under the lock. *)
MountWithoutRecheck(pid, title) == Rebuild(Taken(pid, title), pid, title)

(* mount_fakelib_for_game_locked: an exec takes over its title's layers, then *)
(* sleep and shutdown are rechecked under the lock; a ready session of the    *)
(* same sandbox is reused, any other is cleaned up and replaced.  The second  *)
(* alternative: no sandbox yet, or no usable library cache.                   *)
mount_fakelib_for_game_locked(pid, title) ==
  \/ session' = Taken(pid, title) /\ UNCHANGED kernel
  \/ /\ Awake
     /\ ~(session.ready /\ session.title = title)
     /\ Rebuild(Taken(pid, title), pid, title)

-----------------------------------------------------------------------------
(* The handlers.                                                              *)

(* The service checks for sleep before it asks for the sandbox's mounts.      *)
RequestSandbox(title) ==
  /\ Awake /\ requests = {}          \* one service thread
  /\ requests' = {title}
  /\ UNCHANGED <<session, kernel, volume, live, mode>>

sm_fakelib_game_on_sandbox_ready(title) ==
  /\ title \in requests
  /\ requests' = requests \ {title}
  /\ mount_fakelib_for_game_locked(0, title)
  /\ UNCHANGED <<volume, live, mode>>

sm_fakelib_game_on_launch_failed(title) ==
  /\ fakelib_session_active /\ session.pid = 0 /\ session.title = title
  /\ CleanupAndSchedule(session, kernel)
  /\ UNCHANGED <<volume, requests, live, mode>>

(* A process of the title starts and the watcher sees its exec. *)
sm_fakelib_game_on_exec(pid, title) ==
  /\ live[pid] = "none" /\ \A p \in GamePids : live[p] # title
  /\ live' = [live EXCEPT ![pid] = title]
  /\ mount_fakelib_for_game_locked(pid, title)
  /\ UNCHANGED <<volume, requests, mode>>

sm_fakelib_game_on_exit(pid) ==
  /\ live[pid] # "none"
  /\ live' = [live EXCEPT ![pid] = "none"]
  /\ IF fakelib_session_active /\ session.pid = pid
     THEN CleanupAndSchedule(session, kernel) ELSE UNCHANGED <<session, kernel>>
  /\ UNCHANGED <<volume, requests, mode>>

sm_fakelib_game_poll_cleanup ==
  /\ session.retry
  /\ IF Awake THEN CleanupAndSchedule(session, kernel)
     ELSE session' = [session EXCEPT !.retry = FALSE] /\ UNCHANGED kernel
  /\ UNCHANGED <<volume, requests, live, mode>>

(* sm_fakelib_game_set_usb_suspended(true): the owned aliases are unmounted;  *)
(* it fails if one stays, or if a retained session is not ready.              *)
SuspendUsb ==
  /\ mode.sleep /\ ~mode.stop
  /\ LET usb == {l \in Range(session.layers) : l.root = "usb" /\ l.owned}
     IN  \E stuck \in SUBSET {l \in usb : MayStay(kernel, session.title, l)} :
           /\ {l \in usb : MustStay(kernel, session.title, l)} \subseteq stuck
           /\ session' = [session EXCEPT !.layers = SelectSeq(@, LAMBDA l : l \notin usb \/ l \in stuck)]
           /\ kernel' = Unmounted(kernel, session.title, usb \ stuck)
           /\ mode' = [mode EXCEPT !.released =
                         stuck = {} /\ (session'.layers = <<>> \/ session.ready)]
  /\ UNCHANGED <<volume, requests, live>>

(* sm_fakelib_game_set_usb_suspended(false), sm_fakelib_game_refresh_storage  *)
(* and sm_fakelib_game_on_usb_mount_change: a ready session follows the       *)
(* volumes.                                                                   *)
SyncUsb ==
  /\ Awake /\ session.ready
  /\ \E r \in Synced(session, kernel) : session' = r.session /\ kernel' = r.kernel
  /\ UNCHANGED <<volume, requests, live, mode>>

(* A mutant: shutdown forgets what it could not unmount. *)
ShutdownForgets ==
  /\ mode.stop
  /\ \E r \in CleanupResults(session, kernel) : kernel' = r.kernel
  /\ session' = NoSession
  /\ UNCHANGED <<volume, requests, live, mode>>

sm_fakelib_game_shutdown ==
  /\ mode.stop
  /\ \E r \in CleanupResults(session, kernel) :
       /\ kernel' = r.kernel
       /\ session' = [r.session EXCEPT !.retry = FALSE]
  /\ UNCHANGED <<volume, requests, live, mode>>

-----------------------------------------------------------------------------
(* The console and the rest of the daemon.                                    *)

SleepChanges ==
  /\ ~mode.stop
  /\ mode' = [mode EXCEPT !.sleep = ~@, !.released = FALSE]
  /\ UNCHANGED <<session, kernel, volume, requests, live>>

StopRequested ==
  /\ ~mode.stop
  /\ mode' = [mode EXCEPT !.stop = TRUE]
  /\ UNCHANGED <<session, kernel, volume, requests, live>>

VolumeChanges ==
  /\ \E v \in {0} \cup Volumes : v # volume /\ volume' = v
  /\ UNCHANGED <<session, kernel, requests, live, mode>>

(* Another producer covers a path, or mounts the /data alias first. *)
ForeignMounts(at) ==
  /\ at[2] = "data" => kernel[at] = <<>>
  /\ \A here \in DOMAIN kernel : "other" \notin Range(kernel[here])   \* one at a time: bound
  /\ kernel' = [kernel EXCEPT ![at] =
                  IF at[2] = "data" /\ @ = <<>> THEN <<"same">> ELSE Append(@, "other")]
  /\ UNCHANGED <<session, volume, requests, live, mode>>

(* The console destroys the sandbox with everything mounted in it. *)
SandboxRemoved(title) ==
  /\ \A p \in GamePids : live[p] # title
  /\ kernel' = [at \in DOMAIN kernel |->
                  IF at[1] # title THEN kernel[at]
                  ELSE IF at[2] = "lib" THEN <<"native">> ELSE <<>>]
  /\ kernel' # kernel
  /\ UNCHANGED <<session, volume, requests, live, mode>>

SessionNext ==
  \/ \E t \in SandboxTitles :
       \/ RequestSandbox(t) \/ sm_fakelib_game_on_sandbox_ready(t)
       \/ sm_fakelib_game_on_launch_failed(t)
       \/ \E p \in GamePids : sm_fakelib_game_on_exec(p, t)
       \/ SandboxRemoved(t)
  \/ \E t \in OthersMount, root \in Roots : ForeignMounts(<<t, root>>)
  \/ \E p \in GamePids : sm_fakelib_game_on_exit(p)
  \/ sm_fakelib_game_poll_cleanup \/ SuspendUsb \/ SyncUsb
  \/ sm_fakelib_game_shutdown \/ SleepChanges \/ StopRequested \/ VolumeChanges

SessionSpec == SessionInit /\ [][SessionNext]_sessionVars

-----------------------------------------------------------------------------
(* Every mount the daemon made in a sandbox is an owned layer of the session, *)
(* so no failed cleanup, handover or shutdown loses a mount it still has.     *)
MountsAreRecorded ==
  \A at \in DOMAIN kernel :
    "ours" \in Range(kernel[at]) =>
      /\ session.title = at[1]
      /\ \E l \in Range(session.layers) : l.root = at[2] /\ l.owned

(* Once the watcher has been told that the USB aliases are released for sleep *)
(* (so that it lets the images on USB be unmounted), no handler that was      *)
(* waiting mounts one again before the console wakes.                         *)
AliasesStayReleased ==
  mode.released => \A t \in SandboxTitles : "ours" \notin Range(kernel[<<t, "usb">>])
=============================================================================
