--------------------------- MODULE ShellcoreHooks ---------------------------
(***************************************************************************)
(* The bookkeeping of the code patches that ShadowMountPlus keeps in the   *)
(* SceShellCore process: sm_shellcore_hooks.c.                             *)
(*                                                                         *)
(* A hook is a jump written over the first bytes of a ShellCore function   *)
(* (a site) into a bridge that lives in a cave of the same image; the      *)
(* bridge's trampolines hold the bytes the jumps replaced.  The module     *)
(* follows which bytes each site holds, what g_hooks records about them,   *)
(* and what is left in ShellCore when the program ends without restoring.  *)
(*                                                                         *)
(* Every operation runs under g_install_mutex and, but for                 *)
(* sm_shellcore_install_title_dir, with ShellCore stopped, so each is one  *)
(* action; the install call is two, around AppInstallAll.  A remote write  *)
(* may fail before, in the middle of, or after changing the bytes.         *)
(***************************************************************************)
EXTENDS Integers

CONSTANTS HookCount,  \* SHELLCORE_BASE_HOOK_COUNT, or the maximum on FW 12+
          MaxShells   \* bound: incarnations of ShellCore

VARIABLES shellcore,  \* the process: its pid, bytes, cave, inherited sites
          g_hooks,    \* what the program records
          program     \* "off", "on", "stopping" or "installing"

hookVars == <<shellcore, g_hooks, program>>

Sites == 1 .. HookCount
InstallAll == 3  \* SM_SHELLCORE_TARGET_INSTALL_ALL

\* A site holds its original bytes, our jump, half-written bytes or the patch
\* of another payload.
Bytes == {"original", "hook", "torn", "foreign"}

EmptyHooks == [status |-> "EMPTY", enabled |-> FALSE, attached |-> FALSE, pid |-> 0, count |-> 0]

\* left: the sites a program that did not restore them has left behind;
\* tramp: the replaced bytes, as the trampolines hold them.
NewShellcore(p, c) ==
  [pid |-> p, alive |-> TRUE, sites |-> [i \in Sites |-> "original"], cave |-> c,
   armed |-> FALSE, tramp |-> [i \in Sites |-> "original"], left |-> {}]

HookInit ==
  /\ \E c \in {"zero", "foreign"} : shellcore = NewShellcore(1, c)
  /\ g_hooks = EmptyHooks /\ program = "off"

----------------------------------------------------------------------------
(* Remote writes.                                                          *)

Marked(s) == {i \in Sites : s[i] \in {"hook", "torn"}}
WithSites(sh, s) == [sh EXCEPT !.sites = s, !.left = @ \cap Marked(s)]

\* restore_remote_bytes on each site of S: what the sites hold afterwards, and
\* whether every write was made and verified.
restore_remote_bytes(sh, S) ==
  LET After == {f \in [Sites -> Bytes] :
                  \A i \in Sites : f[i] \in IF i \in S THEN {sh.tramp[i], sh.sites[i], "torn"}
                                            ELSE {sh.sites[i]}}
  IN {r \in [s : After, ok : BOOLEAN] : r.ok => \A i \in S : r.s[i] = sh.tramp[i]}

\* patch_remote_jump and patch_remote_call on the sites of S in order, up to
\* the first that fails; `count` is the last site attempted.
PatchInOrder(sh, S) ==
  {[s |-> [i \in Sites |-> IF i \in S THEN "hook" ELSE sh.sites[i]],
    tried |-> S, count |-> HookCount, ok |-> TRUE]}
  \cup UNION {{[s |-> [i \in Sites |-> IF i \in S /\ i < k THEN "hook"
                                       ELSE IF i = k THEN b ELSE sh.sites[i]],
                tried |-> {i \in S : i <= k}, count |-> k, ok |-> FALSE] :
                  b \in {"hook", "torn", sh.sites[k]}} : k \in S}

\* The prologue check reads four bytes: half-restored bytes may pass it.
MayLookOriginal(b) == b \in {"original", "torn"}
hook_installed(sh, i) == sh.sites[i] = "hook"

----------------------------------------------------------------------------
(* Installation.                                                           *)

\* recover_stale_bridge: a bridge left by a replaced program is detached when
\* every site is original or ours and the cave carries our signature.  The
\* sites are restored in order up to the first that fails, and any read may
\* fail before that.
recover_stale_bridge(sh) ==
  LET stale == {i \in Sites : hook_installed(sh, i)}
      Recoverable == /\ \A i \in Sites \ stale : MayLookOriginal(sh.sites[i])
                     /\ stale # {} => sh.cave = "bridge"
      InOrder(r) == \A i, j \in stale :
                      i < j /\ r.s[i] # sh.tramp[i] => r.s[j] = sh.sites[j]
  IN {[s |-> sh.sites, ok |-> FALSE]}
     \cup {r \in restore_remote_bytes(sh, stale) : Recoverable /\ InOrder(r)}

Pending(p, n, held) ==
  [status |-> "ROLLBACK_PENDING", enabled |-> FALSE, attached |-> held, pid |-> p, count |-> n]
Ready(p) ==
  [status |-> "READY", enabled |-> TRUE, attached |-> FALSE, pid |-> p, count |-> HookCount]

\* `done` after a failure with n sites attempted: cleanup_remote_bridge, then
\* detach; what cannot be undone is kept for the shutdown.
Failed(sh, g, n) ==
  UNION {LET after == WithSites(sh, c.s)
         IN {[sh |-> after, g |-> Pending(sh.pid, n, TRUE), ok |-> FALSE]}
            \cup (IF c.ok THEN {[sh |-> after, g |-> g, ok |-> FALSE]} ELSE {}) :
           c \in IF n = 0 THEN {[s |-> sh.sites, ok |-> TRUE]}
                 ELSE restore_remote_bytes(sh, 1 .. n)}

Completed(sh, g) == {[sh |-> sh, g |-> Ready(sh.pid), ok |-> TRUE]} \cup Failed(sh, g, HookCount)

bridge_cave_is_available(sh) == sh.cave \in {"zero", "bridge", "torn"}

\* populate_bridge and the write of the cave, disarmed.
WithBridge(sh) == [sh EXCEPT !.cave = "bridge", !.armed = FALSE, !.tramp = sh.sites]

OwnedAfterVerify(p) == IF p.ok THEN p.count ELSE p.count - 1
OwnedSites(p) == p.count

PatchSites(sh, g) ==
  UNION {LET after == WithSites(sh, p.s)
         IN IF p.ok THEN Completed(after, g) ELSE Failed(after, g, OwnedSites(p)) :
           p \in PatchInOrder(sh, Sites)}

\* install_hooks_for_pid once the sites are recovered.
InstallInto(sh, g) ==
  Failed(sh, g, 0)
  \cup (IF bridge_cave_is_available(sh)
        THEN Failed([sh EXCEPT !.cave = "torn"], g, 0)
             \cup Failed(WithBridge(sh), g, 0)
             \cup PatchSites(WithBridge(sh), g)
        ELSE {})

install_hooks_for_pid(sh, g) ==
  {[sh |-> sh, g |-> g, ok |-> FALSE]}
  \cup Failed(sh, g, 0)
  \cup UNION {IF r.ok THEN InstallInto(WithSites(sh, r.s), g)
              ELSE Failed(WithSites(sh, r.s), g, 0) : r \in recover_stale_bridge(sh)}

----------------------------------------------------------------------------
(* Refresh: lost patches are written again.                                *)

\* The bridge still is the one installed, with the install flag cleared.
verify_installed_bridge(sh) == sh.cave = "bridge" /\ ~sh.armed

DetachAfterRepair(sh, g, ok) ==
  {[sh |-> sh, g |-> IF ok THEN [g EXCEPT !.status = "READY"] ELSE g, ok |-> ok]}
  \cup {[sh |-> sh, g |-> [g EXCEPT !.status = "ROLLBACK_PENDING", !.attached = held], ok |-> FALSE] :
          held \in BOOLEAN}

RepairSites(sh, g) ==
  UNION {LET after == WithSites(sh, p.s)
         IN IF p.ok THEN DetachAfterRepair(after, g, TRUE)
            ELSE UNION {IF r.ok THEN DetachAfterRepair(WithSites(after, r.s), g, FALSE)
                        ELSE {[sh |-> WithSites(after, r.s), ok |-> FALSE,
                               g |-> [g EXCEPT !.status = "ROLLBACK_PENDING", !.attached = TRUE]]} :
                          r \in restore_remote_bytes(after, p.tried)} :
           p \in PatchInOrder(sh, {i \in Sites : ~hook_installed(sh, i)})}

\* Every site is ours or original before any is written.
Repair(sh, g) ==
  {[sh |-> sh, g |-> g, ok |-> FALSE]}
  \cup DetachAfterRepair(sh, g, FALSE)
  \cup (IF /\ verify_installed_bridge(sh)
           /\ \A i \in Sites : hook_installed(sh, i) \/ sh.sites[i] = sh.tramp[i]
        THEN RepairSites(sh, g) ELSE {})

refresh_hooks_locked(sh, g) ==
  IF ~g.enabled \/ g.status \notin {"READY", "STALE"} \/ program = "stopping" \/ ~sh.alive
  THEN {[sh |-> sh, g |-> g, ok |-> FALSE]}
  ELSE IF sh.pid # g.pid THEN install_hooks_for_pid(sh, [g EXCEPT !.status = "STALE"])
  ELSE IF g.status = "READY" /\ \A i \in Sites : hook_installed(sh, i)
  THEN {[sh |-> sh, g |-> g, ok |-> TRUE]} \cup Repair(sh, [g EXCEPT !.status = "STALE"])
  ELSE Repair(sh, [g EXCEPT !.status = "STALE"])

----------------------------------------------------------------------------
(* Actions of the program.                                                 *)

sm_shellcore_hooks_start ==
  /\ program = "off"
  /\ program' = "on"
  /\ \E r \in IF shellcore.alive THEN install_hooks_for_pid(shellcore, EmptyHooks)
              ELSE {[sh |-> shellcore, g |-> EmptyHooks, ok |-> FALSE]} :
       shellcore' = r.sh /\ g_hooks' = r.g

sm_shellcore_hooks_refresh ==
  /\ program \in {"on", "stopping"}
  /\ \E r \in refresh_hooks_locked(shellcore, g_hooks) : shellcore' = r.sh /\ g_hooks' = r.g
  /\ UNCHANGED program

\* sm_shellcore_install_title_dir up to AppInstallAll: the strings, then the
\* flag.  A failed write leaves the flag cleared.
ArmInstall ==
  /\ program = "on"
  /\ \E r \in refresh_hooks_locked(shellcore, g_hooks), written \in BOOLEAN :
       /\ g_hooks' = r.g
       /\ IF r.ok /\ r.g.count >= InstallAll /\ written
          THEN shellcore' = [r.sh EXCEPT !.armed = TRUE] /\ program' = "installing"
          ELSE shellcore' = r.sh /\ UNCHANGED program

\* AppInstallAll has returned: the flag is cleared, or the site restored.
DisarmInstall ==
  LET reachable == shellcore.alive /\ shellcore.pid = g_hooks.pid
  IN /\ program = "installing"
     /\ program' = "on"
     /\ \/ /\ reachable
           /\ shellcore' = [shellcore EXCEPT !.armed = FALSE]
           /\ UNCHANGED g_hooks
        \/ \E r \in IF reachable THEN restore_remote_bytes(shellcore, {InstallAll})
                    ELSE {[s |-> shellcore.sites, ok |-> FALSE]} :
             /\ shellcore' = WithSites(shellcore, r.s)
             /\ g_hooks' = [g_hooks EXCEPT !.status = IF r.ok THEN "STALE" ELSE "ROLLBACK_PENDING"]

request_shutdown == program = "on" /\ program' = "stopping" /\ UNCHANGED <<shellcore, g_hooks>>

\* stop_bridge_locked from the attached process on: the recorded sites are
\* restored, all of them after a failed rollback, else those still ours.
RestoreForStop(sh, g) ==
  LET recorded == 1 .. g.count
      all == g.status = "ROLLBACK_PENDING"
      ours == IF all THEN recorded ELSE {i \in recorded : hook_installed(sh, i)}
      held == [g EXCEPT !.status = "ROLLBACK_PENDING", !.attached = TRUE]
  IN UNION {LET after == WithSites(sh, r.s)
            IN {[sh |-> after, g |-> held]}
               \cup (IF r.ok THEN {[sh |-> after, g |-> [g EXCEPT !.attached = FALSE]]} ELSE {})
               \cup (IF r.ok /\ \A i \in recorded : after.sites[i] = sh.tramp[i]
                     THEN {[sh |-> after, g |-> EmptyHooks]} ELSE {}) :
              r \in restore_remote_bytes(sh, ours)}

stop_bridge_locked(sh, g) ==
  IF \/ g.status = "EMPTY"
     \/ sh.alive /\ sh.pid # g.pid
     \/ ~sh.alive
  THEN {[sh |-> sh, g |-> EmptyHooks]}
  ELSE (IF g.attached THEN {} ELSE {[sh |-> sh, g |-> g]})
       \cup {[sh |-> sh, g |-> [g EXCEPT !.attached = TRUE]]}
       \cup (IF g.count = 0 THEN {[sh |-> sh, g |-> EmptyHooks]}
             ELSE RestoreForStop(sh, g)
                  \cup (IF g.status = "ROLLBACK_PENDING" THEN {}
                        ELSE {[sh |-> sh, g |-> [g EXCEPT !.attached = FALSE]]}))

sm_shellcore_hooks_stop ==
  /\ program = "stopping"
  /\ program' = "ended"
  /\ \E r \in stop_bridge_locked(shellcore, [g_hooks EXCEPT !.enabled = FALSE]) :
       shellcore' = r.sh /\ g_hooks' = r.g

----------------------------------------------------------------------------
(* The environment.                                                        *)

\* The program ends after its shutdown, or a forced replacement kills it at
\* any point, in the middle of an installation too; ShellCore runs on.
ProgramEnds ==
  /\ program # "off"
  /\ program' = "off" /\ g_hooks' = EmptyHooks
  /\ shellcore' = [shellcore EXCEPT !.left = Marked(shellcore.sites)]

KilledInstalling ==
  /\ program = "off" /\ shellcore.alive /\ bridge_cave_is_available(shellcore)
  /\ \E r \in recover_stale_bridge(shellcore) :
       /\ r.ok
       /\ LET sh == WithBridge(WithSites(shellcore, r.s))
          IN \E p \in PatchInOrder(sh, Sites) :
               shellcore' = [sh EXCEPT !.sites = p.s, !.left = Marked(p.s)]
  /\ UNCHANGED <<g_hooks, program>>

ShellcoreExits ==
  /\ shellcore.alive /\ ~g_hooks.attached
  /\ shellcore' = [NewShellcore(shellcore.pid, "zero") EXCEPT !.alive = FALSE]
  /\ UNCHANGED <<g_hooks, program>>

ShellcoreStarts ==
  /\ ~shellcore.alive /\ shellcore.pid < MaxShells
  /\ \E c \in {"zero", "foreign"} : shellcore' = NewShellcore(shellcore.pid + 1, c)
  /\ UNCHANGED <<g_hooks, program>>

\* Another payload patches a site, or takes its patch out again.
OtherPayload ==
  /\ shellcore.alive
  /\ \E i \in Sites, b \in {"foreign", "original"} :
       shellcore' = WithSites(shellcore, [shellcore.sites EXCEPT ![i] = b])
  /\ UNCHANGED <<g_hooks, program>>

HookNext ==
  \/ sm_shellcore_hooks_start \/ sm_shellcore_hooks_refresh \/ ArmInstall \/ DisarmInstall
  \/ request_shutdown \/ sm_shellcore_hooks_stop
  \/ ProgramEnds \/ KilledInstalling \/ ShellcoreExits \/ ShellcoreStarts \/ OtherPayload

HookSpec == HookInit /\ [][HookNext]_hookVars

----------------------------------------------------------------------------
(* Properties.                                                             *)

\* Every patched or half-written site of the running ShellCore is one that
\* g_hooks records for that very process, so that shutdown restores it, or
\* one that a killed program left behind or that holds just what the program
\* found there; and a site jumps into the cave only
\* while the whole bridge is there.  In particular a stop that reports the
\* bridge gone (SHELLCORE_HOOKS_EMPTY) has left no jump.
HooksAccounted ==
  shellcore.alive =>
    \A i \in Marked(shellcore.sites) :
      /\ \/ i \in shellcore.left
         \/ shellcore.sites[i] = shellcore.tramp[i]
         \/ g_hooks.status # "EMPTY" /\ g_hooks.pid = shellcore.pid /\ i <= g_hooks.count
      /\ hook_installed(shellcore, i) => shellcore.cave = "bridge"
=============================================================================
