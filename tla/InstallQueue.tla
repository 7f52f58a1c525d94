---------------------------- MODULE InstallQueue ----------------------------
(***************************************************************************)
(* The scan cycle's title half: discovery decides which titles need work   *)
(* (sm_scan.c), process_scan_candidates mounts and registers them          *)
(* (sm_install.c), and titles staged for the batch installer wait in the   *)
(* pending-install table (sm_install_queue.c) with per-title retry         *)
(* counters (sm_title_state.c).                                            *)
(*                                                                         *)
(* Everything here runs on the scanner thread under g_scanner_cycle_mutex; *)
(* the sleep flag, the installer, app.db and the sources move under it.    *)
(* Times are abstracted to what the code asks of them: a due time is off,  *)
(* in the future or reached, and a submitted entry is or is not older than *)
(* INSTALL_WAIT_TIMEOUT_US.                                                *)
(***************************************************************************)
EXTENDS Naturals, FiniteSets

CONSTANTS
    Titles,                       \* title ids found on the scan paths
    MAX_PENDING,                  \* slots of g_pending_installs
    MaxEvents                     \* bound: sleeps, resets, reloads, uninstalls

MAX_FAILED_MOUNT_ATTEMPTS == 2
MAX_REGISTER_ATTEMPTS == 2

VARIABLES
    pending,      \* g_pending_installs: state per title
    tally,        \* g_tracked_install_count and g_submitted_install_count
    due,          \* g_queued_install_submit_due_us, g_pending_install_poll_due_us
    overdue,      \* submitted titles older than INSTALL_WAIT_TIMEOUT_US
    failed,       \* mount_reg_attempts per title
    registered,   \* register_attempts per title
    appdb,        \* titles app.db lists
    linked,       \* titles whose mount.lnk names their present source
    installer,    \* titles AppInstallAll is working on
    cycle,        \* the scan cycle in progress and its candidates
    env           \* sleep flag, app_install_all_enabled, events so far

queueVars == <<pending, tally, due, overdue, failed, registered, appdb,
               linked, installer, cycle, env>>

Off == "off"
Later == "later"
Reached == "reached"

Queued == {t \in Titles : pending[t] = "queued"}
Submitted == {t \in Titles : pending[t] = "submitted"}
count_queued_installs == tally.tracked - tally.submitted
is_title_install_pending(t) == pending[t] # "none"
sm_install_has_pending_work == tally.tracked > 0
was_register_attempted(t) == registered[t] >= MAX_REGISTER_ATTEMPTS

QueueInit ==
    /\ pending = [t \in Titles |-> "none"]
    /\ tally = [tracked |-> 0, submitted |-> 0]
    /\ due = [submit |-> Off, poll |-> Off]
    /\ overdue = {}
    /\ failed = [t \in Titles |-> 0]
    /\ registered = [t \in Titles |-> 0]
    /\ appdb \in SUBSET Titles
    /\ linked = {}
    /\ installer = {}
    /\ cycle = [pc |-> "idle", cur |-> {}, found |-> {}, mounted |-> FALSE]
    /\ env \in [asleep : {FALSE}, all : BOOLEAN, events : {0}]

-----------------------------------------------------------------------------
(* The table.  Each operator maps a queue record to the next one, so that   *)
(* the handlers below can chain them the way the code calls them.           *)

Table == [pending |-> pending, tally |-> tally, due |-> due, failed |-> failed]

Keep(r) ==
    \E q \in {r} :
        /\ pending' = q.pending
        /\ tally' = q.tally
        /\ due' = q.due
        /\ failed' = q.failed
        /\ overdue' = {t \in overdue : q.pending[t] = "submitted"}

QueueCount(q) == q.tally.tracked - q.tally.submitted

schedule_pending_install_poll(q) ==
    [q EXCEPT !.due.poll = IF q.tally.submitted = 0 THEN Off ELSE Later]

schedule_queued_install_submit(q, at) ==
    [q EXCEPT !.due.submit =
        IF QueueCount(q) = 0 \/ q.tally.submitted > 0 THEN Off ELSE at]

\* One call for each entry of S.
clear_pending_install_entry(q, S) ==
    LET n == q.tally.tracked - Cardinality({t \in S : q.pending[t] # "none"})
        s == q.tally.submitted - Cardinality({t \in S : q.pending[t] = "submitted"})
    IN  [q EXCEPT !.pending = [t \in Titles |-> IF t \in S THEN "none" ELSE @[t]],
                  !.tally = [tracked |-> n, submitted |-> s],
                  !.due = [submit |-> IF n = 0 THEN Off ELSE @.submit,
                           poll |-> IF s = 0 THEN Off ELSE @.poll]]

bump_failed_mount_attempts(q, S) ==
    [q EXCEPT !.failed = [t \in Titles |-> IF t \in S THEN @[t] + 1 ELSE @[t]]]

clear_failed_mount_attempts(q, S) ==
    [q EXCEPT !.failed = [t \in Titles |-> IF t \in S THEN 0 ELSE @[t]]]

sm_install_queue_candidate(q, t) ==
    IF q.pending[t] = "submitted" THEN q
    ELSE schedule_queued_install_submit(
            [q EXCEPT !.pending[t] = "queued",
                      !.tally.tracked = IF q.pending[t] = "none" THEN @ + 1 ELSE @],
            Reached)

HasRoom(q, t) ==
    \/ q.pending[t] # "none"
    \/ Cardinality({x \in Titles : q.pending[x] # "none"}) < MAX_PENDING

\* finalize_pending_install_success: its counters start again.
Installed(q, S) == [t \in Titles |-> IF t \in S THEN 0 ELSE q[t]]

TimeoutForgotten(q, done, gone) ==
    clear_pending_install_entry([q EXCEPT !.failed = Installed(@, done)], done)

\* finalize_pending_install_timeout counts a failed attempt; both finalizers
\* free the entry.
finalize_pending_install(q, done, gone) ==
    clear_pending_install_entry(
        [q EXCEPT !.failed = [t \in Titles |->
            IF t \in gone THEN @[t] + 1 ELSE Installed(@, done)[t]]],
        done \cup gone)

poll_pending_installs(listed, late) ==
    IF tally.submitted = 0 THEN {Table}
    ELSE LET done == Submitted \cap listed
             gone == (Submitted \cap late) \ done
         IN  {IF r.tally.submitted = 0
              THEN schedule_queued_install_submit(r, Reached)
              ELSE schedule_pending_install_poll(r) :
                r \in {finalize_pending_install(Table, done, gone)}}

\* sm_install_submit_queued asks the installer only with a due batch.
MaySubmit(q) ==
    /\ ~env.asleep
    /\ QueueCount(q) > 0
    /\ q.tally.submitted = 0
    /\ q.due.submit # Later

Accepted(q) ==
    LET batch == {t \in Titles : q.pending[t] = "queued"}
    IN  schedule_pending_install_poll(
          [pending |-> [t \in Titles |-> IF t \in batch THEN "submitted"
                                         ELSE q.pending[t]],
           tally |-> [q.tally EXCEPT !.submitted = @ + Cardinality(batch)],
           due |-> [q.due EXCEPT !.submit = Off],
           failed |-> [t \in Titles |-> IF t \in batch THEN 0 ELSE q.failed[t]]])

\* A failed request: retry in two seconds; every queued entry notes the
\* failure and is dropped at the limit.
sm_install_note_submit_failure(q) ==
    LET batch == {t \in Titles : q.pending[t] = "queued"}
        spent == {t \in batch : q.failed[t] + 1 >= MAX_FAILED_MOUNT_ATTEMPTS}
    IN  clear_pending_install_entry(
          bump_failed_mount_attempts(schedule_queued_install_submit(q, Later), batch),
          spent)

\* sm_install_submit_queued and the caller's answer to a failure.
SubmitOrNote(q) ==
    IF MaySubmit(q)
    THEN \/ /\ Keep(Accepted(q))
            /\ installer' = installer \cup {t \in Titles : q.pending[t] = "queued"}
         \/ Keep(sm_install_note_submit_failure(q)) /\ UNCHANGED installer
    ELSE Keep(q) /\ UNCHANGED installer

-----------------------------------------------------------------------------
(* The run loop's service call, between scan cycles.                        *)

sm_install_next_wake_us ==
    IF env.asleep THEN FALSE
    ELSE IF tally.submitted = 0 THEN due.submit = Reached
    ELSE due.poll = Reached \/ due.submit = Reached \/ overdue # {}

\* The app.db list may be unavailable: then nothing is listed.
Listed == {appdb, {}}

sm_install_service_pending ==
    /\ cycle.pc = "idle"
    /\ sm_install_next_wake_us
    /\ \E listed \in Listed :
         \E q \in poll_pending_installs(listed, overdue) : SubmitOrNote(q)
    /\ UNCHANGED <<registered, appdb, linked, cycle, env>>

-----------------------------------------------------------------------------
(* One scan cycle: collect, process, reconcile.                             *)

BeginCycle ==
    /\ cycle.pc = "idle"
    /\ ~env.asleep
    /\ cycle' = [pc |-> "collect", cur |-> {}, found |-> {}, mounted |-> FALSE]
    /\ UNCHANGED <<pending, tally, due, overdue, failed, registered, appdb, linked,
                   installer, env>>

Step(pc, cur, found) ==
    cycle' = [cycle EXCEPT !.pc = pc, !.cur = cur, !.found = found]

\* sm_install_forget_pending_title, after an uninstall request went through:
\* a blocked title (sm_scan.c), a manual source (sm_manual.c) or an
\* auto-removed one (sm_game_cache.c).
sm_install_forget_pending_title(t) ==
    /\ cycle.pc \in {"collect", "collected", "reconcile"}
    /\ is_title_install_pending(t)
    /\ Keep(clear_pending_install_entry(Table, {t}))
    /\ UNCHANGED <<registered, appdb, linked, installer, cycle, env>>

\* try_collect_candidate_for_directory: a title that waits for the installer
\* or has used up its attempts is no candidate; neither is one that is
\* already served or whose source is missing, protected or not stable yet.
Eligible(t) ==
    /\ IF t \in appdb THEN t \notin linked
       ELSE ~is_title_install_pending(t) /\ ~was_register_attempted(t)
    /\ failed[t] < MAX_FAILED_MOUNT_ATTEMPTS

collect_scan_candidates ==
    /\ cycle.pc = "collect"
    /\ \E S \in SUBSET {t \in Titles : Eligible(t)} :
         Step("collected", {}, {<<t, t \in appdb>> : t \in S})
    /\ UNCHANGED <<pending, tally, due, overdue, failed, registered, appdb, linked,
                   installer, env>>

\* collect_scan_candidates is done; process_scan_candidates polls first.
StartProcessing ==
    /\ cycle.pc = "collected"
    /\ IF env.asleep
       THEN Step("idle", {}, {}) /\ UNCHANGED <<pending, tally, due, overdue, failed>>
       ELSE /\ Step("process", {}, cycle.found)
            /\ \E listed \in Listed :
                 \E q \in poll_pending_installs(listed, overdue) : Keep(q)
    /\ UNCHANGED <<registered, appdb, linked, installer, env>>

\* mount_and_install for one candidate: staging, mount and links succeed or
\* not; a title outside app.db is registered now or left to the batch.
mount_and_install(t, listed) ==
    /\ cycle.pc = "process"
    /\ ~env.asleep
    /\ <<t, listed>> \in cycle.found
    /\ \E ok \in BOOLEAN, res \in {"absent", "done", "refused"} :
         LET batch == env.all /\ ~listed
             direct == ok /\ ~listed /\ ~batch
         IN  /\ ~direct => res = "done"
             /\ registered' =
                  IF ~direct \/ res = "absent" THEN registered
                  ELSE [registered EXCEPT ![t] = IF res = "done" THEN 0 ELSE @ + 1]
             /\ linked' = IF ok THEN linked \cup {t} ELSE linked
             /\ appdb' = IF direct /\ res = "done" THEN appdb \cup {t} ELSE appdb
             /\ cycle' = [cycle EXCEPT
                    !.pc = "settle", !.cur = {<<t, batch>>},
                    !.found = @ \ {<<t, listed>>},
                    !.mounted = ok /\ (direct => res = "done")]
    /\ UNCHANGED <<pending, tally, due, overdue, failed, installer, env>>

\* What process_scan_candidates does with the answer.
SettleCandidate ==
    /\ cycle.pc = "settle"
    /\ \E c \in cycle.cur :
         LET t == c[1] IN
         IF env.asleep THEN Step("idle", {}, {}) /\ Keep(Table)
         ELSE /\ Step("process", {}, cycle.found)
              /\ IF ~cycle.mounted THEN Keep(bump_failed_mount_attempts(Table, {t}))
                 ELSE IF ~c[2] THEN Keep(clear_failed_mount_attempts(Table, {t}))
                 ELSE IF HasRoom(Table, t)
                 THEN Keep(clear_failed_mount_attempts(
                             sm_install_queue_candidate(Table, t), {t}))
                 ELSE Keep(bump_failed_mount_attempts(Table, {t}))
    /\ UNCHANGED <<registered, appdb, linked, installer, env>>

\* A protected title is skipped.
SkipProtected ==
    /\ cycle.pc = "process"
    /\ ~env.asleep
    /\ \E c \in cycle.found : Step("process", {}, cycle.found \ {c})
    /\ UNCHANGED <<pending, tally, due, overdue, failed, registered, appdb, linked,
                   installer, env>>

FinishProcessing ==
    /\ cycle.pc = "process"
    /\ cycle.found = {} \/ env.asleep
    /\ IF env.asleep
       THEN Step("idle", {}, {}) /\ Keep(Table) /\ UNCHANGED installer
       ELSE Step("reconcile", {}, {}) /\ SubmitOrNote(Table)
    /\ UNCHANGED <<registered, appdb, linked, env>>

EndCycle ==
    /\ cycle.pc = "reconcile"
    /\ Step("idle", {}, {})
    /\ UNCHANGED <<pending, tally, due, overdue, failed, registered, appdb, linked,
                   installer, env>>

Event ==
    /\ env.events < MaxEvents
    /\ env' = [env EXCEPT !.events = @ + 1]

\* A requested scan resets every counter first.
reset_all_title_attempts ==
    /\ cycle.pc = "idle"
    /\ ~env.asleep
    /\ Event
    /\ failed' = [t \in Titles |-> 0]
    /\ registered' = [t \in Titles |-> 0]
    /\ UNCHANGED <<pending, tally, due, overdue, appdb, linked, installer, cycle>>

-----------------------------------------------------------------------------
(* Time, the installer, app.db and the console.                             *)

TimePasses ==
    /\ \/ due.submit = Later /\ due' = [due EXCEPT !.submit = Reached]
       \/ due.poll = Later /\ due' = [due EXCEPT !.poll = Reached]
    /\ UNCHANGED <<pending, tally, overdue, failed, registered, appdb, linked,
                   installer, cycle, env>>

EntryAges ==
    /\ Submitted \ overdue # {}
    /\ overdue' = Submitted
    /\ UNCHANGED <<pending, tally, due, failed, registered, appdb, linked,
                   installer, cycle, env>>

InstallerWorks(t) ==
    /\ t \in installer
    /\ installer' = installer \ {t}
    /\ appdb' \in {appdb, appdb \cup {t}}
    /\ UNCHANGED <<pending, tally, due, overdue, failed, registered, linked, cycle, env>>

TitleUninstalled(t) ==
    /\ t \in appdb
    /\ appdb' = appdb \ {t}
    /\ linked' = linked \ {t}
    /\ Event
    /\ UNCHANGED <<pending, tally, due, overdue, failed, registered,
                   installer, cycle>>

\* A reload between two cycles switches the batch mode.
ConfigReloads ==
    /\ cycle.pc = "idle"
    /\ ~env.asleep
    /\ env.events < MaxEvents
    /\ env' = [env EXCEPT !.all = ~@, !.events = @ + 1]
    /\ UNCHANGED <<pending, tally, due, overdue, failed, registered, appdb, linked,
                   installer, cycle>>

FallsAsleep ==
    /\ ~env.asleep
    /\ env.events < MaxEvents
    /\ env' = [env EXCEPT !.asleep = TRUE, !.events = @ + 1]
    /\ UNCHANGED <<pending, tally, due, overdue, failed, registered, appdb, linked,
                   installer, cycle>>

WakesUp ==
    /\ env.asleep
    /\ env' = [env EXCEPT !.asleep = FALSE]
    /\ UNCHANGED <<pending, tally, due, overdue, failed, registered, appdb, linked,
                   installer, cycle>>

CycleStep ==
    \/ BeginCycle
    \/ collect_scan_candidates
    \/ StartProcessing
    \/ \E t \in Titles, listed \in BOOLEAN : mount_and_install(t, listed)
    \/ SkipProtected
    \/ SettleCandidate
    \/ FinishProcessing
    \/ EndCycle

QueueNext ==
    \/ CycleStep
    \/ sm_install_service_pending
    \/ \E t \in Titles : sm_install_forget_pending_title(t)
    \/ reset_all_title_attempts
    \/ TimePasses
    \/ EntryAges
    \/ \E t \in Titles : InstallerWorks(t) \/ TitleUninstalled(t)
    \/ ConfigReloads
    \/ FallsAsleep
    \/ WakesUp

\* The scanner thread keeps running, the full resync comes round again and
\* again (next_full_resync_us), and time passes.
QueueSpec ==
    /\ QueueInit /\ [][QueueNext]_queueVars
    /\ WF_queueVars(CycleStep) /\ WF_queueVars(sm_install_service_pending)
    /\ WF_queueVars(TimePasses) /\ WF_queueVars(EntryAges)

-----------------------------------------------------------------------------
\* Every tracked title leaves the table again - installed, timed out, dropped
\* or forgotten - unless the console sleeps, although forgetting the last submitted title leaves the
\* queued ones with no due time (sm_install_forget_pending_title).
TrackedTitlesSettle ==
    \A t \in Titles : (pending[t] # "none") ~> (pending[t] = "none" \/ env.asleep)

=============================================================================
