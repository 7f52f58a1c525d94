--------------------------- MODULE ShellcoreOwners ---------------------------
(***************************************************************************)
(* The ownership table of src/src/sm_shellcore_service.c: which title's     *)
(* runtime mounts belong to the incoming game (prepared), which to the game *)
(* being replaced (outgoing), and the gates that keep a mount preparation,  *)
(* a release and a mutation by the scanner or the API apart.  Every         *)
(* operation below is one critical section of g_service.mutex; this module  *)
(* lets them be called in any order, ShellcoreService composes them into    *)
(* the threads that call them.                                              *)
(*                                                                          *)
(* Left out: the sandbox_ready_handled flags (they only suppress a repeated *)
(* fakelib setup) and exit_time_us, which tells two exits of one pid apart. *)
(***************************************************************************)
EXTENDS Naturals

CONSTANTS Titles, NoTitle, Pids, Apps

ASSUME OwnerConstants == NoTitle \notin Titles /\ 0 \notin Pids /\ 0 \notin Apps

VARIABLES prepared, outgoing, prepare_in_progress, launch_pending,
          pending_launch_title_id, external_mutation_in_progress,
          releasing_title_id

ownerVars == <<prepared, outgoing, prepare_in_progress, launch_pending,
               pending_launch_title_id, external_mutation_in_progress,
               releasing_title_id>>

(* shellcore_mount_owner_t; app_id 0 is an app id AppInfo did not give. *)
MountOwner == [title_id : Titles \cup {NoTitle}, app_id : Apps \cup {0},
               pid : Pids \cup {0}, game_exited : BOOLEAN]

(* clear_mount_owner and set_mount_owner *)
OwnerOf(t) == [title_id |-> t, app_id |-> 0, pid |-> 0, game_exited |-> FALSE]

NoOwner == OwnerOf(NoTitle)

launch_preparation_pending ==
  prepare_in_progress \/ launch_pending \/ pending_launch_title_id # NoTitle

Owned(t) == prepared.title_id = t \/ outgoing.title_id = t

(* find_mount_owner_locked, for a title that has an owner *)
find_mount_owner(t) == IF prepared.title_id = t THEN prepared ELSE outgoing

(* A process is bound to the owner and has not been reported as exited. *)
Live(owner) == owner.title_id # NoTitle /\ owner.pid # 0 /\ ~owner.game_exited

ProtectedTitles == {o.title_id : o \in {x \in {prepared, outgoing} : Live(x)}}

-----------------------------------------------------------------------------
(* Claims: a title becomes the prepared owner before it is mounted. *)

CanSwitch(t, launch) ==
  launch /\ prepared.app_id # 0 /\ outgoing.title_id = NoTitle

CanClaim(t, launch) ==
  /\ ~prepare_in_progress
  /\ ~external_mutation_in_progress
  /\ releasing_title_id # t
  /\ CASE prepared.title_id = t       -> ~prepared.game_exited
       [] prepared.title_id = NoTitle -> outgoing.title_id = t => ~outgoing.game_exited
       [] OTHER                       -> CanSwitch(t, launch)

(* claimed_out: the caller created the owner and must roll it back. *)
Claims(t) ==
  /\ prepared.title_id # t
  /\ ~(prepared.title_id = NoTitle /\ outgoing.title_id = t)

(* The prepared slot is free: take it, or take the still running outgoing
   game back into it. *)
ClaimFreeSlot(t, launch) ==
  LET resumed == outgoing.title_id = t
      owner   == IF resumed THEN outgoing ELSE OwnerOf(t)
  IN  /\ prepared.title_id = NoTitle
      /\ prepared' = owner
      /\ outgoing' = IF resumed THEN NoOwner ELSE outgoing
      /\ launch_pending' = (launch /\ owner.pid = 0)
      /\ pending_launch_title_id' =
           IF resumed /\ owner.pid # 0 /\ pending_launch_title_id = t
           THEN NoTitle ELSE pending_launch_title_id

(* Another game holds the slot: it becomes the outgoing one. *)
ClaimSwitch(t) ==
  /\ prepared.title_id \notin {t, NoTitle}
  /\ outgoing' = prepared
  /\ prepared' = OwnerOf(t)
  /\ launch_pending' = TRUE
  /\ UNCHANGED pending_launch_title_id

ClaimAgain(t, launch) ==
  /\ prepared.title_id = t
  /\ launch_pending' = (launch_pending \/ launch)
  /\ UNCHANGED <<prepared, outgoing, pending_launch_title_id>>

claim_prepared_title(t, launch) ==
  /\ CanClaim(t, launch)
  /\ ClaimFreeSlot(t, launch) \/ ClaimSwitch(t) \/ ClaimAgain(t, launch)
  /\ prepare_in_progress' = TRUE
  /\ UNCHANGED <<external_mutation_in_progress, releasing_title_id>>

(* The claimer's mount failed: the outgoing game gets its slot back. *)
rollback_prepared_title(t) ==
  /\ IF prepared.title_id = t
     THEN /\ prepared' = outgoing
          /\ outgoing' = NoOwner
          /\ prepare_in_progress' = FALSE
          /\ launch_pending' = FALSE
     ELSE UNCHANGED <<prepared, outgoing, prepare_in_progress, launch_pending>>
  /\ UNCHANGED <<pending_launch_title_id, external_mutation_in_progress,
                 releasing_title_id>>

finish_prepared_title(t, cancel_launch) ==
  /\ IF prepared.title_id = t
     THEN /\ prepare_in_progress' = FALSE
          /\ launch_pending' = (launch_pending /\ ~cancel_launch)
     ELSE UNCHANGED <<prepare_in_progress, launch_pending>>
  /\ UNCHANGED <<prepared, outgoing, pending_launch_title_id,
                 external_mutation_in_progress, releasing_title_id>>

-----------------------------------------------------------------------------
(* Releases: expected is NoOwner for a NULL pointer, else the snapshot of an
   exited owner; active is what sm_game_lifecycle_has_active_game() said. *)

Superseded(t, expected) ==
  /\ expected # NoOwner
  /\ \/ ~Owned(t)
     \/ find_mount_owner(t) # expected
     \/ prepared.title_id = t /\ launch_pending
     \/ pending_launch_title_id = t

DifferentTitle(t, public_request, expected, active) ==
  /\ prepared # NoOwner \/ outgoing # NoOwner
  /\ ~Owned(t)
  /\ ~(expected = NoOwner /\ external_mutation_in_progress)
  /\ ~(public_request /\ active)

(* Mutant: an API unmount does not wait for a pending launch. *)
UnmountDuringLaunch(t) ==
  \/ external_mutation_in_progress
  \/ Owned(t) /\ Live(find_mount_owner(t))
  \/ prepared.title_id = t /\ prepared.app_id # 0

PublicBlocked(t) ==
  \/ external_mutation_in_progress
  \/ launch_preparation_pending
  \/ Owned(t) /\ Live(find_mount_owner(t))
  \/ prepared.title_id = t /\ prepared.app_id # 0

CanRelease(t, public_request, expected, active) ==
  /\ releasing_title_id = NoTitle
  /\ ~(prepared.title_id = t /\ prepare_in_progress)
  /\ ~Superseded(t, expected)
  /\ ~DifferentTitle(t, public_request, expected, active)
  /\ IF public_request THEN ~PublicBlocked(t)
     ELSE expected = NoOwner /\ Owned(t) => ~Live(find_mount_owner(t))

begin_runtime_release(t, public_request, expected, active) ==
  /\ CanRelease(t, public_request, expected, active)
  /\ releasing_title_id' = t
  /\ UNCHANGED <<prepared, outgoing, prepare_in_progress, launch_pending,
                 pending_launch_title_id, external_mutation_in_progress>>

clear_owned_title(t) ==
  /\ IF prepared.title_id = t
     THEN /\ prepared' = NoOwner
          /\ prepare_in_progress' = FALSE
          /\ launch_pending' = FALSE
          /\ UNCHANGED outgoing
     ELSE /\ outgoing' = IF outgoing.title_id = t THEN NoOwner ELSE outgoing
          /\ UNCHANGED <<prepared, prepare_in_progress, launch_pending>>
  /\ UNCHANGED <<pending_launch_title_id, external_mutation_in_progress,
                 releasing_title_id>>

end_runtime_release(t) ==
  /\ releasing_title_id' =
       IF releasing_title_id = t THEN NoTitle ELSE releasing_title_id
  /\ UNCHANGED <<prepared, outgoing, prepare_in_progress, launch_pending,
                 pending_launch_title_id, external_mutation_in_progress>>

-----------------------------------------------------------------------------
(* The lifecycle watcher binds a process to its owner and reports its exit. *)

CanBind(t, managed) == releasing_title_id # t /\ (Owned(t) \/ ~managed)

Bound(owner, app, p) ==
  [owner EXCEPT !.app_id = app, !.pid = p, !.game_exited = FALSE]

bind_prepared_app(t, app, p, managed) ==
  LET hit == prepared.title_id = t
  IN  /\ CanBind(t, managed)
      /\ prepared' = IF hit THEN Bound(prepared, app, p) ELSE prepared
      /\ outgoing' = IF ~hit /\ outgoing.title_id = t
                     THEN Bound(outgoing, app, p) ELSE outgoing
      /\ prepare_in_progress' = (prepare_in_progress /\ ~hit)
      /\ launch_pending' = (launch_pending /\ ~hit)
      /\ pending_launch_title_id' =
           IF pending_launch_title_id = t THEN NoTitle ELSE pending_launch_title_id
      /\ UNCHANGED <<external_mutation_in_progress, releasing_title_id>>

Exited(owner) == [owner EXCEPT !.game_exited = TRUE]

note_game_exit(p) ==
  /\ outgoing' = IF outgoing.pid = p THEN Exited(outgoing) ELSE outgoing
  /\ prepared' = IF outgoing.pid # p /\ prepared.pid = p
                 THEN Exited(prepared) ELSE prepared
  /\ UNCHANGED <<prepare_in_progress, launch_pending, pending_launch_title_id,
                 external_mutation_in_progress, releasing_title_id>>

-----------------------------------------------------------------------------
(* Requests of the ShellCore hook, and the gate of the scanner and the API. *)

set_pending_launch(t) ==
  /\ pending_launch_title_id' = t
  /\ UNCHANGED <<prepared, outgoing, prepare_in_progress, launch_pending,
                 external_mutation_in_progress, releasing_title_id>>

(* Mutant: a rejected request keeps its pending identity. *)
RejectKeepsPending(t) == UNCHANGED ownerVars

(* The tail of handle_launch_request after the mount was refused or failed. *)
reject_pending_launch(t) ==
  /\ pending_launch_title_id' =
       IF ~prepare_in_progress /\ ~launch_pending /\ pending_launch_title_id = t
       THEN NoTitle ELSE pending_launch_title_id
  /\ UNCHANGED <<prepared, outgoing, prepare_in_progress, launch_pending,
                 external_mutation_in_progress, releasing_title_id>>

(* The critical section of handle_launch_failed_request. *)
fail_pending_launch(t) ==
  /\ pending_launch_title_id' =
       IF pending_launch_title_id = t THEN NoTitle ELSE pending_launch_title_id
  /\ launch_pending' =
       (launch_pending /\ ~(prepared.title_id = t /\ prepared.pid # 0))
  /\ UNCHANGED <<prepared, outgoing, prepare_in_progress,
                 external_mutation_in_progress, releasing_title_id>>

CanMutate ==
  /\ ~external_mutation_in_progress
  /\ ~launch_preparation_pending
  /\ releasing_title_id = NoTitle

begin_external_mutation ==
  /\ CanMutate
  /\ external_mutation_in_progress' = TRUE
  /\ UNCHANGED <<prepared, outgoing, prepare_in_progress, launch_pending,
                 pending_launch_title_id, releasing_title_id>>

end_external_mutation ==
  /\ external_mutation_in_progress' = FALSE
  /\ UNCHANGED <<prepared, outgoing, prepare_in_progress, launch_pending,
                 pending_launch_title_id, releasing_title_id>>

-----------------------------------------------------------------------------
OwnersInit ==
  /\ prepared = NoOwner
  /\ outgoing = NoOwner
  /\ prepare_in_progress = FALSE
  /\ launch_pending = FALSE
  /\ pending_launch_title_id = NoTitle
  /\ external_mutation_in_progress = FALSE
  /\ releasing_title_id = NoTitle

ClaimCall(t) ==
  \/ \E launch \in BOOLEAN : claim_prepared_title(t, launch)
  \/ rollback_prepared_title(t)
  \/ \E cancel \in BOOLEAN : finish_prepared_title(t, cancel)

(* clear_owned_title and end_runtime_release run only inside a release. *)
ReleaseCall(t) ==
  \/ \E public, active \in BOOLEAN, expected \in {NoOwner, prepared, outgoing} :
       /\ expected # NoOwner => expected.game_exited /\ expected.title_id = t
       /\ begin_runtime_release(t, public, expected, active)
  \/ releasing_title_id = t /\ (clear_owned_title(t) \/ end_runtime_release(t))

ProcessCall(t) ==
  \E p \in Pids :
    \/ \E app \in Apps \cup {0}, managed \in BOOLEAN :
         bind_prepared_app(t, app, p, managed)
    \/ note_game_exit(p)

LaunchCall(t) ==
  set_pending_launch(t) \/ reject_pending_launch(t) \/ fail_pending_launch(t)

OwnersNext ==
  \/ \E t \in Titles : ClaimCall(t) \/ ReleaseCall(t) \/ ProcessCall(t) \/ LaunchCall(t)
  \/ begin_external_mutation
  \/ end_external_mutation

OwnersSpec == OwnersInit /\ [][OwnersNext]_ownerVars

-----------------------------------------------------------------------------
(* Types of the table; a slot without a title has been wiped entirely, as the
   lookups by pid and by app id read the other fields of both slots. *)
OwnersTypeOK ==
  /\ prepared \in MountOwner /\ outgoing \in MountOwner
  /\ prepare_in_progress \in BOOLEAN /\ launch_pending \in BOOLEAN
  /\ external_mutation_in_progress \in BOOLEAN
  /\ pending_launch_title_id \in Titles \cup {NoTitle}
  /\ releasing_title_id \in Titles \cup {NoTitle}
  /\ \A o \in {prepared, outgoing} : o.title_id = NoTitle => o = NoOwner

(* The two slots never name one title: find_mount_owner_locked, which looks at
   prepared first, would otherwise hide the outgoing game from its release. *)
DistinctOwners ==
  prepared.title_id # NoTitle => prepared.title_id # outgoing.title_id

(* While releasing_title_id names a title, the runtime of that title belongs to
   no live process: begin_runtime_release refuses a bound owner, and binding and
   claiming refuse a title under release. *)
ReleaseNeverLive ==
  \A o \in {prepared, outgoing} :
    o.title_id = releasing_title_id => ~Live(o)

(* A game switch or a mount gate never ends in a preparation nobody owns: the
   in-progress and launch gates are raised only with an owner in the prepared
   slot, so the operation that removes the owner also lowers them. *)
GatesHaveOwner ==
  prepare_in_progress \/ launch_pending => prepared.title_id # NoTitle
=============================================================================
