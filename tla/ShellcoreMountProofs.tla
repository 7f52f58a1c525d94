------------------------ MODULE ShellcoreMountProofs ------------------------
(***************************************************************************)
(* First, theorems about the ownership table of ShellcoreOwners for any set *)
(* of titles, processes and app ids, and any order of calls.  Its four      *)
(* invariants are inductive only together: a release stays clear of live    *)
(* processes because a title has one owner at most (DistinctOwners), and a  *)
(* slot without a title cannot be bound because it has been wiped           *)
(* (OwnersTypeOK).                                                          *)
(*                                                                         *)
(* Then the inductive invariant ServiceInv of the threads of                *)
(* ShellcoreService, for any titles, processes, images and chains; that     *)
(* every step uses the ownership table as ShellcoreOwners describes it;     *)
(* what a step must leave alone to keep the invariant; and that the steps   *)
(* of a mount keep it.                                                      *)
(***************************************************************************)
EXTENDS ShellcoreService, TLAPS

OwnersInv == OwnersTypeOK /\ DistinctOwners /\ ReleaseNeverLive /\ GatesHaveOwner

(* What set_mount_owner and clear_mount_owner write. *)
LEMMA OwnerOfFacts ==
  ASSUME NEW t \in Titles \cup {NoTitle}
  PROVE  /\ OwnerOf(t) \in MountOwner
         /\ OwnerOf(t).title_id = t
         /\ OwnerOf(t).pid = 0
         /\ ~OwnerOf(t).game_exited
  <1>1. OwnerOf(t) \in MountOwner
    BY Zenon DEF OwnerOf, MountOwner
  <1>2. QED
    BY <1>1 DEF OwnerOf

(* The cleared slot: no title, no process, not exited.                        *)
LEMMA NoOwnerFacts ==
  /\ NoOwner \in MountOwner
  /\ NoOwner.title_id = NoTitle
  /\ NoOwner.pid = 0
  /\ ~NoOwner.game_exited
  BY OwnerOfFacts DEF NoOwner

(* What bind_prepared_app writes into an owner slot. *)
LEMMA BoundFacts ==
  ASSUME NEW owner \in MountOwner, NEW app \in Apps \cup {0}, NEW p \in Pids
  PROVE  /\ Bound(owner, app, p) \in MountOwner
         /\ Bound(owner, app, p).title_id = owner.title_id
  <1>1. Bound(owner, app, p) \in MountOwner
    BY Zenon DEF Bound, MountOwner
  <1>2. Bound(owner, app, p).title_id = owner.title_id
    BY Zenon DEF Bound, MountOwner
  <1>3. QED
    BY <1>1, <1>2

(* What note_game_exit writes into an owner slot. *)
LEMMA ExitedFacts ==
  ASSUME NEW owner \in MountOwner
  PROVE  /\ Exited(owner) \in MountOwner
         /\ Exited(owner).title_id = owner.title_id
         /\ Exited(owner).game_exited
  <1>1. Exited(owner) \in MountOwner
    BY Zenon DEF Exited, MountOwner
  <1>2. Exited(owner).title_id = owner.title_id
    BY Zenon DEF Exited, MountOwner
  <1>3. Exited(owner).game_exited
    BY Zenon DEF Exited, MountOwner
  <1>4. QED
    BY <1>1, <1>2, <1>3

(* The table at start-up is empty. *)
LEMMA OwnersInitHolds ==
  ASSUME OwnersInit
  PROVE  OwnersInv
  BY NoOwnerFacts, Zenon DEF OwnersInit, OwnersInv, OwnersTypeOK, DistinctOwners,
     ReleaseNeverLive, GatesHaveOwner, Live

-----------------------------------------------------------------------------
(* Claims, rollbacks and finished preparations. *)

(* claim_prepared_title takes the free slot, switches, or claims again.       *)
LEMMA ClaimPreserves ==
  ASSUME OwnersInv, NEW t \in Titles, NEW launch \in BOOLEAN,
         claim_prepared_title(t, launch)
  PROVE  OwnersInv'
  <1> USE OwnerConstants, NoOwnerFacts, OwnerOfFacts
  <1>1. CASE ClaimFreeSlot(t, launch)
    <2>1. CASE outgoing.title_id = t
      BY <1>1, <2>1 DEF OwnersInv, OwnersTypeOK, DistinctOwners, ReleaseNeverLive,
         GatesHaveOwner, claim_prepared_title, ClaimFreeSlot, CanClaim, Live
    <2>2. CASE outgoing.title_id # t
      BY <1>1, <2>2 DEF OwnersInv, OwnersTypeOK, DistinctOwners, ReleaseNeverLive,
         GatesHaveOwner, claim_prepared_title, ClaimFreeSlot, CanClaim, Live
    <2>3. QED
      BY <2>1, <2>2
  <1>2. CASE ClaimSwitch(t)
    BY <1>2 DEF OwnersInv, OwnersTypeOK, DistinctOwners, ReleaseNeverLive,
       GatesHaveOwner, claim_prepared_title, ClaimSwitch, Live
  <1>3. CASE ClaimAgain(t, launch)
    BY <1>3 DEF OwnersInv, OwnersTypeOK, DistinctOwners, ReleaseNeverLive,
       GatesHaveOwner, claim_prepared_title, ClaimAgain, Live
  <1>4. QED
    BY <1>1, <1>2, <1>3 DEF claim_prepared_title

(* rollback_prepared_title keeps the invariant.                               *)
LEMMA RollbackPreserves ==
  ASSUME OwnersInv, NEW t \in Titles, rollback_prepared_title(t)
  PROVE  OwnersInv'
  BY OwnerConstants, NoOwnerFacts, Zenon
  DEF OwnersInv, OwnersTypeOK, DistinctOwners, ReleaseNeverLive, GatesHaveOwner,
      rollback_prepared_title, Live

(* finish_prepared_title keeps the invariant.                                 *)
LEMMA FinishPreserves ==
  ASSUME OwnersInv, NEW t \in Titles, NEW cancel \in BOOLEAN,
         finish_prepared_title(t, cancel)
  PROVE  OwnersInv'
  BY Zenon DEF OwnersInv, OwnersTypeOK, DistinctOwners, ReleaseNeverLive, GatesHaveOwner,
         finish_prepared_title, Live

-----------------------------------------------------------------------------
(* Releases. *)

(* begin_runtime_release: neither slot holds a live owner of the title.       *)
LEMMA BeginReleasePreserves ==
  ASSUME OwnersInv, NEW t \in Titles, NEW public \in BOOLEAN, NEW active \in BOOLEAN,
         NEW expected, expected # NoOwner => expected.game_exited,
         begin_runtime_release(t, public, expected, active)
  PROVE  OwnersInv'
  <1>1. \A o \in {prepared, outgoing} : o.title_id = t => ~Live(o)
    <2> SUFFICES ASSUME NEW o \in {prepared, outgoing}, o.title_id = t
                 PROVE  ~Live(o)
      OBVIOUS
    <2>1. Owned(t) /\ find_mount_owner(t) = o
      BY OwnerConstants DEF Owned, find_mount_owner, OwnersInv, DistinctOwners
    <2>2. CASE expected # NoOwner
      BY <2>1, <2>2 DEF begin_runtime_release, CanRelease, Superseded, Live
    <2>3. CASE expected = NoOwner
      BY <2>1, <2>3 DEF begin_runtime_release, CanRelease, PublicBlocked
    <2>4. QED
      BY <2>2, <2>3
  <1>2. QED
    BY <1>1 DEF OwnersInv, OwnersTypeOK, DistinctOwners, ReleaseNeverLive,
       GatesHaveOwner, begin_runtime_release, Live

(* clear_owned_title keeps the invariant.                                     *)
LEMMA ClearOwnerPreserves ==
  ASSUME OwnersInv, NEW t \in Titles, clear_owned_title(t)
  PROVE  OwnersInv'
  BY OwnerConstants, NoOwnerFacts, Zenon
  DEF OwnersInv, OwnersTypeOK, DistinctOwners, ReleaseNeverLive, GatesHaveOwner,
      clear_owned_title, Live

(* end_runtime_release keeps the invariant.                                   *)
LEMMA EndReleasePreserves ==
  ASSUME OwnersInv, NEW t \in Titles, end_runtime_release(t)
  PROVE  OwnersInv'
  BY DEF OwnersInv, OwnersTypeOK, DistinctOwners, ReleaseNeverLive, GatesHaveOwner,
         end_runtime_release, Live

-----------------------------------------------------------------------------
(* Processes. *)

(* bind_prepared_app never binds the title being released.                    *)
LEMMA BindPreserves ==
  ASSUME OwnersInv, NEW t \in Titles, NEW app \in Apps \cup {0}, NEW p \in Pids,
         NEW managed \in BOOLEAN, bind_prepared_app(t, app, p, managed)
  PROVE  OwnersInv'
  <1>1. /\ prepared'.title_id = prepared.title_id /\ prepared' \in MountOwner
        /\ outgoing'.title_id = outgoing.title_id /\ outgoing' \in MountOwner
    BY BoundFacts DEF bind_prepared_app, OwnersInv, OwnersTypeOK
  <1>2. /\ prepared.title_id # t => prepared' = prepared
        /\ outgoing.title_id # t => outgoing' = outgoing
        /\ releasing_title_id # t
    BY DEF bind_prepared_app, CanBind
  <1>3. OwnersTypeOK' /\ GatesHaveOwner'
    BY <1>1, <1>2, OwnerConstants
    DEF bind_prepared_app, OwnersInv, OwnersTypeOK, GatesHaveOwner
  <1>4. DistinctOwners'
    BY <1>1 DEF OwnersInv, DistinctOwners
  <1>5. ReleaseNeverLive'
    BY <1>1, <1>2 DEF OwnersInv, ReleaseNeverLive, Live, bind_prepared_app
  <1>6. QED
    BY <1>3, <1>4, <1>5 DEF OwnersInv

(* Noting an exit keeps both titles and ends a live owner.                    *)
LEMMA ExitPreserves ==
  ASSUME OwnersInv, NEW p \in Pids, note_game_exit(p)
  PROVE  OwnersInv'
  <1>1. /\ prepared'.title_id = prepared.title_id /\ prepared' \in MountOwner
        /\ outgoing'.title_id = outgoing.title_id /\ outgoing' \in MountOwner
    BY ExitedFacts DEF note_game_exit, OwnersInv, OwnersTypeOK
  <1>2. /\ prepared' = prepared \/ (prepared.pid = p /\ prepared'.game_exited)
        /\ outgoing' = outgoing \/ (outgoing.pid = p /\ outgoing'.game_exited)
    BY ExitedFacts DEF note_game_exit, OwnersInv, OwnersTypeOK
  <1>3. OwnersTypeOK' /\ GatesHaveOwner'
    BY <1>1, <1>2, OwnerConstants, NoOwnerFacts
    DEF note_game_exit, OwnersInv, OwnersTypeOK, GatesHaveOwner
  <1>4. DistinctOwners'
    BY <1>1 DEF OwnersInv, DistinctOwners
  <1>5. ReleaseNeverLive'
    BY <1>1, <1>2 DEF OwnersInv, ReleaseNeverLive, Live, note_game_exit
  <1>6. QED
    BY <1>3, <1>4, <1>5 DEF OwnersInv

-----------------------------------------------------------------------------
(* Launch requests and the mutation gate leave the slots alone. *)

(* begin, abandon and cancel of a launch keep the invariant.                  *)
LEMMA LaunchPreserves ==
  ASSUME OwnersInv, NEW t \in Titles, LaunchCall(t)
  PROVE  OwnersInv'
  <1>1. /\ UNCHANGED <<prepared, outgoing, prepare_in_progress>>
        /\ UNCHANGED <<external_mutation_in_progress, releasing_title_id>>
    BY DEF LaunchCall, set_pending_launch, reject_pending_launch, fail_pending_launch
  <1>2. pending_launch_title_id' \in Titles \cup {NoTitle}
    BY DEF LaunchCall, set_pending_launch, reject_pending_launch, fail_pending_launch,
       OwnersInv, OwnersTypeOK
  <1>3. launch_pending' \in BOOLEAN /\ (launch_pending' => launch_pending)
    <2>1. launch_pending \in BOOLEAN
      BY DEF OwnersInv, OwnersTypeOK
    <2>2. CASE set_pending_launch(t) \/ reject_pending_launch(t)
      BY <2>1, <2>2 DEF set_pending_launch, reject_pending_launch
    <2>3. CASE fail_pending_launch(t)
      BY <2>3, Zenon DEF fail_pending_launch
    <2>4. QED
      BY <2>2, <2>3 DEF LaunchCall
  <1>4. OwnersTypeOK'
    BY <1>1, <1>2, <1>3 DEF OwnersInv, OwnersTypeOK
  <1>5. DistinctOwners' /\ ReleaseNeverLive'
    BY <1>1 DEF OwnersInv, DistinctOwners, ReleaseNeverLive, Live
  <1>6. GatesHaveOwner'
    BY <1>1, <1>3 DEF OwnersInv, GatesHaveOwner
  <1>7. QED
    BY <1>4, <1>5, <1>6 DEF OwnersInv

(* Entering and leaving the mutation gate keeps the invariant.                *)
LEMMA GatePreserves ==
  ASSUME OwnersInv, begin_external_mutation \/ end_external_mutation
  PROVE  OwnersInv'
  <1>1. /\ UNCHANGED <<prepared, outgoing, prepare_in_progress, launch_pending>>
        /\ UNCHANGED <<pending_launch_title_id, releasing_title_id>>
        /\ external_mutation_in_progress' \in BOOLEAN
    BY Zenon DEF begin_external_mutation, end_external_mutation
  <1>2. OwnersTypeOK'
    BY <1>1 DEF OwnersInv, OwnersTypeOK
  <1>3. DistinctOwners' /\ ReleaseNeverLive' /\ GatesHaveOwner'
    BY <1>1 DEF OwnersInv, DistinctOwners, ReleaseNeverLive, GatesHaveOwner, Live
  <1>4. QED
    BY <1>2, <1>3 DEF OwnersInv

(* Every critical section of g_service.mutex keeps the invariant.             *)
LEMMA OwnersNextPreserves ==
  ASSUME OwnersInv, [OwnersNext]_ownerVars
  PROVE  OwnersInv'
  <1>1. ASSUME NEW t \in Titles, ClaimCall(t) PROVE OwnersInv'
    BY <1>1, ClaimPreserves, RollbackPreserves, FinishPreserves DEF ClaimCall
  <1>2. ASSUME NEW t \in Titles, ReleaseCall(t) PROVE OwnersInv'
    BY <1>2, BeginReleasePreserves, ClearOwnerPreserves, EndReleasePreserves
    DEF ReleaseCall
  <1>3. ASSUME NEW t \in Titles, ProcessCall(t) PROVE OwnersInv'
    BY <1>3, BindPreserves, ExitPreserves DEF ProcessCall
  <1>4. CASE UNCHANGED ownerVars
    BY <1>4 DEF OwnersInv, OwnersTypeOK, DistinctOwners, ReleaseNeverLive,
       GatesHaveOwner, ownerVars, Live
  <1>5. QED
    BY <1>1, <1>2, <1>3, <1>4, LaunchPreserves, GatePreserves DEF OwnersNext

-----------------------------------------------------------------------------
(* Whatever the threads call, the ownership table keeps its four invariants. *)
THEOREM OwnersInvariance == OwnersSpec => []OwnersInv
  <1>1. OwnersInit => OwnersInv
    BY OwnersInitHolds
  <1>2. OwnersInv /\ [OwnersNext]_ownerVars => OwnersInv'
    BY OwnersNextPreserves
  <1>3. QED
    BY <1>1, <1>2, PTL DEF OwnersSpec

(* The slots and gates have their types, and a slot without a title is wiped. *)
THEOREM OwnersTypeCorrect == OwnersSpec => []OwnersTypeOK
  <1>1. OwnersInv => OwnersTypeOK
    BY DEF OwnersInv
  <1>2. QED
    BY <1>1, OwnersInvariance, PTL

(* No title is owned by both slots. *)
THEOREM OwnersAreDistinct == OwnersSpec => []DistinctOwners
  <1>1. OwnersInv => DistinctOwners
    BY DEF OwnersInv
  <1>2. QED
    BY <1>1, OwnersInvariance, PTL

(* A title under release never belongs to a live process. *)
THEOREM ReleasesAreNeverLive == OwnersSpec => []ReleaseNeverLive
  <1>1. OwnersInv => ReleaseNeverLive
    BY DEF OwnersInv
  <1>2. QED
    BY <1>1, OwnersInvariance, PTL

(* The preparation and launch gates are up only with a prepared owner. *)
THEOREM GatesAlwaysHaveOwner == OwnersSpec => []GatesHaveOwner
  <1>1. OwnersInv => GatesHaveOwner
    BY DEF OwnersInv
  <1>2. QED
    BY <1>1, OwnersInvariance, PTL

-----------------------------------------------------------------------------
(* The threads of the service. *)

MountPcs == {"mounted", "images", "title", "finish", "failed"}

ReleasePcs == {"layers", "chain", "detach", "busy", "released", "unmount"}

GatePcs == {"inactive", "images", "title", "finish", "failed",
            "sweep", "stacks", "sources", "done"}

UntitledPcs == {"idle", "reply", "gate", "sweep", "stacks", "sources", "done"}

Pcs == MountPcs \cup ReleasePcs \cup GatePcs \cup UntitledPcs
         \cup {"claim", "release", "rejected", "abandon", "guard", "reset",
               "bind", "defer", "enter"}

Calls == [pc : Pcs, title : Titles \cup {NoTitle}, pid : Pids \cup {0}, launch : BOOLEAN,
          claimed : BOOLEAN, public : BOOLEAN, expected : MountOwner,
          victims : SUBSET (Titles \cup Images), ok : BOOLEAN, gate : BOOLEAN,
          next : Titles \cup {NoTitle}]

Games == [pid : Pids \cup {0}, title_id : Titles \cup {NoTitle}, leaving : BOOLEAN]

Hooks == [phase : {"idle", "launch", "app", "failed", "failing"},
          title : Titles \cup {NoTitle}, fresh : BOOLEAN, granted : BOOLEAN]

(* A process is watched from its start until its exit was read, and does not  *)
(* come back.                                                                 *)
WorldOK ==
  /\ titles \subseteq Titles /\ images \subseteq Images
  /\ proc \in [Threads -> Calls] /\ game \in Games /\ hook \in Hooks
  /\ process \in [Pids -> Titles \cup {NoTitle}]
  /\ \A p \in alive \cup execs \cup exits : p \in Pids /\ process[p] # NoTitle
  /\ alive \cap exits = {}

(* What a thread is doing: it has a title, only the worker enters the         *)
(* mutation gate, only the service thread has a launch to go on with, and a   *)
(* release under way is the one of its title.                                 *)
CallFits(th, c, releasing) ==
  /\ c.pc \notin UntitledPcs => c.title \in Titles
  /\ c.pc \in MountPcs \cup {"enter", "inactive"} => c.title \in Managed
  /\ c.gate => th = "worker" /\ c.pc \in GatePcs
  /\ c.next # NoTitle => th = "service"
  /\ c.expected # NoOwner => c.expected.game_exited
  /\ c.pc \in ReleasePcs => releasing = c.title
  /\ c.pc = "release" /\ th # "service" => c.public \/ c.expected # NoOwner
  /\ c.pc = "rejected" => ~c.ok
  /\ c.pc \in {"sweep", "stacks", "sources", "done", "inactive"} => c.gate

CallsOK == \A th \in Threads : CallFits(th, proc[th], releasing_title_id)

(* The gates are up only while a thread holds them; one release at a time.    *)
Prepares(c, t) == c.pc \in MountPcs /\ c.title = t /\ ~c.gate

Releases(c, t) == c.pc \in ReleasePcs /\ c.title = t

GatesOK ==
  /\ prepare_in_progress => \E th \in Threads : Prepares(proc[th], prepared.title_id)
  /\ external_mutation_in_progress <=> proc["worker"].gate
  /\ releasing_title_id # NoTitle => \E th \in Threads : Releases(proc[th], releasing_title_id)
  /\ \A a, b \in Threads : proc[a].pc \in ReleasePcs /\ proc[b].pc \in ReleasePcs => a = b

(* The watcher publishes and binds processes it has seen start.               *)
BindPcs == MountPcs \cup {"claim", "bind", "defer"}

WatcherOK ==
  LET w == proc["watcher"]
  IN  w.pc \in BindPcs => /\ w.pid \in alive \cup exits /\ process[w.pid] = w.title
                          /\ game.leaving => game.title_id = w.title

GameOK ==
  /\ game # NoGame => /\ game.pid \in Pids /\ process[game.pid] = game.title_id
                      /\ game.title_id \in Titles
  /\ game.leaving => game # NoGame /\ game.pid \notin alive

(* An owner has the title of its process, and as long as it is live the exit  *)
(* of the process is still to be noted.                                       *)
Tracked(o) ==
  /\ o.pid # 0 => process[o.pid] = o.title_id
  /\ Live(o) => o.pid \in alive \cup exits \/ (game.leaving /\ game.pid = o.pid)

OwnersTracked == Tracked(prepared) /\ Tracked(outgoing)

(* A mounted stack has its images below it.                                   *)
StacksOK == \A t \in titles : chain[t] \subseteq images

(* What the service thread does for the hook's launch of title t.             *)
Serves(s, t) ==
  \/ s.pc \in {"abandon", "claim", "rejected", "reply"} \cup MountPcs /\ s.title = t
  \/ /\ s.pc \in {"release", "layers", "chain", "detach", "busy", "released"}
     /\ s.next = t /\ s.title # t

HookOK ==
  /\ hook.phase # "idle" => hook.title \in Titles
  /\ hook.phase = "launch" => ~hook.granted /\ Serves(proc["service"], hook.title)
  /\ hook.phase = "app" /\ hook.granted => proc["service"].pc = "idle"

(* The launch may still be granted, or was; it has claimed its title; it has  *)
(* mounted it.                                                                *)
OpenCall(h, s) ==
  /\ h.fresh /\ h.title \in Managed
  /\ \/ h.phase = "launch" /\ s.pc # "rejected" /\ (s.pc = "reply" => s.ok)
     \/ h.phase = "app" /\ h.granted

Open == OpenCall(hook, proc["service"])

Preparing == Open /\ hook.phase = "launch" /\ proc["service"].pc \in MountPcs

HasClaimed == Open /\ (hook.phase = "launch" => proc["service"].pc \in MountPcs \cup {"reply"})

HasMounted == Open /\ (hook.phase = "launch" => proc["service"].pc \in {"finish", "reply"})

(* While it is open nobody else takes the title: no process of it is left,    *)
(* no release of it begins, and another mount of it is refused or finds the   *)
(* title prepared.                                                            *)
OpenOK ==
  Open => /\ Settled(hook.title)
          /\ pending_launch_title_id = hook.title
          /\ releasing_title_id # hook.title
          /\ proc["watcher"].title = hook.title => proc["watcher"].pc = "release"
          /\ proc["worker"].title = hook.title => ~proc["worker"].gate
          /\ Prepares(proc["worker"], hook.title) =>
               prepare_in_progress /\ prepared.title_id = hook.title

PreparingOK ==
  Preparing => /\ prepare_in_progress /\ prepared.title_id = hook.title
               /\ ~Prepares(proc["worker"], hook.title)

ClaimedOK == HasClaimed => ~external_mutation_in_progress /\ Owned(hook.title)

MountedOK ==
  HasMounted => /\ hook.title \in titles
                /\ Prepares(proc["worker"], hook.title) =>
                     proc["worker"].pc \in {"mounted", "finish"} /\ ~proc["worker"].claimed

ServiceInv ==
  /\ OwnersInv /\ WorldOK /\ CallsOK /\ GatesOK /\ WatcherOK /\ GameOK /\ OwnersTracked
  /\ StacksOK /\ HookOK /\ OpenOK /\ PreparingOK /\ ClaimedOK /\ MountedOK

-----------------------------------------------------------------------------
(* What the steps write into a thread's call.                                 *)

(* A thread outside every call.                                               *)
LEMMA IdleFacts ==
  /\ Idle \in Calls /\ Idle.pc = "idle" /\ Idle.title = NoTitle /\ Idle.next = NoTitle
  /\ Idle.expected = NoOwner /\ Idle.pid = 0
  /\ Idle.gate = FALSE /\ Idle.claimed = FALSE /\ Idle.public = FALSE /\ Idle.ok = TRUE
<1>1. NoOwner \in MountOwner
  BY NoOwnerFacts
<1>2. Idle \in Calls
  BY <1>1, Zenon DEF Idle, Calls, Pcs, UntitledPcs
<1> QED
  BY <1>2 DEF Idle

(* Moving one thread's call leaves the other threads' calls alone.            *)
LEMMA AssignFacts ==
  ASSUME proc \in [Threads -> Calls], NEW th \in Threads, NEW c \in Calls,
         proc' = [proc EXCEPT ![th] = c]
  PROVE  /\ proc' \in [Threads -> Calls] /\ proc'[th] = c
         /\ \A o \in Threads : o # th => proc'[o] = proc[o]
  OBVIOUS

(* What a step within a call keeps of it.                                     *)
SameCall(d, c) ==
  /\ d.title = c.title /\ d.pid = c.pid /\ d.launch = c.launch /\ d.public = c.public
  /\ d.expected = c.expected /\ d.next = c.next

WithPc(c, pc) == [c EXCEPT !.pc = pc]

WithClaimed(c, pc, claimed) == [c EXCEPT !.pc = pc, !.claimed = claimed]

WithOk(c, pc, ok) == [c EXCEPT !.pc = pc, !.ok = ok]

WithGate(c, pc, gate) == [c EXCEPT !.pc = pc, !.gate = gate]

WithVictims(c, pc, v) == [c EXCEPT !.pc = pc, !.victims = v]

WithVictimsOk(c, pc, v, ok) == [c EXCEPT !.pc = pc, !.victims = v, !.ok = ok]

(* A step that moves on only.                                                 *)
LEMMA SetPc ==
  ASSUME NEW c \in Calls, NEW pc \in Pcs, NEW d, d = WithPc(c, pc)
  PROVE  /\ d \in Calls /\ SameCall(d, c) /\ d.pc = pc
         /\ d.claimed = c.claimed /\ d.ok = c.ok /\ d.gate = c.gate
<1>1. d \in Calls
  BY Zenon DEF Calls, WithPc
<1> QED
  BY <1>1 DEF Calls, SameCall, WithPc

(* A step that moves on and notes whether the claim was fresh.                *)
LEMMA SetClaimed ==
  ASSUME NEW c \in Calls, NEW pc \in Pcs, NEW claimed \in BOOLEAN, NEW d,
         d = WithClaimed(c, pc, claimed)
  PROVE  /\ d \in Calls /\ SameCall(d, c) /\ d.pc = pc
         /\ d.claimed = claimed /\ d.ok = c.ok /\ d.gate = c.gate
<1>1. d \in Calls
  BY Zenon DEF Calls, WithClaimed
<1> QED
  BY <1>1 DEF Calls, SameCall, WithClaimed

(* A step that moves on and notes a result.                                   *)
LEMMA SetOk ==
  ASSUME NEW c \in Calls, NEW pc \in Pcs, NEW ok \in BOOLEAN, NEW d,
         d = WithOk(c, pc, ok)
  PROVE  /\ d \in Calls /\ SameCall(d, c) /\ d.pc = pc
         /\ d.claimed = c.claimed /\ d.ok = ok /\ d.gate = c.gate
<1>1. d \in Calls
  BY Zenon DEF Calls, WithOk
<1> QED
  BY <1>1 DEF Calls, SameCall, WithOk

(* A step that moves on behind the mutation gate, or leaves it.               *)
LEMMA SetGate ==
  ASSUME NEW c \in Calls, NEW pc \in Pcs, NEW gate \in BOOLEAN, NEW d,
         d = WithGate(c, pc, gate)
  PROVE  /\ d \in Calls /\ SameCall(d, c) /\ d.pc = pc
         /\ d.claimed = c.claimed /\ d.ok = c.ok /\ d.gate = gate
<1>1. d \in Calls
  BY Zenon DEF Calls, WithGate
<1> QED
  BY <1>1 DEF Calls, SameCall, WithGate

(* A step that moves on with a set of mounts to take down.                    *)
LEMMA SetVictims ==
  ASSUME NEW c \in Calls, NEW pc \in Pcs, NEW v \in SUBSET (Titles \cup Images), NEW d,
         d = WithVictims(c, pc, v)
  PROVE  /\ d \in Calls /\ SameCall(d, c) /\ d.pc = pc
         /\ d.claimed = c.claimed /\ d.ok = c.ok /\ d.gate = c.gate
<1>1. d \in Calls
  BY Zenon DEF Calls, WithVictims
<1> QED
  BY <1>1 DEF Calls, SameCall, WithVictims

(* A step that moves on with a set of mounts and a result.                    *)
LEMMA SetVictimsOk ==
  ASSUME NEW c \in Calls, NEW pc \in Pcs, NEW v \in SUBSET (Titles \cup Images),
         NEW ok \in BOOLEAN, NEW d, d = WithVictimsOk(c, pc, v, ok)
  PROVE  /\ d \in Calls /\ SameCall(d, c) /\ d.pc = pc
         /\ d.claimed = c.claimed /\ d.ok = ok /\ d.gate = c.gate
<1>1. d \in Calls
  BY Zenon DEF Calls, WithVictimsOk
<1> QED
  BY <1>1 DEF Calls, SameCall, WithVictimsOk

(* A call that starts: of a launch, of a release, of an unmount request.      *)
LaunchOf(pc, t, p) ==
  [pc |-> pc, title |-> t, pid |-> p, launch |-> TRUE, claimed |-> FALSE, public |-> FALSE,
   expected |-> NoOwner, victims |-> {}, ok |-> TRUE, gate |-> FALSE, next |-> NoTitle]

ReleaseOf(pc, t, expected, next) ==
  [pc |-> pc, title |-> t, pid |-> 0, launch |-> FALSE, claimed |-> FALSE, public |-> FALSE,
   expected |-> expected, victims |-> {}, ok |-> TRUE, gate |-> FALSE, next |-> next]

UnmountOf(pc, t) ==
  [pc |-> pc, title |-> t, pid |-> 0, launch |-> FALSE, claimed |-> FALSE, public |-> TRUE,
   expected |-> NoOwner, victims |-> {}, ok |-> TRUE, gate |-> FALSE, next |-> NoTitle]

(* The call that prepares a launched title.                                   *)
LEMMA LaunchOfFacts ==
  ASSUME NEW pc \in Pcs, NEW t \in Titles \cup {NoTitle}, NEW p \in Pids \cup {0}, NEW d,
         d = LaunchOf(pc, t, p)
  PROVE  /\ d \in Calls /\ d.pc = pc /\ d.title = t /\ d.pid = p /\ ~d.public
         /\ d.expected = NoOwner /\ d.next = NoTitle
         /\ ~d.claimed /\ d.ok /\ ~d.gate
<1>1. NoOwner \in MountOwner
  BY NoOwnerFacts
<1>2. d \in Calls
  BY <1>1, Zenon DEF Calls, LaunchOf
<1> QED
  BY <1>2 DEF LaunchOf

(* The call that releases a title, after which next may be prepared.          *)
LEMMA ReleaseOfFacts ==
  ASSUME NEW pc \in Pcs, NEW t \in Titles \cup {NoTitle},
         NEW expected \in MountOwner, NEW next \in Titles \cup {NoTitle}, NEW d,
         d = ReleaseOf(pc, t, expected, next)
  PROVE  /\ d \in Calls /\ d.pc = pc /\ d.title = t /\ d.pid = 0 /\ ~d.public
         /\ d.expected = expected /\ d.next = next
         /\ ~d.claimed /\ d.ok /\ ~d.gate
<1>1. NoOwner \in MountOwner
  BY NoOwnerFacts
<1>2. d \in Calls
  BY <1>1, Zenon DEF Calls, ReleaseOf
<1> QED
  BY <1>2 DEF ReleaseOf

(* The call of an API unmount.                                                *)
LEMMA UnmountOfFacts ==
  ASSUME NEW pc \in Pcs, NEW t \in Titles \cup {NoTitle}, NEW d,
         d = UnmountOf(pc, t)
  PROVE  /\ d \in Calls /\ d.pc = pc /\ d.title = t /\ d.pid = 0 /\ d.public
         /\ d.expected = NoOwner /\ d.next = NoTitle
         /\ ~d.claimed /\ d.ok /\ ~d.gate
<1>1. NoOwner \in MountOwner
  BY NoOwnerFacts
<1>2. d \in Calls
  BY <1>1, Zenon DEF Calls, UnmountOf
<1> QED
  BY <1>2 DEF UnmountOf

(* What the invariant says of one thread's call.                              *)
LEMMA ThreadFacts ==
  ASSUME ServiceInv, NEW th \in Threads
  PROVE  /\ proc[th] \in Calls /\ CallFits(th, proc[th], releasing_title_id)
         /\ proc[th].title \in Titles \cup {NoTitle} /\ proc[th].next \in Titles \cup {NoTitle}
         /\ proc[th].pid \in Pids \cup {0} /\ proc[th].expected \in MountOwner
         /\ proc[th].launch \in BOOLEAN /\ proc[th].public \in BOOLEAN
         /\ proc[th].gate \in BOOLEAN /\ proc[th].claimed \in BOOLEAN /\ proc[th].ok \in BOOLEAN
<1>1. proc[th] \in Calls /\ CallFits(th, proc[th], releasing_title_id)
  BY DEF ServiceInv, WorldOK, CallsOK
<1> QED
  BY <1>1 DEF Calls

-----------------------------------------------------------------------------
(* Every step is a critical section of the ownership table or leaves it alone.*)

(* A mount claims, finishes or rolls back.                                    *)
LEMMA MountIsOwners ==
  ASSUME ServiceInv, NEW th \in Threads, MountStep(th)
  PROVE  [OwnersNext]_ownerVars
<1> DEFINE t == Title(th)
<1>1. CallFits(th, proc[th], releasing_title_id) /\ proc[th].launch \in BOOLEAN
  BY ThreadFacts
<1>2. CASE Claim(th)
  <2>1. CASE UNCHANGED ownerVars
    BY <2>1
  <2>2. CASE t \in Managed /\ claim_prepared_title(t, proc[th].launch)
    <3>1. t \in Titles
      BY <2>2, ServiceConstants
    <3>2. ClaimCall(t)
      BY <1>1, <2>2 DEF ClaimCall
    <3> QED
      BY <3>1, <3>2 DEF OwnersNext
  <2> QED
    BY <1>2, <2>1, <2>2, Zenon DEF Claim
<1>3. CASE CheckMounted(th) \/ PrepareImages(th) \/ PrepareTitle(th)
  BY <1>3 DEF CheckMounted, PrepareImages, PrepareTitle
<1>4. CASE FinishPrepare(th)
  <2>1. t \in Titles
    BY <1>1, <1>4 DEF CallFits, FinishPrepare, At, UntitledPcs, Title
  <2> QED
    BY <1>4, <2>1, Zenon DEF FinishPrepare, OwnersNext, ClaimCall
<1>5. CASE FailPrepare(th)
  <2>1. t \in Titles
    BY <1>1, <1>5 DEF CallFits, FailPrepare, At, UntitledPcs, Title
  <2>2. end_external_mutation \/ rollback_prepared_title(t) \/ finish_prepared_title(t, TRUE)
    BY <1>5, Zenon DEF FailPrepare
  <2> QED
    BY <2>1, <2>2, Zenon DEF OwnersNext, ClaimCall
<1> QED
  BY <1>2, <1>3, <1>4, <1>5, Zenon DEF MountStep

(* A release that begins names no owner, or the snapshot of one that is still *)
(* the same and has exited.                                                   *)
LEMMA BeginIsOwners ==
  ASSUME ServiceInv, NEW t \in Titles, NEW public \in BOOLEAN, NEW expected,
         NEW active \in BOOLEAN, expected # NoOwner => expected.game_exited,
         begin_runtime_release(t, public, expected, active)
  PROVE  OwnersNext
<1>1. expected # NoOwner => expected \in {prepared, outgoing} /\ expected.title_id = t
  BY DEF begin_runtime_release, CanRelease, Superseded, Owned, find_mount_owner
<1>2. ReleaseCall(t)
  BY <1>1 DEF ReleaseCall
<1> QED
  BY <1>2 DEF OwnersNext

(* A release begins, forgets its owner and ends as the table says.            *)
LEMMA ReleaseIsOwners ==
  ASSUME ServiceInv, NEW th \in Threads, ReleaseStep(th)
  PROVE  [OwnersNext]_ownerVars
<1> DEFINE t == Title(th)
<1>1. CallFits(th, proc[th], releasing_title_id) /\ proc[th].public \in BOOLEAN
  BY ThreadFacts
<1>2. CASE BeginRelease(th)
  <2>1. CASE UNCHANGED ownerVars
    BY <2>1
  <2>2. CASE begin_runtime_release(proc[th].title, proc[th].public, proc[th].expected,
                                   has_active_game)
    <3>1. /\ proc[th].title \in Titles
          /\ proc[th].expected # NoOwner => proc[th].expected.game_exited
      BY <1>1, <1>2 DEF CallFits, BeginRelease, At, UntitledPcs
    <3>2. has_active_game \in BOOLEAN
      BY Zenon DEF has_active_game
    <3> QED
      BY <1>1, <2>2, <3>1, <3>2, BeginIsOwners, Zenon
  <2> QED
    BY <1>2, <2>1, <2>2, Zenon DEF BeginRelease
<1>3. CASE UnmountTitleLayers(th) \/ ChooseImages(th) \/ DetachImages(th) \/ RetryRelease(th)
  BY <1>3 DEF UnmountTitleLayers, ChooseImages, DetachImages, RetryRelease
<1>4. CASE ForgetOwner(th) \/ FinishRelease(th)
  <2>1. t \in Titles /\ releasing_title_id = t
    BY <1>1, <1>4 DEF CallFits, ForgetOwner, FinishRelease, At, UntitledPcs, ReleasePcs, Title
  <2>2. clear_owned_title(t) \/ end_runtime_release(t)
    BY <1>4 DEF ForgetOwner, FinishRelease
  <2> QED
    BY <2>1, <2>2, Zenon DEF OwnersNext, ReleaseCall
<1> QED
  BY <1>2, <1>3, <1>4 DEF ReleaseStep

(* The handlers of the hook's messages use the table as it says.              *)
LEMMA ServiceIsOwners ==
  ASSUME ServiceInv, ServiceStep
  PROVE  [OwnersNext]_ownerVars
<1>1. CallFits("service", proc["service"], releasing_title_id)
  BY ThreadFacts DEF Threads
<1>2. CASE cleanup_abandoned_launch \/ Reply \/ GuardedRelease \/ ResetTitleMount
  BY <1>2 DEF cleanup_abandoned_launch, Reply, GuardedRelease, ResetTitleMount
<1>3. CASE RejectLaunch
  <2>1. Title("service") \in Titles
    BY <1>1, <1>3 DEF CallFits, RejectLaunch, At, UntitledPcs, Title
  <2> QED
    BY <1>3, <2>1, Zenon DEF RejectLaunch, OwnersNext, LaunchCall
<1>4. CASE LaunchFailedRequest
  <2>1. hook.title \in Titles
    BY <1>4 DEF LaunchFailedRequest, ServiceInv, HookOK
  <2> QED
    BY <1>4, <2>1 DEF LaunchFailedRequest, OwnersNext, LaunchCall
<1>5. CASE BeginReset
  <2>1. Title("service") \in Titles
    BY <1>1, <1>5 DEF CallFits, BeginReset, At, UntitledPcs, Title
  <2>2. CASE UNCHANGED ownerVars
    BY <2>2
  <2>3. CASE begin_runtime_release(Title("service"), FALSE, NoOwner, has_active_game)
    <3>1. has_active_game \in BOOLEAN
      BY DEF has_active_game
    <3> QED
      BY <2>1, <2>3, <3>1, BeginIsOwners, Zenon
  <2> QED
    BY <1>5, <2>2, <2>3, Zenon DEF BeginReset
<1> QED
  BY <1>2, <1>3, <1>4, <1>5, Zenon DEF ServiceStep

(* The watcher binds and notes exits as the table says.                       *)
LEMMA WatcherIsOwners ==
  ASSUME ServiceInv, WatcherStep
  PROVE  [OwnersNext]_ownerVars
<1>1. /\ CallFits("watcher", proc["watcher"], releasing_title_id)
      /\ proc["watcher"].pid \in Pids \cup {0}
  BY ThreadFacts DEF Threads
<1>2. ASSUME NEW p \in Pids, DispatchLaunch(p) \/ DropLaunch(p)
      PROVE  [OwnersNext]_ownerVars
  BY <1>2 DEF DispatchLaunch, DropLaunch
<1>3. ASSUME NEW p \in Pids, HandleExit(p)
      PROVE  [OwnersNext]_ownerVars
  <2>1. process[p] \in Titles
    BY <1>3 DEF HandleExit, ServiceInv, WorldOK
  <2>2. UNCHANGED ownerVars \/ note_game_exit(p)
    BY <1>3 DEF HandleExit
  <2> QED
    BY <2>1, <2>2 DEF OwnersNext, ProcessCall
<1>4. CASE BindGame
  <2> DEFINE t == Title("watcher")
             p == proc["watcher"].pid
  <2>1. t \in Titles /\ p \in Pids
    <3>1. t \in Titles /\ p \in alive \cup exits
      BY <1>1, <1>4 DEF CallFits, BindGame, At, UntitledPcs, Title, ServiceInv, WatcherOK, BindPcs
    <3> QED
      BY <3>1, Zenon DEF ServiceInv, WorldOK
  <2>2. CASE UNCHANGED ownerVars
    BY <2>2
  <2>3. ASSUME NEW app \in AppInfo, bind_prepared_app(t, app, p, t \in Managed)
        PROVE  OwnersNext
    <3>1. app \in Apps \cup {0} /\ (t \in Managed) \in BOOLEAN
      BY ServiceConstants
    <3>2. ProcessCall(t)
      BY <2>1, <2>3, <3>1, Zenon DEF ProcessCall
    <3> QED
      BY <2>1, <3>2 DEF OwnersNext
  <2> QED
    BY <1>4, <2>2, <2>3 DEF BindGame
<1>5. CASE DeferLaunch \/ ReleaseExited
  BY <1>5 DEF DeferLaunch, ReleaseExited
<1>6. CASE FinalizeExit
  <2>1. game.title_id \in Titles /\ game.pid \in Pids
    BY <1>6 DEF FinalizeExit, ServiceInv, GameOK
  <2> QED
    BY <1>6, <2>1, Zenon DEF FinalizeExit, OwnersNext, ProcessCall
<1> QED
  BY <1>2, <1>3, <1>4, <1>5, <1>6, Zenon DEF WatcherStep

(* The threads use the ownership table as ShellcoreOwners describes it.       *)
LEMMA StepIsOwners ==
  ASSUME ServiceInv, [ServiceNext]_serviceVars
  PROVE  [OwnersNext]_ownerVars
<1>1. CASE WorkerStep
  BY <1>1, Zenon DEF WorkerStep, MountRequest, EnterMount, CheckInactive, UnmountRequest, ScanRequest,
     EnterScan, BeginSweep, SweepTitles, SweepImages, EndScan, OwnersNext
<1>2. CASE Environment
  BY <1>2, Zenon DEF Environment, LaunchRequest, LaunchApp, ReplaceProcess, ExitProcess, HookTimeout,
     OwnersNext, LaunchCall
<1>3. CASE UNCHANGED serviceVars
  BY <1>3 DEF serviceVars
<1> QED
  BY <1>1, <1>2, <1>3, MountIsOwners, ReleaseIsOwners, ServiceIsOwners, WatcherIsOwners
  DEF ServiceNext

(* Every step keeps the table's invariant.                                    *)
LEMMA StepKeepsOwners ==
  ASSUME ServiceInv, [ServiceNext]_serviceVars
  PROVE  OwnersInv'
  BY StepIsOwners, OwnersNextPreserves, Zenon DEF ServiceInv

-----------------------------------------------------------------------------
(* What a step must show of the call it moves on so that the control part of  *)
(* the invariant is kept: the call fits, the gates it leaves up are held.     *)
LEMMA MoveKeepsControl ==
  ASSUME ServiceInv, NEW th \in Threads, NEW d \in Calls, proc' = [proc EXCEPT ![th] = d],
         CallFits(th, d, releasing_title_id'),
         \/ releasing_title_id' = releasing_title_id
         \/ releasing_title_id = NoTitle
         \/ proc[th].pc \in ReleasePcs,
         prepare_in_progress' => \/ Prepares(d, prepared'.title_id)
                                 \/ /\ prepare_in_progress
                                    /\ prepared'.title_id = prepared.title_id
                                    /\ ~Prepares(proc[th], prepared.title_id),
         external_mutation_in_progress' <=>
           IF th = "worker" THEN d.gate ELSE external_mutation_in_progress,
         releasing_title_id' # NoTitle => \/ Releases(d, releasing_title_id')
                                          \/ /\ releasing_title_id' = releasing_title_id
                                             /\ proc[th].pc \notin ReleasePcs,
         d.pc \in ReleasePcs => proc[th].pc \in ReleasePcs \/ releasing_title_id = NoTitle
  PROVE  proc' \in [Threads -> Calls] /\ CallsOK' /\ GatesOK'
<1>1. /\ proc' \in [Threads -> Calls] /\ proc'[th] = d
      /\ \A o \in Threads : o # th => proc'[o] = proc[o]
  BY AssignFacts, Zenon DEF ServiceInv, WorldOK
<1>2. /\ \A o \in Threads : CallFits(o, proc[o], releasing_title_id)
      /\ \A a, b \in Threads : proc[a].pc \in ReleasePcs /\ proc[b].pc \in ReleasePcs => a = b
  BY Zenon DEF ServiceInv, CallsOK, GatesOK
<1>3. \A o \in Threads : proc[o].pc \in ReleasePcs => releasing_title_id # NoTitle
  BY <1>2, OwnerConstants DEF CallFits, ReleasePcs, UntitledPcs
<1>4. CallsOK'
  <2> SUFFICES ASSUME NEW o \in Threads
               PROVE  CallFits(o, proc'[o], releasing_title_id')
    BY Zenon DEF CallsOK
  <2>1. CASE o = th
    BY <1>1, <2>1, Zenon
  <2>2. CASE o # th
    <3>1. CASE releasing_title_id' = releasing_title_id
      BY <1>1, <1>2, <2>2, <3>1, Zenon
    <3>2. CASE releasing_title_id' # releasing_title_id
      <4>1. proc[o].pc \notin ReleasePcs
        BY <1>2, <1>3, <2>2, <3>2, Zenon
      <4> QED
        BY <1>1, <1>2, <2>2, <4>1, Zenon DEF CallFits
    <3> QED
      BY <3>1, <3>2, Zenon
  <2> QED
    BY <2>1, <2>2, Zenon
<1>5. prepare_in_progress' => \E o \in Threads : Prepares(proc'[o], prepared'.title_id)
  BY <1>1, Zenon DEF ServiceInv, GatesOK
<1>6. external_mutation_in_progress' <=> proc'["worker"].gate
  BY <1>1, Zenon DEF ServiceInv, GatesOK, Threads
<1>7. releasing_title_id' # NoTitle =>
        \E o \in Threads : Releases(proc'[o], releasing_title_id')
  BY <1>1, Zenon DEF ServiceInv, GatesOK, Releases
<1>8. \A a, b \in Threads : proc'[a].pc \in ReleasePcs /\ proc'[b].pc \in ReleasePcs => a = b
  BY <1>1, <1>2, <1>3, Zenon
<1> QED
  BY <1>1, <1>4, <1>5, <1>6, <1>7, <1>8, Zenon DEF GatesOK

(* The processes: a step that moves owners about, or wipes them, keeps what   *)
(* is known of the watched processes, if the watcher does not begin to bind.  *)
LEMMA WatchFrame ==
  ASSUME ServiceInv, UNCHANGED <<game, process, alive, exits>>,
         prepared' \in {prepared, outgoing} \/ prepared'.pid = 0,
         outgoing' \in {prepared, outgoing} \/ outgoing'.pid = 0,
         proc'["watcher"].pc \in BindPcs =>
           /\ proc["watcher"].pc \in BindPcs
           /\ proc'["watcher"].pid = proc["watcher"].pid
           /\ proc'["watcher"].title = proc["watcher"].title
  PROVE  WatcherOK' /\ GameOK' /\ OwnersTracked'
<1>1. WatcherOK'
  BY Zenon DEF ServiceInv, WatcherOK
<1>2. GameOK'
  BY DEF ServiceInv, GameOK
<1>3. Tracked(prepared) /\ Tracked(outgoing)
  BY DEF ServiceInv, OwnersTracked
<1> QED
  BY <1>1, <1>2, <1>3, Zenon DEF OwnersTracked, Tracked, Live

(* Images in use stay, so mounted stacks keep their images.                   *)
LEMMA StacksFrame ==
  ASSUME ServiceInv, titles' \subseteq titles, images \cap BusyImages \subseteq images'
  PROVE  StacksOK'
<1> SUFFICES ASSUME NEW t \in titles' PROVE chain[t] \subseteq images'
  BY DEF StacksOK
<1>1. t \in titles /\ chain[t] \subseteq images
  BY DEF ServiceInv, StacksOK
<1>2. chain[t] \subseteq BusyImages
  BY <1>1, Zenon DEF BusyImages
<1> QED
  BY <1>1, <1>2

-----------------------------------------------------------------------------
(* What an open launch keeps the other threads from doing.                    *)

(* While a launch is open its title can neither be released nor bound to.     *)
LEMMA OpenFacts ==
  ASSUME ServiceInv, Open
  PROVE  /\ hook.title \in Managed /\ hook.title \in Titles /\ hook.title # NoTitle
         /\ launch_preparation_pending /\ ~CanMutate
         /\ \A public, expected, active :
              public \/ expected # NoOwner => ~CanRelease(hook.title, public, expected, active)
         /\ \A o \in {prepared, outgoing} : o.title_id = hook.title => ~Live(o)
<1>1. hook.title \in Managed /\ hook.title \in Titles /\ hook.title # NoTitle
  BY ServiceConstants, OwnerConstants, Zenon DEF Open, OpenCall
<1>2. pending_launch_title_id = hook.title
  BY DEF ServiceInv, OpenOK
<1>3. launch_preparation_pending /\ ~CanMutate
  BY <1>1, <1>2, Zenon DEF launch_preparation_pending, CanMutate
<1>4. \A public, expected, active :
        public \/ expected # NoOwner => ~CanRelease(hook.title, public, expected, active)
  BY <1>2, <1>3 DEF CanRelease, PublicBlocked, Superseded
<1>5. ASSUME NEW o \in {prepared, outgoing}, o.title_id = hook.title, Live(o)
      PROVE  FALSE
  <2>1. process[o.pid] = hook.title
    BY <1>5, Zenon DEF ServiceInv, OwnersTracked, Tracked, Live
  <2>2. Settled(hook.title)
    BY Zenon DEF ServiceInv, OpenOK
  <2>3. game.leaving /\ game.pid = o.pid
    BY <1>5, <2>1, <2>2, Zenon DEF ServiceInv, OwnersTracked, Tracked, Settled
  <2>4. process[game.pid] = game.title_id
    BY <2>3 DEF ServiceInv, GameOK
  <2> QED
    BY <2>1, <2>2, <2>3, <2>4, Zenon DEF Settled
<1> QED
  BY <1>1, <1>3, <1>4, <1>5, Zenon

(* The title of the launch keeps its owner and its gate, and the launch stays *)
(* pending.                                                                   *)
TitleKept(t) ==
  /\ pending_launch_title_id = t => pending_launch_title_id' = t
  /\ Owned(t) => Owned(t)'
  /\ prepare_in_progress /\ prepared.title_id = t =>
       prepare_in_progress' /\ prepared'.title_id = t

(* Critical sections of another title leave the owner of t alone.             *)
LEMMA OtherTitleKeeps ==
  ASSUME OwnersInv, NEW t \in Titles, NEW u \in Titles, u # t,
         \/ rollback_prepared_title(u)
         \/ \E cancel \in BOOLEAN : finish_prepared_title(u, cancel)
         \/ clear_owned_title(u)
         \/ \E app \in Apps \cup {0}, p \in Pids, managed \in BOOLEAN :
              bind_prepared_app(u, app, p, managed)
  PROVE  TitleKept(t)
<1> USE OwnerConstants
<1>1. CASE rollback_prepared_title(u)
  BY <1>1, Zenon DEF rollback_prepared_title, TitleKept, Owned, OwnersInv, OwnersTypeOK
<1>2. CASE \E cancel \in BOOLEAN : finish_prepared_title(u, cancel)
  BY <1>2 DEF finish_prepared_title, TitleKept, Owned
<1>3. CASE clear_owned_title(u)
  BY <1>3 DEF clear_owned_title, TitleKept, Owned
<1>4. CASE \E app \in Apps \cup {0}, p \in Pids, managed \in BOOLEAN :
             bind_prepared_app(u, app, p, managed)
  <2>1. PICK app \in Apps \cup {0}, p \in Pids, managed \in BOOLEAN :
               bind_prepared_app(u, app, p, managed)
    BY <1>4, Zenon
  <2>2. prepared'.title_id = prepared.title_id /\ outgoing'.title_id = outgoing.title_id
    BY <2>1, BoundFacts DEF bind_prepared_app, OwnersInv, OwnersTypeOK
  <2> QED
    BY <2>1, <2>2, Zenon DEF bind_prepared_app, TitleKept, Owned
<1> QED
  BY <1>1, <1>2, <1>3, <1>4, Zenon

(* Noting an exit forgets no title.                                           *)
LEMMA ExitKeepsTitles ==
  ASSUME OwnersInv, NEW p \in Pids, note_game_exit(p)
  PROVE  /\ prepared'.title_id = prepared.title_id /\ outgoing'.title_id = outgoing.title_id
         /\ \A t : TitleKept(t)
<1>1. prepared'.title_id = prepared.title_id /\ outgoing'.title_id = outgoing.title_id
  BY ExitedFacts, Zenon DEF note_game_exit, OwnersInv, OwnersTypeOK
<1> QED
  BY <1>1 DEF note_game_exit, TitleKept, Owned

(* A claim takes the prepared slot; another title only loses it to the        *)
(* outgoing slot, and a launch without a process stays pending.               *)
LEMMA ClaimFacts ==
  ASSUME OwnersInv, NEW u \in Titles, NEW launch \in BOOLEAN, claim_prepared_title(u, launch)
  PROVE  /\ prepare_in_progress' /\ prepared'.title_id = u
         /\ ~prepare_in_progress /\ ~external_mutation_in_progress
         /\ releasing_title_id # u
         /\ UNCHANGED <<external_mutation_in_progress, releasing_title_id>>
         /\ prepared' \in {prepared, outgoing} \/ prepared'.pid = 0
         /\ outgoing' \in {prepared, outgoing} \/ outgoing'.pid = 0
         /\ Owned(u) => ~Claims(u)
         /\ \A t \in Titles :
              (\A o \in {prepared, outgoing} : o.title_id = t => ~Live(o)) => TitleKept(t)
<1> USE OwnerConstants, NoOwnerFacts, OwnerOfFacts
<1>1. /\ prepare_in_progress' /\ prepared'.title_id = u
      /\ ~prepare_in_progress /\ ~external_mutation_in_progress
      /\ releasing_title_id # u
      /\ UNCHANGED <<external_mutation_in_progress, releasing_title_id>>
  BY Zenon DEF claim_prepared_title, CanClaim, ClaimFreeSlot, ClaimSwitch, ClaimAgain
<1>2. /\ prepared' \in {prepared, outgoing} \/ prepared'.pid = 0
      /\ outgoing' \in {prepared, outgoing} \/ outgoing'.pid = 0
  BY DEF claim_prepared_title, ClaimFreeSlot, ClaimSwitch, ClaimAgain
<1>3. Owned(u) => ~Claims(u)
  BY DEF claim_prepared_title, CanClaim, CanSwitch, Owned, Claims
<1>4. ASSUME NEW t \in Titles, \A o \in {prepared, outgoing} : o.title_id = t => ~Live(o)
      PROVE  TitleKept(t)
  <2>1. CASE ClaimFreeSlot(u, launch)
    BY <1>1, <1>4, <2>1
    DEF ClaimFreeSlot, TitleKept, Owned, claim_prepared_title, CanClaim, Live
  <2>2. CASE ClaimSwitch(u)
    BY <1>1, <2>2, Zenon DEF ClaimSwitch, TitleKept, Owned, claim_prepared_title, CanClaim, CanSwitch
  <2>3. CASE ClaimAgain(u, launch)
    BY <1>1, <2>3, Zenon DEF ClaimAgain, TitleKept, Owned
  <2> QED
    BY <2>1, <2>2, <2>3 DEF claim_prepared_title
<1> QED
  BY <1>1, <1>2, <1>3, <1>4, Zenon

LaunchOK == HookOK /\ OpenOK /\ PreparingOK /\ ClaimedOK /\ MountedOK

(* A step of the watcher, the worker or a process: what it must show about an *)
(* open launch.                                                               *)
LEMMA LaunchFrame ==
  ASSUME ServiceInv, hook' = hook, proc'["service"] = proc["service"],
         Open => /\ Settled(hook.title)' /\ pending_launch_title_id' = hook.title
                 /\ /\ prepare_in_progress /\ prepared.title_id = hook.title
                    /\ Preparing \/ Prepares(proc'["worker"], hook.title)
                    => prepare_in_progress' /\ prepared'.title_id = hook.title
                 /\ releasing_title_id' # hook.title
                 /\ external_mutation_in_progress' => external_mutation_in_progress
                 /\ proc'["watcher"].title = hook.title => proc'["watcher"].pc = "release"
                 /\ proc'["worker"].title = hook.title => ~proc'["worker"].gate
                 /\ \/ proc'["worker"] = proc["worker"]
                    \/ ~Prepares(proc'["worker"], hook.title)
                    \/ /\ Prepares(proc["worker"], hook.title)
                       /\ HasMounted => /\ proc'["worker"].pc \in {"mounted", "finish"}
                                        /\ ~proc'["worker"].claimed
                    \/ /\ ~prepare_in_progress /\ prepare_in_progress'
                       /\ prepared'.title_id = hook.title
                       /\ HasMounted => /\ proc'["worker"].pc = "mounted"
                                        /\ ~proc'["worker"].claimed,
         HasClaimed => Owned(hook.title)',
         HasMounted => hook.title \in titles'
  PROVE  LaunchOK'
<1>1. /\ Open' <=> Open
      /\ Preparing' <=> Preparing
      /\ HasClaimed' <=> HasClaimed
      /\ HasMounted' <=> HasMounted
  BY Zenon DEF Open, Preparing, HasClaimed, HasMounted
<1>2. /\ Preparing => Open
      /\ HasClaimed => Open
      /\ HasMounted => Open
  BY Zenon DEF Preparing, HasClaimed, HasMounted
<1>3. HookOK'
  BY Zenon DEF ServiceInv, HookOK
<1>4. OpenOK'
  <2> SUFFICES ASSUME Open PROVE OpenOK'
    BY <1>1, Zenon DEF OpenOK
  <2>1. Prepares(proc["worker"], hook.title) =>
          prepare_in_progress /\ prepared.title_id = hook.title
    BY Zenon DEF ServiceInv, OpenOK
  <2>2. Prepares(proc'["worker"], hook.title) =>
          prepare_in_progress' /\ prepared'.title_id = hook.title
    BY <2>1, Zenon
  <2> QED
    BY <2>2, Zenon DEF OpenOK
<1>5. PreparingOK'
  <2> SUFFICES ASSUME Preparing PROVE PreparingOK'
    BY <1>1, Zenon DEF PreparingOK
  <2>1. /\ prepare_in_progress /\ prepared.title_id = hook.title
        /\ ~Prepares(proc["worker"], hook.title)
    BY Zenon DEF ServiceInv, PreparingOK
  <2>2. prepare_in_progress' /\ prepared'.title_id = hook.title
    BY <1>2, <2>1, Zenon
  <2>3. ~Prepares(proc'["worker"], hook.title)
    BY <1>2, <2>1, Zenon
  <2> QED
    BY <2>2, <2>3, Zenon DEF PreparingOK
<1>6. ClaimedOK'
  <2> SUFFICES ASSUME HasClaimed PROVE ClaimedOK'
    BY <1>1, Zenon DEF ClaimedOK
  <2>1. ~external_mutation_in_progress /\ Owned(hook.title)
    BY Zenon DEF ServiceInv, ClaimedOK
  <2>2. ~external_mutation_in_progress' /\ Owned(hook.title)'
    BY <1>2, <2>1, Zenon
  <2> QED
    BY <2>2, Zenon DEF ClaimedOK
<1>7. MountedOK'
  <2> SUFFICES ASSUME HasMounted PROVE MountedOK'
    BY <1>1, Zenon DEF MountedOK
  <2>1. Prepares(proc["worker"], hook.title) =>
          proc["worker"].pc \in {"mounted", "finish"} /\ ~proc["worker"].claimed
    BY Zenon DEF ServiceInv, MountedOK
  <2>2. Prepares(proc'["worker"], hook.title) =>
          proc'["worker"].pc \in {"mounted", "finish"} /\ ~proc'["worker"].claimed
    BY <1>2, <2>1, Zenon
  <2> QED
    BY <2>2, Zenon DEF MountedOK
<1> QED
  BY <1>3, <1>4, <1>5, <1>6, <1>7, Zenon DEF LaunchOK

(* In particular a step that keeps the title's owner and gate.                *)
LEMMA OthersKeepLaunch ==
  ASSUME ServiceInv, hook' = hook, proc'["service"] = proc["service"],
         Open => /\ Settled(hook.title)' /\ TitleKept(hook.title)
                 /\ releasing_title_id' # hook.title
                 /\ external_mutation_in_progress' => external_mutation_in_progress
                 /\ proc'["watcher"].title = hook.title => proc'["watcher"].pc = "release"
                 /\ proc'["worker"].title = hook.title => ~proc'["worker"].gate
                 /\ \/ proc'["worker"] = proc["worker"]
                    \/ ~Prepares(proc'["worker"], hook.title)
                    \/ /\ Prepares(proc["worker"], hook.title)
                       /\ HasMounted => /\ proc'["worker"].pc \in {"mounted", "finish"}
                                        /\ ~proc'["worker"].claimed
                    \/ /\ ~prepare_in_progress /\ prepare_in_progress'
                       /\ prepared'.title_id = hook.title
                       /\ HasMounted => /\ proc'["worker"].pc = "mounted"
                                        /\ ~proc'["worker"].claimed,
         HasMounted => hook.title \in titles'
  PROVE  LaunchOK'
<1>1. Open => /\ pending_launch_title_id' = hook.title
              /\ /\ prepare_in_progress /\ prepared.title_id = hook.title
                 /\ Preparing \/ Prepares(proc'["worker"], hook.title)
                 => prepare_in_progress' /\ prepared'.title_id = hook.title
  BY Zenon DEF ServiceInv, OpenOK, TitleKept
<1>2. HasClaimed => Open /\ Owned(hook.title)
  BY Zenon DEF ServiceInv, ClaimedOK, HasClaimed
<1>3. HasClaimed => Owned(hook.title)'
  BY <1>2, Zenon DEF TitleKept
<1> QED
  BY <1>1, <1>3, LaunchFrame, Zenon

(* The same for a step of the service thread within its call.                 *)
LEMMA ServiceKeepsLaunch ==
  ASSUME ServiceInv, hook' = hook, proc["service"].pc # "idle",
         proc'["watcher"] = proc["watcher"], proc'["worker"] = proc["worker"],
         UNCHANGED <<game, process, alive, execs, exits>>,
         hook.phase = "launch" => Serves(proc'["service"], hook.title),
         Open' => /\ Open
                  /\ pending_launch_title_id' = pending_launch_title_id
                  /\ releasing_title_id' # hook.title
                  /\ Prepares(proc["worker"], hook.title) =>
                       prepare_in_progress' /\ prepared'.title_id = hook.title,
         Preparing' => /\ prepare_in_progress' /\ prepared'.title_id = hook.title
                       /\ Preparing \/ ~prepare_in_progress,
         HasClaimed' => ~external_mutation_in_progress' /\ Owned(hook.title)',
         HasMounted' => hook.title \in titles' /\ (HasMounted \/ Preparing)
  PROVE  LaunchOK'
<1>1. HookOK'
  BY Zenon DEF ServiceInv, HookOK
<1>2. Open' => OpenOK
  BY Zenon DEF ServiceInv
<1>3. Settled(hook.title)' <=> Settled(hook.title)
  BY Zenon DEF Settled
<1>4. OpenOK'
  BY <1>2, <1>3, Zenon DEF OpenOK
<1>5. PreparingOK'
  <2> SUFFICES ASSUME Preparing' PROVE PreparingOK'
    BY Zenon DEF PreparingOK
  <2>1. Open' /\ Open /\ OpenOK /\ PreparingOK
    BY Zenon DEF Preparing, ServiceInv
  <2>2. ~Prepares(proc["worker"], hook.title)
    BY <2>1, Zenon DEF OpenOK, PreparingOK
  <2> QED
    BY <2>2, Zenon DEF PreparingOK
<1>6. ClaimedOK'
  BY Zenon DEF ClaimedOK
<1>7. MountedOK'
  BY Zenon DEF MountedOK, ServiceInv, PreparingOK
<1> QED
  BY <1>1, <1>4, <1>5, <1>6, <1>7, Zenon DEF LaunchOK

-----------------------------------------------------------------------------
(* The steps of a mount.                                                      *)

(* All of ServiceInv but the table.                                           *)
ThreadsInv ==
  /\ WorldOK /\ CallsOK /\ GatesOK /\ WatcherOK /\ GameOK /\ OwnersTracked
  /\ StacksOK /\ LaunchOK

(* A step within the preparation.                                             *)
LEMMA PreparationKeeps ==
  ASSUME ServiceInv, NEW th \in Threads, NEW pc \in {"images", "title", "finish", "failed"},
         proc[th].pc \in {"mounted", "images", "title"}, Goto(th, pc),
         UNCHANGED <<ownerVars, watchVars, worldVars, hook>>,
         titles' \subseteq Titles, images' \subseteq Images, StacksOK',
         pc = "finish" => Title(th) \in titles',
         HasMounted => /\ hook.title \in titles'
                       /\ th = "worker" /\ Title(th) = hook.title =>
                            pc = "finish" \/ proc[th].gate
  PROVE  ThreadsInv'
<1> DEFINE d == WithPc(proc[th], pc)
<1>1. proc[th] \in Calls /\ CallFits(th, proc[th], releasing_title_id)
  BY ThreadFacts, Zenon
<1>2. /\ d \in Calls /\ SameCall(d, proc[th]) /\ d.pc = pc
      /\ d.claimed = proc[th].claimed /\ d.ok = proc[th].ok /\ d.gate = proc[th].gate
  BY <1>1, SetPc DEF Pcs, MountPcs
<1>3. proc' = [proc EXCEPT ![th] = d]
  BY Zenon DEF Goto, WithPc
<1> HIDE DEF d
<1>4. /\ UNCHANGED <<prepared, outgoing, prepare_in_progress, launch_pending>>
      /\ UNCHANGED <<pending_launch_title_id, external_mutation_in_progress, releasing_title_id>>
      /\ UNCHANGED <<game, execs, exits, process, alive, hook>>
  BY Zenon DEF ownerVars, watchVars, worldVars
<1>5. /\ proc'[th] = d
      /\ \A o \in Threads : o # th => proc'[o] = proc[o]
  BY <1>2, <1>3, AssignFacts, Zenon DEF ServiceInv, WorldOK
<1>6. CallFits(th, d, releasing_title_id')
  BY <1>1, <1>2, <1>4, Zenon DEF CallFits, SameCall, MountPcs, ReleasePcs, UntitledPcs, GatePcs
<1>7. \A t : Prepares(d, t) <=> Prepares(proc[th], t)
  BY <1>2, Zenon DEF Prepares, SameCall, MountPcs
<1>8. proc[th].pc \notin ReleasePcs /\ d.pc \notin ReleasePcs
  BY <1>2 DEF ReleasePcs
<1>9. proc' \in [Threads -> Calls] /\ CallsOK' /\ GatesOK'
  BY <1>2, <1>3, <1>4, <1>6, <1>7, <1>8, MoveKeepsControl, Zenon DEF ServiceInv, GatesOK
<1>10. WatcherOK' /\ GameOK' /\ OwnersTracked'
  BY <1>2, <1>4, <1>5, WatchFrame, Zenon DEF SameCall, Threads, BindPcs, MountPcs
<1>11. WorldOK'
  BY <1>4, <1>9 DEF ServiceInv, WorldOK
<1>12. LaunchOK'
  <2>1. CASE th = "service"
    <3>1. proc'["watcher"] = proc["watcher"] /\ proc'["worker"] = proc["worker"]
      BY <1>5, <2>1, Zenon DEF Threads
    <3>2. hook.phase = "launch" => Serves(d, hook.title)
      BY <1>2, <2>1, Zenon DEF ServiceInv, HookOK, Serves, SameCall, MountPcs
    <3>3. (Open' <=> Open) /\ (Preparing' <=> Preparing)
      BY <1>2, <1>4, <1>5, <2>1, Zenon DEF Open, OpenCall, Preparing, MountPcs
    <3>4. (Open => hook.phase = "launch") /\ (HasClaimed' => HasClaimed) /\ (HasMounted' => Preparing)
      BY <1>2, <1>4, <1>5, <2>1, <3>3, Zenon
      DEF Open, OpenCall, Preparing, HasClaimed, HasMounted, ServiceInv, HookOK, MountPcs
    <3>5. HasMounted' => hook.title \in titles'
      <4>1. HasMounted' => pc = "finish"
        BY <1>2, <1>4, <1>5, <2>1, <3>3, <3>4, Zenon DEF HasMounted
      <4>2. hook.phase = "launch" => Title(th) = hook.title
        BY <2>1, Zenon DEF ServiceInv, HookOK, Serves, Title, MountPcs
      <4> QED
        BY <3>3, <3>4, <4>1, <4>2 DEF HasMounted
    <3>6. Open => /\ releasing_title_id # hook.title
                  /\ Prepares(proc["worker"], hook.title) =>
                       prepare_in_progress /\ prepared.title_id = hook.title
      BY Zenon DEF ServiceInv, OpenOK
    <3>7. Preparing => prepare_in_progress /\ prepared.title_id = hook.title
      BY Zenon DEF ServiceInv, PreparingOK
    <3>8. HasClaimed => ~external_mutation_in_progress /\ Owned(hook.title)
      BY Zenon DEF ServiceInv, ClaimedOK
    <3>9. Owned(hook.title)' <=> Owned(hook.title)
      BY <1>4, Zenon DEF Owned
    <3> QED
      BY <1>4, <1>5, <2>1, <3>1, <3>2, <3>3, <3>4, <3>5, <3>6, <3>7, <3>8, <3>9, ServiceKeepsLaunch, Zenon
  <2>2. CASE th # "service"
    <3>1. TitleKept(hook.title)
      BY <1>4, Zenon DEF TitleKept, Owned
    <3>2. Settled(hook.title)' <=> Settled(hook.title)
      BY <1>4, Zenon DEF Settled
    <3>3. proc'["service"] = proc["service"]
      BY <1>5, <2>2, Zenon DEF Threads
    <3>4. Open => /\ Settled(hook.title) /\ releasing_title_id # hook.title
                  /\ proc["watcher"].title = hook.title => proc["watcher"].pc = "release"
                  /\ proc["worker"].title = hook.title => ~proc["worker"].gate
      BY Zenon DEF ServiceInv, OpenOK
    <3>5. CASE th = "watcher"
      <4>1. proc'["worker"] = proc["worker"] /\ proc'["watcher"] = d
        BY <1>5, <3>5, Zenon DEF Threads
      <4> QED
        BY <1>2, <1>4, <3>1, <3>2, <3>3, <3>4, <3>5, <4>1, OthersKeepLaunch, Zenon DEF SameCall
    <3>6. CASE th = "worker"
      <4>1. proc'["watcher"] = proc["watcher"] /\ proc'["worker"] = d
        BY <1>5, <3>6, Zenon DEF Threads
      <4>2. HasMounted /\ Prepares(d, hook.title) => d.pc = "finish" /\ ~d.claimed
        BY <1>2, <1>7, <3>6, Zenon DEF ServiceInv, MountedOK, Prepares, SameCall, Title
      <4> QED
        BY <1>2, <1>4, <1>7, <3>1, <3>2, <3>3, <3>4, <3>6, <4>1, <4>2, OthersKeepLaunch, Zenon
        DEF SameCall
    <3> QED
      BY <2>2, <3>5, <3>6, Zenon DEF Threads
  <2> QED
    BY <2>1, <2>2, Zenon
<1> QED
  BY <1>9, <1>10, <1>11, <1>12, Zenon DEF ThreadsInv

(* CheckMounted: a claimed title that is mounted needs no preparation.        *)
LEMMA CheckMountedKeeps ==
  ASSUME ServiceInv, NEW th \in Threads, CheckMounted(th)
  PROVE  ThreadsInv'
<1> DEFINE pc == IF ~proc[th].claimed /\ Title(th) \in titles THEN "finish" ELSE "images"
<1>1. proc[th].pc = "mounted" /\ Goto(th, pc) /\ UNCHANGED <<titles, images>>
      /\ UNCHANGED <<ownerVars, watchVars, worldVars, hook>>
  BY Zenon DEF CheckMounted, At, runtimeVars
<1>2. pc \in {"images", "title", "finish", "failed"} /\ (pc = "finish" => Title(th) \in titles')
  BY <1>1, Zenon
<1>3. StacksOK' /\ titles' \subseteq Titles /\ images' \subseteq Images
  BY <1>1, Zenon DEF ServiceInv, WorldOK, StacksOK
<1>4. ~proc[th].gate
  BY <1>1, ThreadFacts, Zenon DEF CallFits, GatePcs
<1>5. HasMounted => /\ hook.title \in titles'
                    /\ th = "worker" /\ Title(th) = hook.title => pc = "finish"
  BY <1>1, <1>4, Zenon DEF ServiceInv, MountedOK, Prepares, MountPcs, Title
<1> HIDE DEF pc
<1> QED
  BY <1>1, <1>2, <1>3, <1>5, PreparationKeeps, Zenon

(* PrepareImages mounts some images of the chain, perhaps all.                *)
LEMMA PrepareImagesKeeps ==
  ASSUME ServiceInv, NEW th \in Threads, PrepareImages(th)
  PROVE  ThreadsInv'
<1>1. PICK layers \in SUBSET chain[Title(th)] :
        /\ images' = images \cup layers
        /\ proc' = [proc EXCEPT ![th].pc =
                      IF chain[Title(th)] \subseteq images' THEN "title" ELSE "failed"]
  BY DEF PrepareImages
<1> DEFINE pc == IF chain[Title(th)] \subseteq images' THEN "title" ELSE "failed"
<1>2. proc[th].pc = "images" /\ Goto(th, pc) /\ UNCHANGED titles
      /\ UNCHANGED <<ownerVars, watchVars, worldVars, hook>>
  BY <1>1, Zenon DEF PrepareImages, At, Goto
<1>3. pc \in {"images", "title", "finish", "failed"} /\ pc # "finish"
  BY Zenon
<1>4. Title(th) \in Titles
  BY <1>2, ThreadFacts DEF CallFits, UntitledPcs, Title
<1>5. titles' \subseteq Titles /\ images' \subseteq Images
  BY <1>1, <1>2, <1>4, ServiceConstants DEF ServiceInv, WorldOK
<1>6. StacksOK'
  BY <1>1, <1>2, Zenon DEF ServiceInv, StacksOK
<1>7. HasMounted => /\ hook.title \in titles'
                    /\ th = "worker" /\ Title(th) = hook.title => proc[th].gate
  BY <1>2, Zenon DEF ServiceInv, MountedOK, Prepares, MountPcs, Title
<1> HIDE DEF pc
<1> QED
  BY <1>2, <1>3, <1>5, <1>6, <1>7, PreparationKeeps, Zenon

(* PrepareTitle mounts the stack only over its images.                        *)
LEMMA PrepareTitleKeeps ==
  ASSUME ServiceInv, NEW th \in Threads, PrepareTitle(th)
  PROVE  ThreadsInv'
<1> DEFINE t == Title(th)
<1>1. /\ proc[th].pc = "title" /\ UNCHANGED images
      /\ UNCHANGED <<ownerVars, watchVars, worldVars, hook>>
  BY Zenon DEF PrepareTitle, At
<1>2. t \in Titles
  BY <1>1, ThreadFacts, Zenon DEF CallFits, UntitledPcs, Title
<1>3. PICK pc \in {"finish", "failed"} : Goto(th, pc) /\ (pc = "finish" => t \in titles')
  BY Zenon DEF PrepareTitle
<1>4. /\ titles' \subseteq titles \cup {t} /\ titles \subseteq titles' \cup {t}
      /\ t \in titles' => t \in titles \/ chain[t] \subseteq images
  BY Zenon DEF PrepareTitle
<1>5. titles' \subseteq Titles /\ images' \subseteq Images
  BY <1>1, <1>2, <1>4, Zenon DEF ServiceInv, WorldOK
<1>6. StacksOK'
  BY <1>1, <1>4, Zenon DEF ServiceInv, StacksOK
<1>7. HasMounted => t # hook.title
  <2> SUFFICES ASSUME HasMounted, t = hook.title PROVE FALSE
    BY Zenon
  <2>1. Open /\ OpenOK /\ MountedOK /\ HookOK
    BY Zenon DEF HasMounted, ServiceInv
  <2>2. CASE th = "service"
    BY <1>1, <2>1, <2>2, Zenon DEF HasMounted, Open, OpenCall, HookOK
  <2>3. CASE th = "watcher"
    BY <1>1, <2>1, <2>3, Zenon DEF OpenOK, Title
  <2>4. CASE th = "worker"
    BY <1>1, <2>1, <2>4, Zenon DEF OpenOK, MountedOK, Prepares, MountPcs, Title
  <2> QED
    BY <2>2, <2>3, <2>4, Zenon DEF Threads
<1>8. HasMounted => /\ hook.title \in titles'
                    /\ th = "worker" /\ Title(th) = hook.title => proc[th].gate
  BY <1>4, <1>7, Zenon DEF ServiceInv, MountedOK
<1> QED
  BY <1>1, <1>3, <1>5, <1>6, <1>8, PreparationKeeps, Zenon

(* Where a thread goes on after its mount.                                    *)
LeavesMount(th, d) ==
  \/ th = "service" /\ SameCall(d, proc[th]) /\ d.pc \in {"reply", "rejected"}
                    /\ (d.pc = "rejected" => ~d.ok)
  \/ th = "watcher" /\ SameCall(d, proc[th]) /\ d.pc \in {"bind", "defer"}
  \/ th = "worker" /\ d = Idle

(* What a thread does once its mount has returned.                            *)
LEMMA AfterMountFacts ==
  ASSUME ServiceInv, NEW th \in Threads, NEW ok \in BOOLEAN, ~proc[th].gate \/ th = "worker",
         NEW d, d = AfterMount(th, ok)
  PROVE  /\ d \in Calls /\ LeavesMount(th, d) /\ ~d.gate
         /\ th = "service" => d.ok = ok /\ (d.pc = "reply" <=> ok)
<1>1. proc[th] \in Calls
  BY ThreadFacts, Zenon
<1>2. CASE th = "service"
  <2>1. PICK pc \in Pcs : pc = IF ok THEN "reply" ELSE "rejected"
    BY DEF Pcs, UntitledPcs
  <2>2. d = WithOk(proc[th], pc, ok)
    BY <1>2, <2>1, Zenon DEF AfterMount, WithOk
  <2>3. /\ d \in Calls /\ SameCall(d, proc[th]) /\ d.pc = pc
        /\ d.claimed = proc[th].claimed /\ d.ok = ok /\ d.gate = proc[th].gate
    BY <1>1, <2>2, SetOk
  <2> QED
    BY <1>2, <2>1, <2>3, Zenon DEF LeavesMount
<1>3. CASE th = "watcher"
  <2>1. PICK pc \in Pcs : pc = IF ok THEN "bind" ELSE "defer"
    BY DEF Pcs
  <2>2. d = WithPc(proc[th], pc)
    BY <1>3, <2>1, Zenon DEF AfterMount, WithPc
  <2>3. d \in Calls /\ SameCall(d, proc[th]) /\ d.gate = proc[th].gate /\ d.pc = pc
    BY <1>1, <2>2, SetPc
  <2> QED
    BY <1>3, <2>1, <2>3, Zenon DEF LeavesMount
<1>4. CASE th = "worker"
  <2>1. d = Idle
    BY <1>4, Zenon DEF AfterMount
  <2> QED
    BY <1>4, <2>1, IdleFacts, Zenon DEF LeavesMount
<1> QED
  BY <1>2, <1>3, <1>4, Zenon DEF Threads

(* The launch that claimed its title is preparing it or has mounted it.       *)
LEMMA ClaimedCases ==
  ASSUME HasClaimed
  PROVE  Open /\ (Preparing \/ HasMounted)
  BY Zenon DEF HasClaimed, Preparing, HasMounted

(* A mount that ends, was refused or was not needed.                          *)
LEMMA EndMountKeeps ==
  ASSUME ServiceInv, NEW th \in Threads, NEW t \in Titles, t = Title(th),
         NEW d \in Calls, proc' = [proc EXCEPT ![th] = d],
         proc[th].pc \in MountPcs \cup {"claim"}, LeavesMount(th, d), ~d.gate,
         UNCHANGED <<runtimeVars, watchVars, worldVars, hook>>,
         UNCHANGED <<pending_launch_title_id, releasing_title_id>>,
         prepared' \in {prepared, outgoing} \/ prepared'.pid = 0,
         outgoing' \in {prepared, outgoing} \/ outgoing'.pid = 0,
         prepare_in_progress' => /\ prepare_in_progress
                                 /\ prepared'.title_id = prepared.title_id
                                 /\ ~Prepares(proc[th], prepared.title_id),
         external_mutation_in_progress' <=> external_mutation_in_progress /\ ~proc[th].gate,
         \A u \in Titles : u # t => TitleKept(u),
         proc[th].pc = "claim" => TitleKept(t),
         proc[th].pc = "failed" \/ (Owned(t) => Owned(t)'),
         th = "service" /\ d.pc = "reply" /\ d.ok /\ t \in Managed => proc[th].pc = "finish"
  PROVE  ThreadsInv'
<1>1. proc[th] \in Calls /\ CallFits(th, proc[th], releasing_title_id)
  BY ThreadFacts, Zenon
<1>2. UNCHANGED <<titles, images, game, execs, exits, process, alive, hook>>
  BY Zenon DEF runtimeVars, watchVars, worldVars
<1>3. /\ proc'[th] = d
      /\ \A o \in Threads : o # th => proc'[o] = proc[o]
  BY AssignFacts DEF ServiceInv, WorldOK
<1>4. /\ d.pc \in {"reply", "rejected", "bind", "defer", "idle"}
      /\ CallFits(th, d, releasing_title_id')
  BY <1>1, IdleFacts, Zenon
  DEF CallFits, LeavesMount, SameCall, MountPcs, ReleasePcs, UntitledPcs, GatePcs
<1>5. proc[th].pc \notin ReleasePcs /\ d.pc \notin ReleasePcs
  BY <1>4 DEF ReleasePcs, MountPcs
<1>6. external_mutation_in_progress' <=>
        IF th = "worker" THEN d.gate ELSE external_mutation_in_progress
  BY <1>1, Zenon DEF ServiceInv, GatesOK, CallFits
<1>7. proc' \in [Threads -> Calls] /\ CallsOK' /\ GatesOK'
  BY <1>4, <1>5, <1>6, MoveKeepsControl, Zenon
<1>8. WatcherOK' /\ GameOK' /\ OwnersTracked'
  <2>1. proc'["watcher"].pc \in BindPcs =>
           /\ proc["watcher"].pc \in BindPcs
           /\ proc'["watcher"].pid = proc["watcher"].pid
           /\ proc'["watcher"].title = proc["watcher"].title
    BY <1>3 DEF LeavesMount, SameCall, Threads, BindPcs
  <2> QED
    BY <1>2, <2>1, WatchFrame, Zenon
<1>9. WorldOK' /\ StacksOK'
  BY <1>2, <1>7, Zenon DEF ServiceInv, WorldOK, StacksOK
<1>10. ASSUME Open
       PROVE  /\ hook.title \in Titles /\ Settled(hook.title)'
              /\ pending_launch_title_id' = hook.title /\ releasing_title_id' # hook.title
              /\ external_mutation_in_progress' => external_mutation_in_progress
              /\ proc["watcher"].title = hook.title => proc["watcher"].pc = "release"
              /\ proc["worker"].title = hook.title => ~proc["worker"].gate
  <2>1. OpenOK
    BY Zenon DEF ServiceInv
  <2>2. Settled(hook.title)' <=> Settled(hook.title)
    BY <1>2, Zenon DEF Settled
  <2> QED
    BY <1>10, <2>1, <2>2, OpenFacts, Zenon DEF OpenOK
<1>11. LaunchOK'
  <2>1. CASE th = "service"
    <3>1. /\ d.pc \in {"reply", "rejected"} /\ (d.pc = "rejected" => ~d.ok)
          /\ d.title = proc["service"].title
      BY <2>1, Zenon DEF LeavesMount, SameCall
    <3>2. proc'["watcher"] = proc["watcher"] /\ proc'["worker"] = proc["worker"]
          /\ proc'["service"] = d
      BY <1>3, <2>1 DEF Threads
    <3>3. hook.phase = "launch" => proc["service"].title = hook.title /\ Serves(d, hook.title)
      BY <2>1, <3>1, Zenon DEF ServiceInv, HookOK, Serves, MountPcs
    <3>4. ASSUME Open'
          PROVE  Open /\ Preparing /\ HasMounted /\ HasClaimed /\ t = hook.title
                 /\ proc[th].pc = "finish"
      <4>1. hook.phase = "launch"
        BY <1>2, <2>1, <3>4, Zenon DEF Open, OpenCall, ServiceInv, HookOK, MountPcs
      <4>2. d.pc = "reply" /\ d.ok /\ hook.title \in Managed /\ hook.fresh
        BY <1>2, <3>1, <3>2, <3>4, <4>1, Zenon DEF Open, OpenCall
      <4>3. t = hook.title /\ proc[th].pc = "finish"
        BY <2>1, <3>3, <4>1, <4>2, Zenon DEF Title
      <4> QED
        BY <2>1, <4>1, <4>2, <4>3, Zenon
        DEF Open, OpenCall, Preparing, HasMounted, HasClaimed, MountPcs
    <3>5. ~Preparing'
      BY <3>1, <3>2, Zenon DEF Preparing, MountPcs
    <3>6. (HasClaimed' => Open') /\ (HasMounted' => Open')
      BY Zenon DEF HasClaimed, HasMounted
    <3>7. HasClaimed => ~external_mutation_in_progress /\ Owned(hook.title)
      BY Zenon DEF ServiceInv, ClaimedOK
    <3>8. HasMounted => hook.title \in titles
      BY Zenon DEF ServiceInv, MountedOK
    <3>9. Preparing => ~Prepares(proc["worker"], hook.title)
      BY Zenon DEF ServiceInv, PreparingOK
    <3>10. proc["service"].pc # "idle"
      BY <2>1 DEF MountPcs
    <3>11. Open' => Owned(hook.title)' /\ ~external_mutation_in_progress'
      BY <1>2, <1>10, <3>4, <3>7, Zenon
    <3> QED
      BY <1>2, <1>10, <3>2, <3>3, <3>4, <3>5, <3>6, <3>8, <3>9, <3>10, <3>11, ServiceKeepsLaunch, Zenon
  <2>2. CASE th = "watcher"
    <3>1. proc'["service"] = proc["service"] /\ proc'["worker"] = proc["worker"]
          /\ proc'["watcher"].title = proc["watcher"].title
      BY <1>3, <2>2 DEF Threads, LeavesMount, SameCall
    <3>2. Open => t # hook.title
      BY <1>10, <2>2, Zenon DEF Title, MountPcs
    <3>3. Open => TitleKept(hook.title)
      BY <1>10, <3>2, Zenon
    <3>4. HasMounted => hook.title \in titles'
      BY <1>2, Zenon DEF ServiceInv, MountedOK
    <3>5. Open => proc'["watcher"].title # hook.title
      BY <2>2, <3>1, <3>2, Zenon DEF Title
    <3> QED
      BY <1>2, <1>10, <3>1, <3>3, <3>4, <3>5, OthersKeepLaunch, Zenon
  <2>3. CASE th = "worker"
    <3>1. proc'["service"] = proc["service"] /\ proc'["watcher"] = proc["watcher"]
          /\ proc'["worker"] = Idle
      BY <1>3, <2>3, Zenon DEF Threads, LeavesMount
    <3>2. ~Prepares(proc'["worker"], hook.title) /\ ~proc'["worker"].gate
      BY <3>1, IdleFacts, Zenon DEF Prepares, MountPcs
    <3>3. HasMounted => hook.title \in titles'
      BY <1>2, Zenon DEF ServiceInv, MountedOK
    <3>4. Open /\ t = hook.title /\ proc[th].pc # "claim" => Prepares(proc["worker"], hook.title)
      BY <1>10, <2>3, Zenon DEF Prepares, Title
    <3>5. ASSUME Preparing
          PROVE  prepare_in_progress' /\ prepared'.title_id = hook.title
      <4>1. Open /\ prepare_in_progress /\ prepared.title_id = hook.title
            /\ ~Prepares(proc["worker"], hook.title)
        BY <3>5, Zenon DEF ServiceInv, PreparingOK, Preparing
      <4>2. TitleKept(hook.title)
        BY <1>10, <3>4, <4>1, Zenon
      <4> QED
        BY <4>1, <4>2, Zenon DEF TitleKept
    <3>6. ASSUME HasClaimed
          PROVE  Owned(hook.title)'
      <4>1. Open /\ (Preparing \/ HasMounted) /\ Owned(hook.title)
        BY <3>6, ClaimedCases DEF ServiceInv, ClaimedOK
      <4>2. t = hook.title /\ proc[th].pc # "claim" => proc[th].pc # "failed"
        BY <2>3, <3>4, <4>1, Zenon DEF ServiceInv, PreparingOK, MountedOK
      <4>3. CASE t = hook.title /\ proc[th].pc # "claim"
        BY <1>2, <4>1, <4>2, <4>3, Zenon
      <4>4. CASE ~(t = hook.title /\ proc[th].pc # "claim")
        <5>1. TitleKept(hook.title)
          BY <1>10, <4>1, <4>4, Zenon
        <5> QED
          BY <1>2, <4>1, <5>1, Zenon DEF TitleKept
      <4> QED
        BY <4>3, <4>4, Zenon
    <3> QED
      BY <1>2, <1>10, <3>1, <3>2, <3>3, <3>5, <3>6, LaunchFrame, Zenon
  <2> QED
    BY <2>1, <2>2, <2>3, Zenon DEF Threads
<1> QED
  BY <1>7, <1>8, <1>9, <1>11, Zenon DEF ThreadsInv

(* finish_prepared_title: the preparing thread lowers its own gate.           *)
LEMMA FinishPrepareKeeps ==
  ASSUME ServiceInv, NEW th \in Threads, FinishPrepare(th)
  PROVE  ThreadsInv'
<1> DEFINE d == AfterMount(th, TRUE)
<1>1. PICK t : t = Title(th)
  OBVIOUS
<1>2. /\ proc[th] \in Calls /\ CallFits(th, proc[th], releasing_title_id)
      /\ proc[th].gate \in BOOLEAN /\ proc[th].pc = "finish"
  BY ThreadFacts, Zenon DEF FinishPrepare, At
<1>3. t \in Titles
  BY <1>1, <1>2, Zenon DEF CallFits, UntitledPcs, Title
<1>4. /\ d \in Calls /\ LeavesMount(th, d) /\ ~d.gate
  BY <1>2, AfterMountFacts, Zenon DEF CallFits
<1>5. /\ proc' = [proc EXCEPT ![th] = d]
      /\ UNCHANGED <<runtimeVars, watchVars, worldVars, hook>>
      /\ UNCHANGED <<pending_launch_title_id, releasing_title_id, prepared, outgoing>>
  BY Zenon DEF FinishPrepare, EndMount, end_external_mutation, finish_prepared_title
<1> HIDE DEF d
<1>6. external_mutation_in_progress' <=> external_mutation_in_progress /\ ~proc[th].gate
  BY <1>2 DEF FinishPrepare, end_external_mutation, finish_prepared_title
<1>7. /\ proc[th].gate => prepare_in_progress' = prepare_in_progress
      /\ ~proc[th].gate => prepare_in_progress' = (prepare_in_progress /\ prepared.title_id # t)
  BY <1>1, Zenon DEF FinishPrepare, end_external_mutation, finish_prepared_title, ServiceInv,
     OwnersInv, OwnersTypeOK
<1>8. \A u : Prepares(proc[th], u) <=> u = t /\ ~proc[th].gate
  BY <1>1, <1>2 DEF Prepares, MountPcs, Title
<1>9. prepare_in_progress' => /\ prepare_in_progress
                              /\ prepared'.title_id = prepared.title_id
                              /\ ~Prepares(proc[th], prepared.title_id)
  BY <1>2, <1>5, <1>7, <1>8, Zenon
<1>10. \A u \in Titles : u # t => TitleKept(u)
  BY <1>2, <1>5, <1>7, Zenon DEF TitleKept, Owned
<1>11. Owned(t) => Owned(t)'
  BY <1>5, Zenon DEF Owned
<1> QED
  BY <1>1, <1>2, <1>3, <1>4, <1>5, <1>6, <1>9, <1>10, <1>11, EndMountKeeps, Zenon DEF MountPcs

(* rollback_prepared_title: the preparing thread drops its own claim.         *)
LEMMA FailPrepareKeeps ==
  ASSUME ServiceInv, NEW th \in Threads, FailPrepare(th)
  PROVE  ThreadsInv'
<1> DEFINE d == AfterMount(th, FALSE)
<1>1. PICK t : t = Title(th)
  OBVIOUS
<1>2. /\ proc[th] \in Calls /\ CallFits(th, proc[th], releasing_title_id)
      /\ proc[th].gate \in BOOLEAN /\ proc[th].claimed \in BOOLEAN /\ proc[th].pc = "failed"
  BY ThreadFacts, Zenon DEF FailPrepare, At
<1>3. t \in Titles
  BY <1>1, <1>2 DEF CallFits, UntitledPcs, Title
<1>4. /\ d \in Calls /\ LeavesMount(th, d) /\ ~d.gate /\ (th = "service" => d.pc # "reply")
  BY <1>2, AfterMountFacts, Zenon DEF CallFits
<1>5. /\ proc' = [proc EXCEPT ![th] = d]
      /\ UNCHANGED <<runtimeVars, watchVars, worldVars, hook>>
  BY DEF FailPrepare, EndMount
<1> HIDE DEF d
<1>6. \/ proc[th].gate /\ end_external_mutation
      \/ ~proc[th].gate /\ rollback_prepared_title(t)
      \/ ~proc[th].gate /\ finish_prepared_title(t, TRUE)
  <2>1. CASE proc[th].gate
    BY <2>1 DEF FailPrepare
  <2>2. CASE ~proc[th].gate /\ proc[th].claimed
    BY <1>1, <2>2, Zenon DEF FailPrepare
  <2>3. CASE ~proc[th].gate /\ ~proc[th].claimed
    BY <1>1, <2>3, Zenon DEF FailPrepare
  <2> QED
    BY <1>2, <2>1, <2>2, <2>3, Zenon
<1>7. \A u : Prepares(proc[th], u) <=> u = t /\ ~proc[th].gate
  BY <1>1, <1>2, Zenon DEF Prepares, MountPcs, Title
<1>8. prepare_in_progress \in BOOLEAN /\ NoOwner.pid = 0
  BY NoOwnerFacts DEF ServiceInv, OwnersInv, OwnersTypeOK
<1>9. /\ UNCHANGED <<pending_launch_title_id, releasing_title_id>>
      /\ prepared' \in {prepared, outgoing} /\ (outgoing' = outgoing \/ outgoing'.pid = 0)
      /\ external_mutation_in_progress' <=> external_mutation_in_progress /\ ~proc[th].gate
      /\ prepare_in_progress' => /\ prepare_in_progress
                                 /\ prepared'.title_id = prepared.title_id
                                 /\ ~Prepares(proc[th], prepared.title_id)
  <2>1. CASE proc[th].gate /\ end_external_mutation
    BY <1>7, <2>1, Zenon DEF end_external_mutation
  <2>2. CASE ~proc[th].gate /\ rollback_prepared_title(t)
    BY <1>7, <1>8, <2>2, Zenon DEF rollback_prepared_title
  <2>3. CASE ~proc[th].gate /\ finish_prepared_title(t, TRUE)
    BY <1>7, <1>8, <2>3, Zenon DEF finish_prepared_title
  <2> QED
    BY <1>6, <2>1, <2>2, <2>3, Zenon
<1>10. \A u \in Titles : u # t => TitleKept(u)
  <2>1. CASE end_external_mutation
    BY <2>1 DEF end_external_mutation, TitleKept, Owned
  <2>2. CASE rollback_prepared_title(t) \/ finish_prepared_title(t, TRUE)
    BY <1>3, <2>2, OtherTitleKeeps, Zenon DEF ServiceInv
  <2> QED
    BY <1>6, <2>1, <2>2, Zenon
<1> QED
  BY <1>1, <1>2, <1>3, <1>4, <1>5, <1>9, <1>10, EndMountKeeps, Zenon DEF MountPcs

(* A claim that is refused, or not needed.                                    *)
LEMMA NoClaimKeeps ==
  ASSUME ServiceInv, NEW th \in Threads, Claim(th), UNCHANGED ownerVars,
         \/ EndMount(th, FALSE)
         \/ Title(th) \notin Managed /\ IF th = "service" THEN Goto(th, "reply") ELSE EndMount(th, TRUE)
  PROVE  ThreadsInv'
<1>1. PICK t : t = Title(th)
  OBVIOUS
<1>2. /\ proc[th] \in Calls /\ CallFits(th, proc[th], releasing_title_id)
      /\ proc[th].gate \in BOOLEAN /\ proc[th].pc = "claim"
  BY ThreadFacts, Zenon DEF Claim, At
<1>3. t \in Titles /\ ~proc[th].gate
  BY <1>1, <1>2, Zenon DEF CallFits, UntitledPcs, GatePcs, Title
<1>4. /\ UNCHANGED <<runtimeVars, watchVars, worldVars, hook>>
      /\ UNCHANGED <<prepared, outgoing, prepare_in_progress, launch_pending>>
      /\ UNCHANGED <<pending_launch_title_id, external_mutation_in_progress, releasing_title_id>>
  BY DEF Claim, ownerVars
<1>5. \E d \in Calls : /\ proc' = [proc EXCEPT ![th] = d] /\ LeavesMount(th, d) /\ ~d.gate
                       /\ th = "service" /\ d.pc = "reply" => t \notin Managed
  <2>1. CASE EndMount(th, FALSE)
    BY <1>3, <2>1, AfterMountFacts, Zenon DEF EndMount
  <2>2. CASE Title(th) \notin Managed /\ th # "service" /\ EndMount(th, TRUE)
    BY <1>1, <1>3, <2>2, AfterMountFacts, Zenon DEF EndMount
  <2>3. CASE Title(th) \notin Managed /\ th = "service" /\ Goto(th, "reply")
    <3> DEFINE d == WithPc(proc[th], "reply")
    <3>1. proc' = [proc EXCEPT ![th] = d]
      BY <2>3, Zenon DEF Goto, WithPc
    <3>2. "reply" \in Pcs
      BY DEF Pcs, UntitledPcs
    <3>3. d \in Calls /\ SameCall(d, proc[th]) /\ d.pc = "reply" /\ d.gate = proc[th].gate
      BY <1>2, <3>2, SetPc
    <3> HIDE DEF d
    <3> QED
      BY <1>1, <1>3, <2>3, <3>1, <3>3, Zenon DEF LeavesMount
  <2> QED
    BY <2>1, <2>2, <2>3, Zenon
<1>6. PICK d \in Calls : /\ proc' = [proc EXCEPT ![th] = d] /\ LeavesMount(th, d) /\ ~d.gate
                         /\ th = "service" /\ d.pc = "reply" => t \notin Managed
  BY <1>5, Zenon
<1>7. \A u : TitleKept(u) /\ ~Prepares(proc[th], u)
  BY <1>2, <1>4, Zenon DEF TitleKept, Owned, Prepares, MountPcs
<1>8. Owned(t) => Owned(t)'
  BY <1>4, Zenon DEF Owned
<1> QED
  BY <1>1, <1>2, <1>3, <1>4, <1>6, <1>7, <1>8, EndMountKeeps, Zenon

(* A successful claim raises the gate for the thread that made it.            *)
LEMMA TakesClaimKeeps ==
  ASSUME ServiceInv, NEW th \in Threads, Claim(th), Title(th) \in Managed,
         claim_prepared_title(Title(th), proc[th].launch),
         proc' = [proc EXCEPT ![th].pc = "mounted", ![th].claimed = Claims(Title(th))]
  PROVE  ThreadsInv'
<1>1. PICK t : t = Title(th)
  OBVIOUS
<1> DEFINE d == WithClaimed(proc[th], "mounted", Claims(t))
<1>2. /\ proc[th] \in Calls /\ CallFits(th, proc[th], releasing_title_id)
      /\ proc[th].gate \in BOOLEAN /\ proc[th].pc = "claim" /\ proc[th].launch \in BOOLEAN
  BY ThreadFacts DEF Claim, At
<1>3. t \in Titles /\ t # NoTitle /\ ~proc[th].gate
  BY <1>1, <1>2, OwnerConstants DEF CallFits, UntitledPcs, GatePcs, Title
<1>4. /\ UNCHANGED <<runtimeVars, watchVars, worldVars, hook>>
      /\ UNCHANGED <<titles, images, game, execs, exits, process, alive>>
  BY DEF Claim, runtimeVars, watchVars, worldVars
<1>5. proc' = [proc EXCEPT ![th] = d]
  BY <1>1, Zenon DEF WithClaimed
<1>6. Claims(t) \in BOOLEAN /\ "mounted" \in Pcs
  BY DEF Claims, Pcs, MountPcs
<1>7. /\ d \in Calls /\ SameCall(d, proc[th]) /\ d.pc = "mounted"
      /\ d.claimed = Claims(t) /\ d.gate = proc[th].gate
  BY <1>2, <1>6, SetClaimed
<1> HIDE DEF d
<1>8. /\ proc'[th] = d
      /\ \A o \in Threads : o # th => proc'[o] = proc[o]
  BY <1>5, <1>7, AssignFacts, Zenon DEF ServiceInv, WorldOK
<1>9. /\ prepare_in_progress' /\ prepared'.title_id = t
      /\ ~prepare_in_progress /\ ~external_mutation_in_progress
      /\ releasing_title_id # t
      /\ UNCHANGED <<external_mutation_in_progress, releasing_title_id>>
      /\ prepared' \in {prepared, outgoing} \/ prepared'.pid = 0
      /\ outgoing' \in {prepared, outgoing} \/ outgoing'.pid = 0
      /\ Owned(t) => ~Claims(t)
      /\ \A u \in Titles :
           (\A o \in {prepared, outgoing} : o.title_id = u => ~Live(o)) => TitleKept(u)
  BY <1>1, <1>2, <1>3, ClaimFacts, Zenon DEF ServiceInv
<1>10. CallFits(th, d, releasing_title_id')
  BY <1>1, <1>2, <1>3, <1>7, <1>9, Zenon
  DEF CallFits, SameCall, MountPcs, ReleasePcs, UntitledPcs, Title
<1>11. Prepares(d, t) /\ d.pc \notin ReleasePcs /\ proc[th].pc \notin ReleasePcs
  BY <1>1, <1>2, <1>3, <1>7 DEF Prepares, SameCall, MountPcs, ReleasePcs, Title
<1>12. proc' \in [Threads -> Calls] /\ CallsOK' /\ GatesOK'
  BY <1>3, <1>5, <1>7, <1>9, <1>10, <1>11, MoveKeepsControl, Zenon
<1>13. WatcherOK' /\ GameOK' /\ OwnersTracked'
  BY <1>2, <1>4, <1>7, <1>8, <1>9, WatchFrame, Zenon DEF SameCall, Threads, BindPcs, MountPcs
<1>14. WorldOK' /\ StacksOK'
  BY <1>4, <1>12, Zenon DEF ServiceInv, WorldOK, StacksOK
<1>15. ASSUME Open
       PROVE  /\ hook.title \in Titles /\ Settled(hook.title)' /\ TitleKept(hook.title)
              /\ pending_launch_title_id = hook.title /\ releasing_title_id' # hook.title
              /\ proc["watcher"].title = hook.title => proc["watcher"].pc = "release"
              /\ proc["worker"].title = hook.title => ~proc["worker"].gate
              /\ ~Prepares(proc["worker"], hook.title) /\ ~Preparing
  <2>1. OpenOK /\ PreparingOK
    BY DEF ServiceInv
  <2>2. Settled(hook.title)' <=> Settled(hook.title)
    BY <1>4, Zenon DEF Settled
  <2>3. ~Prepares(proc["worker"], hook.title) /\ ~Preparing
    BY <1>9, <1>15, <2>1, Zenon DEF OpenOK, PreparingOK
  <2>4. hook.title \in Titles /\ \A o \in {prepared, outgoing} : o.title_id = hook.title => ~Live(o)
    BY <1>15, OpenFacts, Zenon
  <2>5. TitleKept(hook.title)
    BY <1>9, <2>4
  <2> QED
    BY <1>9, <1>15, <2>1, <2>2, <2>3, <2>4, <2>5, Zenon DEF OpenOK
<1>16. HasMounted => hook.title \in titles'
  BY <1>4 DEF ServiceInv, MountedOK
<1>17. LaunchOK'
  <2>1. CASE th = "service"
    <3>1. proc'["watcher"] = proc["watcher"] /\ proc'["worker"] = proc["worker"]
          /\ proc'["service"] = d
      BY <1>8, <2>1, Zenon DEF Threads
    <3>2. hook.phase = "launch" => t = hook.title /\ Serves(d, hook.title)
      BY <1>1, <1>2, <1>7, <2>1, Zenon DEF ServiceInv, HookOK, Serves, SameCall, MountPcs, Title
    <3>3. (Open' => Open /\ hook.phase = "launch") /\ ~HasMounted'
      BY <1>2, <1>4, <1>7, <2>1, <3>1, Zenon DEF Open, OpenCall, HasMounted, ServiceInv, HookOK
    <3>4. (HasClaimed' => Open') /\ (Preparing' => Open')
      BY DEF HasClaimed, Preparing
    <3>5. Open' => Owned(hook.title)'
      BY <1>4, <1>9, <3>2, <3>3, Zenon DEF Owned
    <3>6. Open' => pending_launch_title_id' = pending_launch_title_id
      BY <1>15, <3>3 DEF TitleKept
    <3>7. proc["service"].pc # "idle"
      BY <1>2, <2>1, Zenon
    <3> QED
      BY <1>4, <1>9, <1>15, <3>1, <3>2, <3>3, <3>4, <3>5, <3>6, <3>7, ServiceKeepsLaunch, Zenon
  <2>2. CASE th = "watcher"
    <3>1. proc'["service"] = proc["service"] /\ proc'["worker"] = proc["worker"]
          /\ proc'["watcher"].title = proc["watcher"].title
      BY <1>7, <1>8, <2>2, Zenon DEF Threads, SameCall
    <3>2. Open => proc["watcher"].title # hook.title
      BY <1>2, <1>15, <2>2, Zenon
    <3> QED
      BY <1>4, <1>9, <1>15, <1>16, <3>1, <3>2, OthersKeepLaunch, Zenon
  <2>3. CASE th = "worker"
    <3>1. proc'["service"] = proc["service"] /\ proc'["watcher"] = proc["watcher"]
          /\ proc'["worker"] = d
      BY <1>8, <2>3, Zenon DEF Threads
    <3>2. HasMounted /\ t = hook.title => ~d.claimed
      BY <1>7, <1>9 DEF HasMounted, HasClaimed, ServiceInv, ClaimedOK, MountPcs
    <3>3. Prepares(d, hook.title) => t = hook.title
      BY <1>1, <1>7, <2>3, Zenon DEF Prepares, SameCall, Title
    <3> QED
      BY <1>3, <1>4, <1>7, <1>9, <1>15, <1>16, <3>1, <3>2, <3>3, OthersKeepLaunch, Zenon
  <2> QED
    BY <2>1, <2>2, <2>3, Zenon DEF Threads
<1> QED
  BY <1>12, <1>13, <1>14, <1>17 DEF ThreadsInv

(* Every step of a mount keeps the invariant.                                 *)
LEMMA MountStepKeeps ==
  ASSUME ServiceInv, NEW th \in Threads, MountStep(th)
  PROVE  ThreadsInv'
<1>1. CASE Claim(th)
  <2>1. CASE Title(th) \in Managed /\ claim_prepared_title(Title(th), proc[th].launch)
    <3>1. CASE proc' = [proc EXCEPT ![th].pc = "mounted", ![th].claimed = Claims(Title(th))]
      BY <1>1, <2>1, <3>1, TakesClaimKeeps, Zenon
    <3>2. CASE EndMount(th, FALSE) /\ UNCHANGED ownerVars
      BY <1>1, <3>2, NoClaimKeeps, Zenon
    <3> QED
      BY <1>1, <2>1, <3>1, <3>2, Zenon DEF Claim
  <2>2. CASE ~(Title(th) \in Managed /\ claim_prepared_title(Title(th), proc[th].launch))
    BY <1>1, <2>2, NoClaimKeeps, Zenon DEF Claim
  <2> QED
    BY <2>1, <2>2
<1> QED
  BY <1>1, CheckMountedKeeps, PrepareImagesKeeps, PrepareTitleKeeps, FinishPrepareKeeps,
     FailPrepareKeeps, Zenon DEF MountStep
=============================================================================
