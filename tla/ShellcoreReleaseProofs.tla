----------------------- MODULE ShellcoreReleaseProofs -----------------------
(***************************************************************************)
(* That the steps of a release, of the service thread and of the watcher    *)
(* keep the invariant of ShellcoreMountProofs.                              *)
(***************************************************************************)
EXTENDS ShellcoreMountProofs

(* The steps of a release.                                                    *)

(* A step within a release that is under way; th is the only thread releasing.*)
LEMMA ReleasingKeeps ==
  ASSUME ServiceInv, NEW th \in Threads, NEW d \in Calls, proc' = [proc EXCEPT ![th] = d],
         proc[th].pc \in ReleasePcs, d.pc \in ReleasePcs, SameCall(d, proc[th]),
         d.gate = proc[th].gate,
         proc[th].pc = "unmount" \/ d.pc # "unmount", proc[th].pc # "unmount" \/ d.pc = "released",
         NEW t \in Titles, t = Title(th),
         \A u \in Titles : u # t => TitleKept(u),
         UNCHANGED <<pending_launch_title_id, external_mutation_in_progress, releasing_title_id>>,
         prepared' = prepared \/ prepared'.pid = 0,
         outgoing' = outgoing \/ outgoing'.pid = 0,
         prepare_in_progress' => prepare_in_progress /\ prepared'.title_id = prepared.title_id,
         UNCHANGED <<watchVars, worldVars, hook>>,
         titles' \subseteq titles, titles \subseteq titles' \cup {t},
         images' \subseteq Images, images \cap BusyImages \subseteq images'
  PROVE  ThreadsInv'
<1>1. proc[th] \in Calls /\ CallFits(th, proc[th], releasing_title_id) /\ proc[th].gate \in BOOLEAN
  BY ThreadFacts
<1>2. UNCHANGED <<game, execs, exits, process, alive, hook>>
  BY DEF watchVars, worldVars
<1>3. /\ proc'[th] = d
      /\ \A o \in Threads : o # th => proc'[o] = proc[o]
  BY AssignFacts, Zenon DEF ServiceInv, WorldOK
<1>4. releasing_title_id = t /\ ~proc[th].gate
  BY <1>1, Zenon DEF CallFits, Title, ReleasePcs, GatePcs
<1>5. CallFits(th, d, releasing_title_id')
  BY <1>1, <1>4
  DEF CallFits, SameCall, MountPcs, ReleasePcs, UntitledPcs, GatePcs
<1>6. Releases(d, releasing_title_id')
  BY <1>4 DEF Releases, SameCall, Title
<1>7. \A u : ~Prepares(proc[th], u)
  BY DEF Prepares, ReleasePcs, MountPcs
<1>8. external_mutation_in_progress' <=>
        IF th = "worker" THEN d.gate ELSE external_mutation_in_progress
  BY DEF ServiceInv, GatesOK
<1>9. proc' \in [Threads -> Calls] /\ CallsOK' /\ GatesOK'
  BY <1>5, <1>6, <1>7, <1>8, MoveKeepsControl, Zenon
<1>10. WatcherOK' /\ GameOK' /\ OwnersTracked'
  BY <1>2, <1>3, WatchFrame, Zenon DEF Threads, BindPcs, ReleasePcs, MountPcs
<1>11. WorldOK' /\ StacksOK'
  BY <1>2, <1>9, StacksFrame, Zenon DEF ServiceInv, WorldOK
<1>12. ASSUME Open
       PROVE  /\ hook.title \in Titles /\ Settled(hook.title)' /\ TitleKept(hook.title)
              /\ t # hook.title /\ releasing_title_id' # hook.title
              /\ pending_launch_title_id = hook.title
              /\ proc["watcher"].title = hook.title => proc["watcher"].pc = "release"
              /\ proc["worker"].title = hook.title => ~proc["worker"].gate
              /\ Prepares(proc["worker"], hook.title) =>
                   prepare_in_progress' /\ prepared'.title_id = hook.title
  <2>1. OpenOK
    BY DEF ServiceInv
  <2>2. Settled(hook.title)' <=> Settled(hook.title)
    BY <1>2 DEF Settled
  <2>3. hook.title \in Titles
    BY <1>12, OpenFacts, Zenon
  <2>4. t # hook.title
    BY <1>4, <1>12, <2>1, Zenon DEF OpenOK
  <2>5. TitleKept(hook.title)
    BY <2>3, <2>4, Zenon
  <2> QED
    BY <1>12, <2>1, <2>2, <2>3, <2>4, <2>5, Zenon DEF OpenOK, TitleKept
<1>13. HasMounted => Open /\ hook.title \in titles
  BY Zenon DEF ServiceInv, MountedOK, HasMounted
<1>14. HasMounted => hook.title \in titles'
  BY <1>12, <1>13, Zenon
<1>15. LaunchOK'
  <2>1. CASE th = "service"
    <3>1. proc'["watcher"] = proc["watcher"] /\ proc'["worker"] = proc["worker"]
          /\ proc'["service"] = d /\ proc["service"].pc # "idle"
      BY <1>3, <2>1, Zenon DEF Threads, ReleasePcs
    <3>2. hook.phase = "launch" => Serves(d, hook.title)
      BY <2>1, Zenon DEF ServiceInv, HookOK, Serves, SameCall, ReleasePcs, MountPcs
    <3>3. (Open' => Open /\ hook.phase = "launch") /\ ~HasMounted' /\ ~Preparing' /\ ~HasClaimed'
      BY <1>2, <2>1, <3>1, Zenon
      DEF Open, OpenCall, HasMounted, HasClaimed, Preparing, ServiceInv, HookOK, ReleasePcs, MountPcs
    <3> QED
      BY <1>2, <1>12, <3>1, <3>2, <3>3, ServiceKeepsLaunch, Zenon
  <2>2. CASE th = "watcher"
    <3>1. proc'["service"] = proc["service"] /\ proc'["worker"] = proc["worker"]
          /\ proc'["watcher"].title = t
      BY <1>3, <2>2, Zenon DEF Threads, SameCall, Title
    <3> QED
      BY <1>2, <1>12, <1>14, <3>1, OthersKeepLaunch, Zenon
  <2>3. CASE th = "worker"
    <3>1. proc'["service"] = proc["service"] /\ proc'["watcher"] = proc["watcher"]
          /\ proc'["worker"].title = t
      BY <1>3, <2>3, Zenon DEF Threads, SameCall, Title
    <3>2. Open => ~Prepares(proc'["worker"], hook.title)
      BY <1>12, <3>1 DEF Prepares
    <3> QED
      BY <1>2, <1>12, <1>14, <3>1, <3>2, OthersKeepLaunch, Zenon
  <2> QED
    BY <2>1, <2>2, <2>3, Zenon DEF Threads
<1> QED
  BY <1>9, <1>10, <1>11, <1>15, Zenon DEF ThreadsInv

(* A release within which only the runtime changes.                           *)
LEMMA RuntimeReleaseKeeps ==
  ASSUME ServiceInv, NEW th \in Threads, NEW d \in Calls, proc' = [proc EXCEPT ![th] = d],
         proc[th].pc \in ReleasePcs, d.pc \in ReleasePcs, SameCall(d, proc[th]),
         d.gate = proc[th].gate,
         proc[th].pc = "unmount" \/ d.pc # "unmount", proc[th].pc # "unmount" \/ d.pc = "released",
         UNCHANGED <<ownerVars, watchVars, worldVars, hook>>,
         titles' \subseteq titles, titles \subseteq titles' \cup {Title(th)},
         images' \subseteq Images, images \cap BusyImages \subseteq images'
  PROVE  ThreadsInv'
<1>1. PICK t : t = Title(th)
  BY Zenon
<1>2. t \in Titles
  BY <1>1, ThreadFacts, Zenon DEF CallFits, ReleasePcs, UntitledPcs, Title
<1>3. /\ UNCHANGED <<prepared, outgoing, prepare_in_progress, launch_pending>>
      /\ UNCHANGED <<pending_launch_title_id, external_mutation_in_progress, releasing_title_id>>
  BY DEF ownerVars
<1>4. \A u : TitleKept(u)
  BY <1>3 DEF TitleKept, Owned
<1>5. titles \subseteq titles' \cup {t}
  BY <1>1
<1> QED
  BY <1>1, <1>2, <1>3, <1>4, <1>5, ReleasingKeeps, Zenon

(* The layers of the released title may go, and no others.                    *)
LEMMA UnmountTitleLayersKeeps ==
  ASSUME ServiceInv, NEW th \in Threads, UnmountTitleLayers(th)
  PROVE  ThreadsInv'
<1>1. /\ proc[th].pc = "layers" /\ proc[th] \in Calls
      /\ UNCHANGED <<ownerVars, images, watchVars, worldVars, hook>>
  BY ThreadFacts DEF UnmountTitleLayers, At
<1>2. /\ titles' \subseteq titles /\ titles \subseteq titles' \cup {Title(th)}
      /\ images' \subseteq Images /\ images \cap BusyImages \subseteq images'
  BY <1>1 DEF UnmountTitleLayers, ServiceInv, WorldOK
<1>3. \E d \in Calls : /\ proc' = [proc EXCEPT ![th] = d] /\ d.pc \in {"chain", "busy"}
                       /\ SameCall(d, proc[th]) /\ d.gate = proc[th].gate
  <2>1. CASE Goto(th, "chain")
    <3> DEFINE d == WithPc(proc[th], "chain")
    <3>1. proc' = [proc EXCEPT ![th] = d]
      BY <2>1, Zenon DEF Goto, WithPc
    <3>2. d \in Calls /\ d.pc = "chain" /\ SameCall(d, proc[th]) /\ d.gate = proc[th].gate
      BY <1>1, SetPc DEF Pcs, ReleasePcs
    <3> HIDE DEF d
    <3> QED
      BY <3>1, <3>2, Zenon
  <2>2. CASE proc' = [proc EXCEPT ![th].pc = "busy", ![th].ok = FALSE]
    <3>1. PICK ok \in BOOLEAN : ok = FALSE
      BY Zenon
    <3> DEFINE d == WithOk(proc[th], "busy", ok)
    <3>2. proc' = [proc EXCEPT ![th] = d]
      BY <2>2, <3>1, Zenon DEF WithOk
    <3>3. d \in Calls /\ d.pc = "busy" /\ SameCall(d, proc[th]) /\ d.gate = proc[th].gate
      BY <1>1, SetOk DEF Pcs, ReleasePcs
    <3> HIDE DEF d
    <3> QED
      BY <3>2, <3>3, Zenon
  <2> QED
    BY <2>1, <2>2 DEF UnmountTitleLayers
<1> QED
  BY <1>1, <1>2, <1>3, RuntimeReleaseKeeps, Zenon DEF ReleasePcs

(* The images to detach are of the chain of the released title.               *)
LEMMA ChooseImagesKeeps ==
  ASSUME ServiceInv, NEW th \in Threads, ChooseImages(th)
  PROVE  ThreadsInv'
<1>1. /\ proc[th].pc = "chain" /\ proc[th] \in Calls
      /\ UNCHANGED <<ownerVars, titles, images, watchVars, worldVars, hook>>
  BY ThreadFacts DEF ChooseImages, At, runtimeVars
<1>2. PICK v, ok : /\ ok \in BOOLEAN /\ v \subseteq chain[Title(th)]
                   /\ proc' = [proc EXCEPT ![th].pc = "detach", ![th].victims = v, ![th].ok = ok]
  BY Zenon DEF ChooseImages
<1>3. Title(th) \in Titles
  BY <1>1, ThreadFacts DEF CallFits, UntitledPcs, Title
<1>4. v \in SUBSET (Titles \cup Images)
  BY <1>2, <1>3, ServiceConstants
<1> DEFINE d == WithVictimsOk(proc[th], "detach", v, ok)
<1>5. proc' = [proc EXCEPT ![th] = d]
  BY <1>2, Zenon DEF WithVictimsOk
<1>6. d \in Calls /\ d.pc = "detach" /\ SameCall(d, proc[th]) /\ d.gate = proc[th].gate
  BY <1>1, <1>2, <1>4, SetVictimsOk DEF Pcs, ReleasePcs
<1> HIDE DEF d
<1>7. images' \subseteq Images
  BY <1>1 DEF ServiceInv, WorldOK
<1> QED
  BY <1>1, <1>5, <1>6, <1>7, RuntimeReleaseKeeps, Zenon DEF ReleasePcs

(* Only images no mounted stack uses are detached.                            *)
LEMMA DetachImagesKeeps ==
  ASSUME ServiceInv, NEW th \in Threads, DetachImages(th)
  PROVE  ThreadsInv'
<1>1. /\ proc[th].pc = "detach" /\ proc[th] \in Calls /\ proc[th].ok \in BOOLEAN
      /\ UNCHANGED <<ownerVars, titles, watchVars, worldVars, hook>>
  BY ThreadFacts DEF DetachImages, At
<1>2. PICK gone \in SUBSET (proc[th].victims \ BusyImages) :
        /\ images' = images \ gone
        /\ proc' = [proc EXCEPT ![th].pc = "busy", ![th].victims = {},
                                ![th].ok = @ /\ gone = proc[th].victims]
  BY Zenon DEF DetachImages
<1> DEFINE ok == proc[th].ok /\ gone = proc[th].victims
           d == WithVictimsOk(proc[th], "busy", {}, ok)
<1>3. proc' = [proc EXCEPT ![th] = d]
  BY <1>2, Zenon DEF WithVictimsOk
<1>4. ok \in BOOLEAN
  BY <1>1, Zenon
<1> HIDE DEF ok
<1>5. d \in Calls /\ d.pc = "busy" /\ SameCall(d, proc[th]) /\ d.gate = proc[th].gate
  BY <1>1, <1>4, SetVictimsOk DEF Pcs, ReleasePcs
<1> HIDE DEF d
<1>6. images' \subseteq Images /\ images \cap BusyImages \subseteq images'
  BY <1>2 DEF ServiceInv, WorldOK
<1> QED
  BY <1>1, <1>3, <1>5, <1>6, RuntimeReleaseKeeps, Zenon DEF ReleasePcs

(* A release that found its mounts busy tries again.                          *)
LEMMA RetryReleaseKeeps ==
  ASSUME ServiceInv, NEW th \in Threads, RetryRelease(th)
  PROVE  ThreadsInv'
<1>1. /\ proc[th].pc = "busy" /\ proc[th] \in Calls
      /\ UNCHANGED <<ownerVars, titles, images, watchVars, worldVars, hook>>
  BY ThreadFacts DEF RetryRelease, At, runtimeVars
<1>2. PICK ok \in BOOLEAN : ok = TRUE
  BY Zenon
<1> DEFINE d == WithOk(proc[th], "layers", ok)
<1>3. proc' = [proc EXCEPT ![th] = d]
  BY <1>2, Zenon DEF RetryRelease, WithOk
<1>4. d \in Calls /\ d.pc = "layers" /\ SameCall(d, proc[th]) /\ d.gate = proc[th].gate
  BY <1>1, SetOk DEF Pcs, ReleasePcs
<1> HIDE DEF d
<1>5. images' \subseteq Images
  BY <1>1 DEF ServiceInv, WorldOK
<1> QED
  BY <1>1, <1>3, <1>4, <1>5, RuntimeReleaseKeeps, Zenon DEF ReleasePcs

(* The reset after a failed launch takes down the stack of that title.        *)
LEMMA ResetTitleMountKeeps ==
  ASSUME ServiceInv, ResetTitleMount
  PROVE  ThreadsInv'
<1> DEFINE th == "service"
<1>1. /\ th \in Threads /\ proc[th].pc = "unmount" /\ proc[th] \in Calls
      /\ UNCHANGED <<ownerVars, images, watchVars, worldVars, hook>>
  BY ThreadFacts DEF ResetTitleMount, At, Threads
<1>2. /\ titles' \subseteq titles /\ titles \subseteq titles' \cup {Title(th)}
      /\ images' \subseteq Images /\ images \cap BusyImages \subseteq images'
  BY <1>1 DEF ResetTitleMount, ServiceInv, WorldOK
<1> DEFINE d == WithPc(proc[th], "released")
<1>3. proc' = [proc EXCEPT ![th] = d]
  BY DEF ResetTitleMount, Goto, WithPc
<1>4. d \in Calls /\ d.pc = "released" /\ SameCall(d, proc[th]) /\ d.gate = proc[th].gate
  BY <1>1, SetPc DEF Pcs, ReleasePcs
<1> HIDE DEF d, th
<1> QED
  BY <1>1, <1>2, <1>3, <1>4, RuntimeReleaseKeeps, Zenon DEF ReleasePcs

(* A release forgets its owner once, with the title still marked.             *)
LEMMA ForgetOwnerKeeps ==
  ASSUME ServiceInv, NEW th \in Threads, ForgetOwner(th)
  PROVE  ThreadsInv'
<1>1. PICK t : t = Title(th)
  BY Zenon
<1>2. /\ proc[th].pc = "busy" /\ proc[th] \in Calls
      /\ UNCHANGED <<titles, images, watchVars, worldVars, hook>>
  BY ThreadFacts, Zenon DEF ForgetOwner, At, runtimeVars
<1>3. t \in Titles
  BY <1>1, <1>2, ThreadFacts DEF CallFits, UntitledPcs, Title
<1> DEFINE d == WithPc(proc[th], "released")
<1>4. proc' = [proc EXCEPT ![th] = d]
  BY DEF ForgetOwner, Goto, WithPc
<1>5. d \in Calls /\ d.pc = "released" /\ SameCall(d, proc[th]) /\ d.gate = proc[th].gate
  BY <1>2, SetPc DEF Pcs, ReleasePcs
<1> HIDE DEF d
<1>6. clear_owned_title(t)
  BY <1>1 DEF ForgetOwner
<1>7. \A u \in Titles : u # t => TitleKept(u)
  BY <1>3, <1>6, OtherTitleKeeps DEF ServiceInv
<1>8. /\ UNCHANGED <<pending_launch_title_id, external_mutation_in_progress, releasing_title_id>>
      /\ prepared' = prepared \/ prepared'.pid = 0
      /\ outgoing' = outgoing \/ outgoing'.pid = 0
      /\ prepare_in_progress' => prepare_in_progress /\ prepared'.title_id = prepared.title_id
  BY <1>6, NoOwnerFacts DEF clear_owned_title
<1>9. images' \subseteq Images
  BY <1>2 DEF ServiceInv, WorldOK
<1> QED
  BY <1>1, <1>2, <1>3, <1>4, <1>5, <1>7, <1>8, <1>9, ReleasingKeeps, Zenon DEF ReleasePcs

(* A step that takes no part in a mount and leaves the table alone but for    *)
(* the release gate, which only a release of t raises.                        *)
LEMMA GateKeepsTable ==
  ASSUME UNCHANGED <<prepared, outgoing, prepare_in_progress, pending_launch_title_id>>
  PROVE  \A u : TitleKept(u)
  BY DEF TitleKept, Owned

(* begin_runtime_release marks the title for the thread that called it.       *)
LEMMA EnterReleaseKeeps ==
  ASSUME ServiceInv, NEW th \in Threads, NEW pc \in {"layers", "unmount"}, Goto(th, pc),
         proc[th].pc = IF pc = "layers" THEN "release" ELSE "reset",
         pc = "unmount" => th = "service",
         NEW public, NEW expected, th # "service" => public = proc[th].public /\ expected = proc[th].expected,
         begin_runtime_release(Title(th), public, expected, has_active_game),
         UNCHANGED <<runtimeVars, watchVars, worldVars, hook>>
  PROVE  ThreadsInv'
<1> DEFINE d == WithPc(proc[th], pc)
<1>1. PICK t : t = Title(th)
  BY Zenon
<1>2. proc[th] \in Calls /\ CallFits(th, proc[th], releasing_title_id) /\ proc[th].gate \in BOOLEAN
  BY ThreadFacts, Zenon
<1>3. t \in Titles /\ ~proc[th].gate /\ proc[th].pc \notin ReleasePcs \cup MountPcs \cup {"idle"}
  BY <1>1, <1>2, Zenon DEF CallFits, UntitledPcs, GatePcs, ReleasePcs, MountPcs, Title
<1>4. /\ d \in Calls /\ SameCall(d, proc[th]) /\ d.pc = pc /\ d.gate = proc[th].gate
  BY <1>2, SetPc DEF Pcs, ReleasePcs
<1>5. proc' = [proc EXCEPT ![th] = d]
  BY Zenon DEF Goto, WithPc
<1> HIDE DEF d
<1>6. /\ CanRelease(t, public, expected, has_active_game)
      /\ releasing_title_id = NoTitle /\ releasing_title_id' = t
      /\ UNCHANGED <<prepared, outgoing, prepare_in_progress, launch_pending>>
      /\ UNCHANGED <<pending_launch_title_id, external_mutation_in_progress>>
  BY <1>1, Zenon DEF begin_runtime_release, CanRelease
<1>7. UNCHANGED <<titles, images, game, execs, exits, process, alive, hook>>
  BY Zenon DEF runtimeVars, watchVars, worldVars
<1>8. /\ proc'[th] = d
      /\ \A o \in Threads : o # th => proc'[o] = proc[o]
  BY <1>4, <1>5, AssignFacts, Zenon DEF ServiceInv, WorldOK
<1>9. CallFits(th, d, releasing_title_id')
  BY <1>1, <1>2, <1>3, <1>4, <1>6, Zenon
  DEF CallFits, SameCall, MountPcs, ReleasePcs, UntitledPcs, GatePcs, Title
<1>10. Releases(d, t) /\ \A u : ~Prepares(proc[th], u)
  BY <1>1, <1>3, <1>4, Zenon DEF Releases, Prepares, SameCall, ReleasePcs, Title
<1>11. external_mutation_in_progress' <=>
         IF th = "worker" THEN d.gate ELSE external_mutation_in_progress
  BY <1>4, <1>6, Zenon DEF ServiceInv, GatesOK
<1>12. proc' \in [Threads -> Calls] /\ CallsOK' /\ GatesOK'
  BY <1>4, <1>5, <1>6, <1>9, <1>10, <1>11, MoveKeepsControl, Zenon
<1>13. WatcherOK' /\ GameOK' /\ OwnersTracked'
  BY <1>4, <1>6, <1>7, <1>8, WatchFrame, Zenon DEF Threads, BindPcs, MountPcs
<1>14. WorldOK' /\ StacksOK'
  BY <1>7, <1>12, Zenon DEF ServiceInv, WorldOK, StacksOK
<1>15. th = "service" /\ hook.phase = "launch" =>
         proc["service"].pc = "release" /\ t # hook.title /\ Serves(d, hook.title)
  BY <1>1, <1>4, Zenon DEF ServiceInv, HookOK, Serves, MountPcs, SameCall, Title
<1>16. th = "service" => ~(hook.phase = "app" /\ hook.granted)
  BY <1>3, Zenon DEF ServiceInv, HookOK
<1>17. ASSUME Open
       PROVE  t # hook.title
  <2>1. CASE th = "service"
    BY <1>15, <1>16, <1>17, <2>1, Zenon DEF Open, OpenCall
  <2>2. CASE th # "service"
    <3>1. public \/ expected # NoOwner
      BY <1>2, <2>2, Zenon DEF CallFits
    <3> QED
      BY <1>6, <1>17, <3>1, OpenFacts, Zenon
  <2> QED
    BY <2>1, <2>2, Zenon
<1>18. ASSUME Open
       PROVE  /\ hook.title \in Titles /\ Settled(hook.title)' /\ TitleKept(hook.title)
              /\ releasing_title_id' # hook.title
              /\ pending_launch_title_id = hook.title
              /\ proc["watcher"].title = hook.title => proc["watcher"].pc = "release"
              /\ proc["worker"].title = hook.title => ~proc["worker"].gate
              /\ Prepares(proc["worker"], hook.title) =>
                   prepare_in_progress' /\ prepared'.title_id = hook.title
  <2>1. OpenOK
    BY Zenon DEF ServiceInv
  <2>2. Settled(hook.title)' <=> Settled(hook.title)
    BY <1>7, Zenon DEF Settled
  <2>3. hook.title \in Titles /\ TitleKept(hook.title)
    BY <1>6, <1>18, OpenFacts, GateKeepsTable, Zenon
  <2> QED
    BY <1>6, <1>17, <1>18, <2>1, <2>2, <2>3, Zenon DEF OpenOK
<1>19. HasMounted => hook.title \in titles'
  BY <1>7, Zenon DEF ServiceInv, MountedOK
<1>20. LaunchOK'
  <2>1. CASE th = "service"
    <3>1. proc'["watcher"] = proc["watcher"] /\ proc'["worker"] = proc["worker"]
          /\ proc'["service"] = d /\ proc["service"].pc # "idle"
      BY <1>3, <1>8, <2>1, Zenon DEF Threads
    <3>2. (Open' => Open) /\ ~HasMounted' /\ ~Preparing' /\ ~HasClaimed'
      BY <1>3, <1>4, <1>7, <1>15, <1>16, <2>1, <3>1, Zenon
      DEF Open, OpenCall, HasMounted, HasClaimed, Preparing, MountPcs
    <3> QED
      BY <1>6, <1>7, <1>15, <1>18, <2>1, <3>1, <3>2, ServiceKeepsLaunch, Zenon
  <2>2. CASE th = "watcher"
    <3>1. proc'["service"] = proc["service"] /\ proc'["worker"] = proc["worker"]
          /\ proc'["watcher"].title = t
      BY <1>1, <1>4, <1>8, <2>2, Zenon DEF Threads, SameCall, Title
    <3> QED
      BY <1>6, <1>7, <1>17, <1>18, <1>19, <3>1, OthersKeepLaunch, Zenon
  <2>3. CASE th = "worker"
    <3>1. proc'["service"] = proc["service"] /\ proc'["watcher"] = proc["watcher"]
          /\ proc'["worker"].title = t
      BY <1>1, <1>4, <1>8, <2>3, Zenon DEF Threads, SameCall, Title
    <3>2. Open => ~Prepares(proc'["worker"], hook.title)
      BY <1>17, <3>1, Zenon DEF Prepares
    <3> QED
      BY <1>6, <1>7, <1>17, <1>18, <1>19, <3>1, <3>2, OthersKeepLaunch, Zenon
  <2> QED
    BY <2>1, <2>2, <2>3, Zenon DEF Threads
<1> QED
  BY <1>12, <1>13, <1>14, <1>20, Zenon DEF ThreadsInv

(* What a thread does once its release has returned.                          *)
LEMMA AfterReleaseFacts ==
  ASSUME ServiceInv, NEW th \in Threads, NEW d, d = AfterRelease(th)
  PROVE  /\ d \in Calls
         /\ \/ /\ th = "service" /\ proc[th].next \in Titles
               /\ d = LaunchOf("claim", proc[th].next, 0)
            \/ /\ th = "service" /\ proc[th].next = NoTitle
               /\ d = ReleaseOf("reply", NoTitle, NoOwner, NoTitle)
            \/ th # "service" /\ d = Idle
<1>1. /\ proc[th].next \in Titles \cup {NoTitle}
      /\ proc[th].next # NoTitle => th = "service"
      /\ "claim" \in Pcs /\ "reply" \in Pcs /\ NoOwner \in MountOwner
  BY ThreadFacts, NoOwnerFacts, Zenon DEF CallFits, Pcs, UntitledPcs
<1>2. CASE proc[th].next # NoTitle
  <2>1. PICK n \in Titles : n = proc[th].next
    BY <1>1, <1>2
  <2>2. d = [Idle EXCEPT !.pc = "claim", !.launch = TRUE, !.title = n]
    BY <1>2, <2>1 DEF AfterRelease
  <2>3. d = LaunchOf("claim", n, 0)
    BY <2>2, Zenon DEF Idle, LaunchOf
  <2>4. d \in Calls
    BY <1>1, <2>3, LaunchOfFacts
  <2> QED
    BY <1>1, <1>2, <2>1, <2>3, <2>4, Zenon
<1>3. CASE proc[th].next = NoTitle /\ th = "service"
  <2>1. d = [Idle EXCEPT !.pc = "reply"]
    BY <1>3 DEF AfterRelease
  <2>2. d = ReleaseOf("reply", NoTitle, NoOwner, NoTitle)
    BY <2>1, Zenon DEF Idle, ReleaseOf
  <2>3. d \in Calls
    BY <1>1, <2>2, ReleaseOfFacts
  <2> QED
    BY <1>3, <2>2, <2>3
<1>4. CASE proc[th].next = NoTitle /\ th # "service"
  <2>1. d = Idle
    BY <1>4, Zenon DEF AfterRelease
  <2> QED
    BY <1>4, <2>1, IdleFacts
<1> QED
  BY <1>2, <1>3, <1>4, Zenon

(* A release that ends or was refused.                                        *)
LEMMA LeaveReleaseKeeps ==
  ASSUME ServiceInv, NEW th \in Threads, EndRelease(th),
         proc[th].pc \in {"release", "released"},
         IF proc[th].pc = "release" THEN releasing_title_id' = releasing_title_id
                                    ELSE releasing_title_id' = NoTitle,
         UNCHANGED <<prepared, outgoing, prepare_in_progress, launch_pending>>,
         UNCHANGED <<pending_launch_title_id, external_mutation_in_progress>>,
         UNCHANGED <<runtimeVars, watchVars, worldVars, hook>>
  PROVE  ThreadsInv'
<1> DEFINE d == AfterRelease(th)
<1>1. /\ proc[th] \in Calls /\ CallFits(th, proc[th], releasing_title_id)
      /\ proc[th].gate \in BOOLEAN
  BY ThreadFacts
<1>2. proc' = [proc EXCEPT ![th] = d]
  BY Zenon DEF EndRelease
<1>3. /\ d \in Calls
      /\ \/ /\ th = "service" /\ proc[th].next \in Titles
            /\ d = LaunchOf("claim", proc[th].next, 0)
         \/ /\ th = "service" /\ proc[th].next = NoTitle
            /\ d = ReleaseOf("reply", NoTitle, NoOwner, NoTitle)
         \/ th # "service" /\ d = Idle
  BY AfterReleaseFacts
<1> HIDE DEF d
<1>4. /\ "claim" \in Pcs /\ "reply" \in Pcs /\ NoOwner \in MountOwner
      /\ 0 \in Pids \cup {0} /\ NoTitle \in Titles \cup {NoTitle}
  BY NoOwnerFacts, Zenon DEF Pcs, UntitledPcs
<1>5. /\ d.expected = NoOwner /\ d.next = NoTitle /\ ~d.gate
      /\ \/ /\ th = "service" /\ d.pc = "claim" /\ d.title \in Titles
            /\ d.title = proc[th].next
         \/ th = "service" /\ d.pc = "reply" /\ d.title = NoTitle /\ proc[th].next = NoTitle
         \/ th # "service" /\ d.pc = "idle" /\ d.title = NoTitle
  <2>1. CASE /\ th = "service" /\ proc[th].next \in Titles
             /\ d = LaunchOf("claim", proc[th].next, 0)
    <3>1. PICK n \in Titles : n = proc[th].next
      BY <2>1, Zenon
    <3>2. d = LaunchOf("claim", n, 0)
      BY <2>1, <3>1, Zenon
    <3> QED
      BY <1>4, <2>1, <3>1, <3>2, LaunchOfFacts
  <2>2. CASE /\ th = "service" /\ proc[th].next = NoTitle
             /\ d = ReleaseOf("reply", NoTitle, NoOwner, NoTitle)
    BY <1>4, <2>2, ReleaseOfFacts
  <2>3. CASE th # "service" /\ d = Idle
    BY <2>3, IdleFacts, Zenon
  <2> QED
    BY <1>3, <2>1, <2>2, <2>3, Zenon
<1>6. UNCHANGED <<titles, images, game, execs, exits, process, alive, hook>>
  BY Zenon DEF runtimeVars, watchVars, worldVars
<1>7. /\ proc'[th] = d
      /\ \A o \in Threads : o # th => proc'[o] = proc[o]
  BY <1>2, <1>3, AssignFacts, Zenon DEF ServiceInv, WorldOK
<1>8. CallFits(th, d, releasing_title_id') /\ d.pc \notin ReleasePcs
  BY <1>5, Zenon DEF CallFits, MountPcs, ReleasePcs, UntitledPcs
<1>9. \A u : ~Prepares(proc[th], u)
  BY Zenon DEF Prepares, MountPcs
<1>10. external_mutation_in_progress' <=>
         IF th = "worker" THEN d.gate ELSE external_mutation_in_progress
  BY <1>1, <1>5, Zenon DEF ServiceInv, GatesOK, CallFits, GatePcs
<1>11. /\ releasing_title_id' = releasing_title_id \/ proc[th].pc \in ReleasePcs
       /\ releasing_title_id' # NoTitle => /\ releasing_title_id' = releasing_title_id
                                           /\ proc[th].pc \notin ReleasePcs
  BY DEF ReleasePcs
<1>12. proc' \in [Threads -> Calls] /\ CallsOK' /\ GatesOK'
  BY <1>2, <1>3, <1>8, <1>9, <1>10, <1>11, MoveKeepsControl, Zenon
<1>13. WatcherOK' /\ GameOK' /\ OwnersTracked'
  BY <1>5, <1>6, <1>7, WatchFrame, Zenon DEF Threads, BindPcs, MountPcs
<1>14. WorldOK' /\ StacksOK'
  BY <1>6, <1>12, Zenon DEF ServiceInv, WorldOK, StacksOK
<1>15. ASSUME Open
       PROVE  /\ hook.title \in Titles /\ hook.title # NoTitle
              /\ Settled(hook.title)' /\ TitleKept(hook.title)
              /\ releasing_title_id' # hook.title
              /\ pending_launch_title_id = hook.title
              /\ proc["watcher"].title = hook.title => proc["watcher"].pc = "release"
              /\ proc["worker"].title = hook.title => ~proc["worker"].gate
              /\ Prepares(proc["worker"], hook.title) =>
                   prepare_in_progress' /\ prepared'.title_id = hook.title
  <2>1. OpenOK
    BY Zenon DEF ServiceInv
  <2>2. Settled(hook.title)' <=> Settled(hook.title)
    BY <1>6, Zenon DEF Settled
  <2>3. hook.title \in Titles /\ hook.title # NoTitle /\ TitleKept(hook.title)
    BY <1>15, OpenFacts, GateKeepsTable, Zenon
  <2>4. releasing_title_id' # hook.title
    BY <1>15, <2>1, <2>3, Zenon DEF OpenOK
  <2> QED
    BY <1>15, <2>1, <2>2, <2>3, <2>4, Zenon DEF OpenOK
<1>16. HasMounted => hook.title \in titles'
  BY <1>6, Zenon DEF ServiceInv, MountedOK
<1>17. LaunchOK'
  <2>1. CASE th = "service"
    <3>1. proc'["watcher"] = proc["watcher"] /\ proc'["worker"] = proc["worker"]
          /\ proc'["service"] = d /\ proc["service"].pc # "idle"
      BY <1>7, <2>1, Zenon DEF Threads
    <3>2. hook.phase = "launch" => proc[th].next = hook.title /\ hook.title \in Titles
      BY <2>1, Zenon DEF ServiceInv, HookOK, Serves, MountPcs
    <3>3. hook.phase = "launch" => d.pc = "claim" /\ Serves(d, hook.title)
      BY <1>5, <2>1, <3>2, OwnerConstants, Zenon DEF Serves
    <3>4. (Open' => Open) /\ ~HasMounted' /\ ~Preparing' /\ ~HasClaimed'
      BY <1>6, <2>1, <3>1, <3>3, Zenon
      DEF Open, OpenCall, HasMounted, HasClaimed, Preparing, MountPcs, ServiceInv, HookOK
    <3> QED
      BY <1>6, <1>15, <3>1, <3>3, <3>4, ServiceKeepsLaunch, Zenon
  <2>2. CASE th = "watcher"
    <3>1. proc'["service"] = proc["service"] /\ proc'["worker"] = proc["worker"]
          /\ proc'["watcher"].title = NoTitle
      BY <1>5, <1>7, <2>2, Zenon DEF Threads
    <3> QED
      BY <1>6, <1>15, <1>16, <3>1, OthersKeepLaunch, Zenon
  <2>3. CASE th = "worker"
    <3>1. proc'["service"] = proc["service"] /\ proc'["watcher"] = proc["watcher"]
          /\ proc'["worker"].title = NoTitle
      BY <1>5, <1>7, <2>3, Zenon DEF Threads
    <3>2. Open => ~Prepares(proc'["worker"], hook.title)
      BY <1>15, <3>1, Zenon DEF Prepares
    <3> QED
      BY <1>6, <1>15, <1>16, <3>1, <3>2, OthersKeepLaunch, Zenon
  <2> QED
    BY <2>1, <2>2, <2>3, Zenon DEF Threads
<1> QED
  BY <1>12, <1>13, <1>14, <1>17, Zenon DEF ThreadsInv

(* Every step of a release keeps the invariant.                               *)
LEMMA ReleaseStepKeeps ==
  ASSUME ServiceInv, NEW th \in Threads, ReleaseStep(th)
  PROVE  ThreadsInv'
<1>1. CASE BeginRelease(th)
  <2>1. proc[th].pc = "release" /\ UNCHANGED <<runtimeVars, watchVars, worldVars, hook>>
    BY <1>1, Zenon DEF BeginRelease, At
  <2>2. CASE /\ begin_runtime_release(proc[th].title, proc[th].public, proc[th].expected,
                                      has_active_game)
             /\ Goto(th, "layers")
    BY <2>1, <2>2, EnterReleaseKeeps, Zenon DEF Title
  <2>3. CASE EndRelease(th) /\ UNCHANGED ownerVars
    BY <2>1, <2>3, LeaveReleaseKeeps, Zenon DEF ownerVars
  <2> QED
    BY <1>1, <2>2, <2>3 DEF BeginRelease
<1>2. CASE FinishRelease(th)
  <2>1. /\ proc[th].pc = "released" /\ UNCHANGED <<runtimeVars, watchVars, worldVars, hook>>
        /\ EndRelease(th)
    BY <1>2, Zenon DEF FinishRelease, At
  <2>2. releasing_title_id = Title(th)
    BY <2>1, ThreadFacts, Zenon DEF CallFits, ReleasePcs, Title
  <2>3. /\ releasing_title_id' = NoTitle
        /\ UNCHANGED <<prepared, outgoing, prepare_in_progress, launch_pending>>
        /\ UNCHANGED <<pending_launch_title_id, external_mutation_in_progress>>
    BY <1>2, <2>2, Zenon DEF FinishRelease, end_runtime_release
  <2> QED
    BY <2>1, <2>3, LeaveReleaseKeeps, Zenon
<1> QED
  BY <1>1, <1>2, UnmountTitleLayersKeeps, ChooseImagesKeeps, DetachImagesKeeps,
     RetryReleaseKeeps, ForgetOwnerKeeps, Zenon DEF ReleaseStep

-----------------------------------------------------------------------------
(* The steps that take no part in a mount or a release.                       *)

(* A call outside mounts and releases keeps the control part.                 *)
LEMMA QuietKeepsControl ==
  ASSUME ServiceInv, NEW th \in Threads, NEW d \in Calls, proc' = [proc EXCEPT ![th] = d],
         proc[th].pc \notin ReleasePcs, d.pc \notin ReleasePcs,
         \A u : ~Prepares(proc[th], u),
         CallFits(th, d, releasing_title_id),
         UNCHANGED <<prepared, outgoing, prepare_in_progress, releasing_title_id>>,
         external_mutation_in_progress' <=>
           IF th = "worker" THEN d.gate ELSE external_mutation_in_progress
  PROVE  /\ proc' \in [Threads -> Calls] /\ CallsOK' /\ GatesOK'
         /\ proc'[th] = d /\ \A o \in Threads : o # th => proc'[o] = proc[o]
<1>1. proc' \in [Threads -> Calls] /\ CallsOK' /\ GatesOK'
  BY MoveKeepsControl, Zenon
<1> QED
  BY <1>1, AssignFacts DEF ServiceInv, WorldOK

(* So does a step that moves no call.                                         *)
LEMMA StillKeepsControl ==
  ASSUME ServiceInv, proc' = proc,
         UNCHANGED <<prepare_in_progress, releasing_title_id, external_mutation_in_progress>>,
         prepared'.title_id = prepared.title_id
  PROVE  CallsOK' /\ GatesOK'
  BY Zenon DEF ServiceInv, CallsOK, GatesOK

(* Nothing is to be shown of a launch that is not open.                       *)
LEMMA NotOpenKeepsLaunch ==
  ASSUME HookOK', ~Open'
  PROVE  LaunchOK'
  BY Zenon DEF LaunchOK, OpenOK, PreparingOK, ClaimedOK, MountedOK, Preparing, HasClaimed, HasMounted

(* The service thread: everything but what it tells of the launch.            *)
LEMMA ServiceMoveKeeps ==
  ASSUME ServiceInv, NEW d \in Calls, proc' = [proc EXCEPT !["service"] = d],
         proc["service"].pc \notin ReleasePcs \cup MountPcs, d.pc \notin ReleasePcs \cup MountPcs,
         CallFits("service", d, releasing_title_id),
         UNCHANGED <<prepared, outgoing, prepare_in_progress, releasing_title_id>>,
         UNCHANGED <<external_mutation_in_progress, runtimeVars, watchVars, worldVars>>,
         hook' \in Hooks,
         proc'["watcher"] = proc["watcher"] /\ proc'["worker"] = proc["worker"]
           /\ proc'["service"] = d => LaunchOK'
  PROVE  ThreadsInv'
<1>1. "service" \in Threads /\ \A u : ~Prepares(proc["service"], u)
  BY DEF Threads, Prepares
<1>2. /\ proc' \in [Threads -> Calls] /\ CallsOK' /\ GatesOK'
      /\ proc'["service"] = d /\ \A o \in Threads : o # "service" => proc'[o] = proc[o]
  BY <1>1, QuietKeepsControl, Zenon
<1>3. proc'["watcher"] = proc["watcher"] /\ proc'["worker"] = proc["worker"]
  BY <1>2, Zenon DEF Threads
<1>4. UNCHANGED <<titles, images, game, execs, exits, process, alive>>
  BY Zenon DEF runtimeVars, watchVars, worldVars
<1>5. WatcherOK' /\ GameOK' /\ OwnersTracked'
  BY <1>3, <1>4, WatchFrame, Zenon
<1>6. WorldOK' /\ StacksOK'
  BY <1>2, <1>4 DEF ServiceInv, WorldOK, StacksOK
<1> QED
  BY <1>2, <1>3, <1>5, <1>6, Zenon DEF ThreadsInv

(* An abandoned launch is of another title; its release goes on with this one.*)
LEMMA AbandonKeeps ==
  ASSUME ServiceInv, cleanup_abandoned_launch
  PROVE  ThreadsInv'
<1> DEFINE s == proc["service"]
<1>1. /\ s \in Calls /\ CallFits("service", s, releasing_title_id)
      /\ s.title \in Titles \cup {NoTitle} /\ s.gate \in BOOLEAN
  BY ThreadFacts DEF Threads
<1>2. /\ s.pc = "abandon"
      /\ UNCHANGED <<runtimeVars, watchVars, worldVars, hook>>
      /\ UNCHANGED <<prepared, outgoing, prepare_in_progress, launch_pending>>
      /\ UNCHANGED <<pending_launch_title_id, external_mutation_in_progress, releasing_title_id>>
  BY DEF cleanup_abandoned_launch, At, ownerVars
<1>3. PICK t : t = s.title
  BY Zenon
<1>4. /\ t \in Titles /\ s.pc \notin ReleasePcs \cup MountPcs /\ ~s.gate
      /\ "claim" \in Pcs /\ "release" \in Pcs
  BY <1>1, <1>2, <1>3 DEF CallFits, UntitledPcs, ReleasePcs, MountPcs, GatePcs, Pcs
<1>5. PICK d : d = IF Abandoned(t)
                   THEN [Idle EXCEPT !.pc = "release", !.title = prepared.title_id, !.next = t]
                   ELSE [s EXCEPT !.pc = "claim"]
  BY Zenon
<1>6. proc' = [proc EXCEPT !["service"] = d]
  BY <1>3, <1>5, Zenon DEF cleanup_abandoned_launch, Title
<1>7. /\ d \in Calls /\ CallFits("service", d, releasing_title_id)
      /\ d.pc \in {"release", "claim"} /\ Serves(d, t)
  <2>1. CASE Abandoned(t)
    <3>1. PICK u : u = prepared.title_id
      BY Zenon
    <3>2. u \in Titles /\ u # t /\ NoOwner \in MountOwner
      BY <2>1, <3>1, NoOwnerFacts, Zenon DEF Abandoned, ServiceInv, OwnersInv, OwnersTypeOK, MountOwner
    <3>3. d = [Idle EXCEPT !.pc = "release", !.title = u, !.next = t]
      BY <1>5, <2>1, <3>1
    <3>4. d = ReleaseOf("release", u, NoOwner, t)
      BY <3>3, Zenon DEF Idle, ReleaseOf
    <3>5. /\ d \in Calls /\ d.pc = "release" /\ d.title = u /\ d.next = t
          /\ d.expected = NoOwner /\ ~d.gate
      BY <1>4, <3>2, <3>4, ReleaseOfFacts
    <3> QED
      BY <3>2, <3>5 DEF CallFits, Serves, MountPcs, ReleasePcs
  <2>2. CASE ~Abandoned(t)
    <3>1. d = WithPc(s, "claim")
      BY <1>5, <2>2, Zenon DEF WithPc
    <3>2. d \in Calls /\ SameCall(d, s) /\ d.pc = "claim" /\ d.gate = s.gate
      BY <1>1, <1>4, <3>1, SetPc
    <3> QED
      BY <1>1, <1>2, <1>3, <1>4, <3>2, Zenon DEF CallFits, Serves, SameCall, MountPcs, ReleasePcs, UntitledPcs
  <2> QED
    BY <2>1, <2>2, Zenon
<1>8. hook \in Hooks /\ d.pc \notin ReleasePcs \cup MountPcs
  BY <1>7, Zenon DEF ServiceInv, WorldOK, ReleasePcs, MountPcs
<1>9. ASSUME proc'["watcher"] = proc["watcher"], proc'["worker"] = proc["worker"],
             proc'["service"] = d
      PROVE  LaunchOK'
  <2>1. hook.phase = "launch" => Serves(d, hook.title)
    BY <1>2, <1>3, <1>7, Zenon DEF ServiceInv, HookOK, Serves, MountPcs
  <2>2. (Open' => Open) /\ ~Preparing' /\ ~HasClaimed' /\ ~HasMounted'
    BY <1>2, <1>7, <1>9, Zenon DEF Open, OpenCall, Preparing, HasClaimed, HasMounted, MountPcs, ServiceInv, HookOK
  <2>3. Open => /\ releasing_title_id # hook.title
                /\ Prepares(proc["worker"], hook.title) =>
                     prepare_in_progress /\ prepared.title_id = hook.title
    BY Zenon DEF ServiceInv, OpenOK
  <2>4. UNCHANGED <<game, process, alive, execs, exits>>
    BY <1>2 DEF watchVars, worldVars
  <2> QED
    BY <1>2, <1>9, <2>1, <2>2, <2>3, <2>4, ServiceKeepsLaunch, Zenon
<1> HIDE DEF s
<1> QED
  BY <1>2, <1>4, <1>6, <1>7, <1>8, <1>9, ServiceMoveKeeps, Zenon DEF s

(* A step of the service thread from one point of its call to another; a      *)
(* launch stays open only if it was and its pending identity is kept.         *)
LEMMA ServiceGotoKeeps ==
  ASSUME ServiceInv, NEW pc \in {"reply", "release"}, Goto("service", pc),
         proc["service"].pc \in {"rejected", "guard", "reset"},
         pc = "release" => proc["service"].pc = "guard",
         UNCHANGED <<prepared, outgoing, prepare_in_progress, launch_pending>>,
         UNCHANGED <<external_mutation_in_progress, releasing_title_id>>,
         UNCHANGED <<runtimeVars, watchVars, worldVars, hook>>
  PROVE  ThreadsInv'
<1>1. PICK s : s = proc["service"]
  BY Zenon
<1>2. s \in Calls /\ CallFits("service", s, releasing_title_id)
  BY <1>1, ThreadFacts DEF Threads
<1>3. PICK d : d = WithPc(s, pc)
  BY Zenon
<1>4. proc' = [proc EXCEPT !["service"] = d]
  BY <1>1, <1>3, Zenon DEF Goto, WithPc
<1>5. /\ d \in Calls /\ SameCall(d, s) /\ d.pc = pc /\ d.gate = s.gate /\ d.ok = s.ok
  BY <1>2, <1>3, SetPc DEF Pcs, UntitledPcs
<1>6. CallFits("service", d, releasing_title_id)
  BY <1>1, <1>2, <1>5, Zenon DEF CallFits, SameCall, UntitledPcs, MountPcs, ReleasePcs, GatePcs
<1>7. hook \in Hooks /\ d.pc \notin ReleasePcs \cup MountPcs
      /\ proc["service"].pc \notin ReleasePcs \cup MountPcs
  BY <1>5, Zenon DEF ServiceInv, WorldOK, ReleasePcs, MountPcs
<1>8. ASSUME proc'["service"] = d
      PROVE  LaunchOK'
  <2>1. hook.phase = "launch" => s.pc = "rejected" /\ pc = "reply" /\ s.title = hook.title
    BY <1>1, Zenon DEF ServiceInv, HookOK, Serves, MountPcs
  <2>2. hook.phase = "launch" => ~d.ok /\ Serves(d, hook.title)
    BY <1>2, <1>5, <2>1, Zenon DEF CallFits, Serves, SameCall
  <2>3. ~(hook.phase = "app" /\ hook.granted)
    BY <1>1, Zenon DEF ServiceInv, HookOK
  <2>4. HookOK'
    BY <1>8, <2>2, <2>3, Zenon DEF HookOK, ServiceInv
  <2>5. ~Open'
    BY <1>5, <1>8, <2>1, <2>2, <2>3, Zenon DEF Open, OpenCall
  <2> QED
    BY <2>4, <2>5, NotOpenKeepsLaunch, Zenon
<1> QED
  BY <1>4, <1>5, <1>6, <1>7, <1>8, ServiceMoveKeeps, Zenon

(* The answer: an open launch becomes a granted one.                          *)
LEMMA ReplyKeeps ==
  ASSUME ServiceInv, Reply
  PROVE  ThreadsInv'
<1>1. PICK s : s = proc["service"]
  BY Zenon
<1>2. /\ s.pc = "reply" /\ s.ok \in BOOLEAN /\ hook \in Hooks
  BY <1>1, ThreadFacts, Zenon DEF Threads, Reply, At, ServiceInv, WorldOK
<1>3. /\ proc' = [proc EXCEPT !["service"] = Idle]
      /\ UNCHANGED <<runtimeVars, watchVars, worldVars>>
      /\ UNCHANGED <<prepared, outgoing, prepare_in_progress, launch_pending>>
      /\ UNCHANGED <<pending_launch_title_id, external_mutation_in_progress, releasing_title_id>>
  BY Zenon DEF Reply, Return, ownerVars
<1>4. /\ Idle \in Calls /\ CallFits("service", Idle, releasing_title_id)
      /\ Idle.pc \notin ReleasePcs \cup MountPcs
      /\ s.pc \notin ReleasePcs \cup MountPcs
  BY <1>2, IdleFacts, Zenon DEF CallFits, UntitledPcs, MountPcs, ReleasePcs
<1>5. CASE hook.phase = "launch"
  <2>1. hook' = [hook EXCEPT !.phase = "app", !.granted = s.ok]
    BY <1>1, <1>5, Zenon DEF Reply
  <2>2. hook' \in Hooks
    BY <1>2, <2>1, Zenon DEF Hooks
  <2>3. hook'.phase = "app" /\ hook'.title = hook.title /\ hook'.fresh = hook.fresh
        /\ hook'.granted = s.ok
    BY <1>2, <2>1, Zenon DEF Hooks
  <2>4. ASSUME proc'["watcher"] = proc["watcher"], proc'["worker"] = proc["worker"],
               proc'["service"] = Idle
        PROVE  LaunchOK'
    <3>1. HookOK'
      BY <1>5, <2>3, <2>4, IdleFacts, Zenon DEF HookOK, ServiceInv
    <3>2. Open' => Open /\ HasClaimed /\ HasMounted
      BY <1>1, <1>2, <1>5, <2>3, Zenon DEF Open, OpenCall, HasClaimed, HasMounted
    <3>3. PICK t : t = hook.title
      BY Zenon
    <3>4. hook'.title = t /\ (Settled(t)' <=> Settled(t)) /\ (Owned(t)' <=> Owned(t))
      BY <1>3, <2>3, <3>3, Zenon DEF Settled, Owned, watchVars, worldVars
    <3>5. OpenOK'
      <4> SUFFICES ASSUME Open' PROVE OpenOK'
        BY Zenon DEF OpenOK
      <4>1. OpenOK /\ Open
        BY <3>2, Zenon DEF ServiceInv
      <4>2. /\ Settled(t)' /\ pending_launch_title_id' = t /\ releasing_title_id' # t
            /\ proc'["watcher"].title = t => proc'["watcher"].pc = "release"
            /\ proc'["worker"].title = t => ~proc'["worker"].gate
            /\ Prepares(proc'["worker"], t) => prepare_in_progress' /\ prepared'.title_id = t
        BY <1>3, <2>4, <3>3, <3>4, <4>1, Zenon DEF OpenOK
      <4> QED
        BY <3>4, <4>2, Zenon DEF OpenOK
    <3>6. ~Preparing'
      BY <2>3, Zenon DEF Preparing
    <3>7. HasClaimed' => Open' /\ ClaimedOK
      BY Zenon DEF HasClaimed, ServiceInv
    <3>8. ClaimedOK'
      BY <1>3, <3>2, <3>3, <3>4, <3>7, Zenon DEF ClaimedOK
    <3>9. HasMounted' => Open' /\ MountedOK
      BY DEF HasMounted, ServiceInv
    <3>10. MountedOK'
      BY <1>3, <2>3, <2>4, <3>2, <3>9, Zenon DEF MountedOK, runtimeVars
    <3> QED
      BY <3>1, <3>5, <3>6, <3>8, <3>10, Zenon DEF LaunchOK, PreparingOK
  <2> QED
    BY <1>1, <1>3, <1>4, <2>2, <2>4, ServiceMoveKeeps, Zenon
<1>6. CASE hook.phase # "launch"
  <2>1. hook' = HookIdle \/ (hook' = hook /\ hook.phase # "launch")
    BY <1>6, Zenon DEF Reply
  <2>2. HookIdle \in Hooks /\ HookIdle.phase = "idle"
    BY Zenon DEF HookIdle, Hooks
  <2>3. ~(hook.phase = "app" /\ hook.granted)
    BY <1>1, <1>2, Zenon DEF ServiceInv, HookOK
  <2>4. HookOK' /\ ~Open'
    BY <2>1, <2>2, <2>3, <1>6, Zenon DEF HookOK, ServiceInv, Open, OpenCall
  <2>5. LaunchOK' /\ hook' \in Hooks
    BY <1>2, <2>1, <2>2, <2>4, NotOpenKeepsLaunch, Zenon
  <2> QED
    BY <1>1, <1>3, <1>4, <2>5, ServiceMoveKeeps, Zenon
<1> QED
  BY <1>5, <1>6, Zenon

(* LAUNCH_FAILED starts the reset of its title or finds it guarded.           *)
LEMMA LaunchFailedKeeps ==
  ASSUME ServiceInv, LaunchFailedRequest
  PROVE  ThreadsInv'
<1>1. PICK t : t = hook.title
  OBVIOUS
<1>2. PICK pc \in {"reply", "reset", "guard"} :
        pc = IF prepared.title_id # t \/ prepared.pid # 0 THEN "reply"
             ELSE IF outgoing # NoOwner THEN "reset" ELSE "guard"
  OBVIOUS
<1>3. PICK d : d = [Idle EXCEPT !.title = t, !.pc = pc]
  OBVIOUS
<1>4. /\ proc["service"].pc = "idle" /\ proc' = [proc EXCEPT !["service"] = d]
      /\ hook.phase = "failed" /\ hook' = [hook EXCEPT !.phase = "failing"]
      /\ UNCHANGED <<runtimeVars, watchVars, worldVars>>
      /\ UNCHANGED <<prepared, outgoing, prepare_in_progress>>
      /\ UNCHANGED <<external_mutation_in_progress, releasing_title_id>>
  BY <1>1, <1>2, <1>3, Zenon DEF LaunchFailedRequest, StartCall, At, fail_pending_launch
<1>5. t \in Titles /\ hook \in Hooks /\ NoOwner \in MountOwner /\ pc \in Pcs
  BY <1>1, <1>4, NoOwnerFacts, Zenon DEF ServiceInv, HookOK, WorldOK, Pcs, UntitledPcs
<1>6. d = ReleaseOf(pc, t, NoOwner, NoTitle)
  BY <1>3, Zenon DEF Idle, ReleaseOf
<1>7. /\ d \in Calls /\ d.pc = pc /\ d.title = t /\ d.expected = NoOwner /\ d.next = NoTitle
      /\ ~d.gate
  BY <1>5, <1>6, ReleaseOfFacts
<1>8. CallFits("service", d, releasing_title_id) /\ d.pc \notin ReleasePcs \cup MountPcs
      /\ proc["service"].pc \notin ReleasePcs \cup MountPcs
  BY <1>4, <1>5, <1>7, Zenon DEF CallFits, ReleasePcs, MountPcs
<1>9. hook' \in Hooks /\ hook'.phase = "failing" /\ hook'.title = t
  BY <1>1, <1>4, <1>5, Zenon DEF Hooks
<1>10. HookOK' /\ ~Open'
  BY <1>5, <1>9, Zenon DEF HookOK, Open, OpenCall
<1> QED
  BY <1>4, <1>7, <1>8, <1>9, <1>10, NotOpenKeepsLaunch, ServiceMoveKeeps, Zenon

(* Every step of the service thread keeps the invariant.                      *)
LEMMA ServiceStepKeeps ==
  ASSUME ServiceInv, ServiceStep
  PROVE  ThreadsInv'
<1>1. CASE RejectLaunch
  <2>1. /\ proc["service"].pc = "rejected" /\ Goto("service", "reply")
        /\ UNCHANGED <<prepared, outgoing, prepare_in_progress, launch_pending>>
        /\ UNCHANGED <<external_mutation_in_progress, releasing_title_id>>
        /\ UNCHANGED <<runtimeVars, watchVars, worldVars, hook>>
    BY <1>1, Zenon DEF RejectLaunch, reject_pending_launch, At
  <2> QED
    BY <2>1, ServiceGotoKeeps, Zenon
<1>2. CASE GuardedRelease
  <2>1. PICK pc \in {"reply", "release"} :
          pc = IF is_protected(Title("service")) THEN "reply" ELSE "release"
    BY Zenon
  <2>2. /\ proc["service"].pc = "guard" /\ Goto("service", pc)
        /\ UNCHANGED <<prepared, outgoing, prepare_in_progress, launch_pending>>
        /\ UNCHANGED <<external_mutation_in_progress, releasing_title_id>>
        /\ UNCHANGED <<runtimeVars, watchVars, worldVars, hook>>
    BY <1>2, <2>1, Zenon DEF GuardedRelease, At, ownerVars
  <2> QED
    BY <2>2, ServiceGotoKeeps, Zenon
<1>3. CASE BeginReset
  <2>1. proc["service"].pc = "reset" /\ UNCHANGED <<runtimeVars, watchVars, worldVars, hook>>
    BY <1>3, Zenon DEF BeginReset, At
  <2>2. CASE /\ begin_runtime_release(Title("service"), FALSE, NoOwner, has_active_game)
             /\ Goto("service", "unmount")
    BY <2>1, <2>2, EnterReleaseKeeps, Zenon DEF Threads
  <2>3. CASE Goto("service", "reply") /\ UNCHANGED ownerVars
    BY <2>1, <2>3, ServiceGotoKeeps, Zenon DEF ownerVars
  <2> QED
    BY <1>3, <2>2, <2>3, Zenon DEF BeginReset
<1> QED
  BY <1>1, <1>2, <1>3, AbandonKeeps, ReplyKeeps, LaunchFailedKeeps, ResetTitleMountKeeps, Zenon
  DEF ServiceStep

-----------------------------------------------------------------------------
(* The steps of the watcher.                                                  *)

(* Its call moves, the processes and the table are left alone.                *)
LEMMA WatcherMoveKeeps ==
  ASSUME ServiceInv, NEW d \in Calls, proc' = [proc EXCEPT !["watcher"] = d],
         proc["watcher"].pc \notin ReleasePcs \cup MountPcs, d.pc \notin ReleasePcs \cup MountPcs,
         CallFits("watcher", d, releasing_title_id),
         d.pc \in BindPcs => /\ d.pid \in alive \cup exits /\ process[d.pid] = d.title
                             /\ game.leaving => game.title_id = d.title,
         UNCHANGED <<ownerVars, runtimeVars, game, exits, worldVars, hook>>,
         \A p \in execs' : p \in alive \cup exits \cup execs,
         Open => (d.title = hook.title => d.pc = "release")
  PROVE  ThreadsInv'
<1>1. "watcher" \in Threads /\ \A u : ~Prepares(proc["watcher"], u)
  BY Zenon DEF Threads, Prepares
<1>2. /\ UNCHANGED <<titles, images, game, exits, process, alive, hook>>
      /\ UNCHANGED <<prepared, outgoing, prepare_in_progress, launch_pending>>
      /\ UNCHANGED <<pending_launch_title_id, external_mutation_in_progress, releasing_title_id>>
  BY Zenon DEF runtimeVars, worldVars, ownerVars
<1>3. /\ proc' \in [Threads -> Calls] /\ CallsOK' /\ GatesOK'
      /\ proc'["watcher"] = d /\ \A o \in Threads : o # "watcher" => proc'[o] = proc[o]
  BY <1>1, <1>2, QuietKeepsControl, Zenon
<1>4. proc'["service"] = proc["service"] /\ proc'["worker"] = proc["worker"]
  BY <1>3, Zenon DEF Threads
<1>5. WatcherOK'
  BY <1>2, <1>3, Zenon DEF WatcherOK
<1>6. GameOK' /\ OwnersTracked' /\ StacksOK'
  BY <1>2, Zenon DEF ServiceInv, GameOK, OwnersTracked, Tracked, StacksOK
<1>7. WorldOK'
  BY <1>2, <1>3, Zenon DEF ServiceInv, WorldOK
<1>8. LaunchOK'
  <2>1. ASSUME Open
        PROVE  /\ Settled(hook.title)' /\ TitleKept(hook.title)
               /\ releasing_title_id' # hook.title
               /\ proc'["watcher"].title = hook.title => proc'["watcher"].pc = "release"
               /\ proc'["worker"].title = hook.title => ~proc'["worker"].gate
    <3>1. OpenOK /\ TitleKept(hook.title)
      BY <1>2, GateKeepsTable, Zenon DEF ServiceInv
    <3>2. Settled(hook.title)'
      BY <1>2, <2>1, <3>1, Zenon DEF OpenOK, Settled
    <3> QED
      BY <1>2, <1>3, <1>4, <2>1, <3>1, <3>2, Zenon DEF OpenOK
  <2>2. HasMounted => hook.title \in titles'
    BY <1>2, Zenon DEF ServiceInv, MountedOK
  <2> QED
    BY <1>2, <1>4, <2>1, <2>2, OthersKeepLaunch, Zenon
<1> QED
  BY <1>3, <1>5, <1>6, <1>7, <1>8, Zenon DEF ThreadsInv

(* A launch seen by the watcher is bound, or prepared first.                  *)
LEMMA DispatchLaunchKeeps ==
  ASSUME ServiceInv, NEW p \in Pids, DispatchLaunch(p)
  PROVE  ThreadsInv'
<1>1. PICK t : t = process[p]
  BY Zenon
<1>2. PICK pc \in {"bind", "claim"} :
        pc = IF IsHandoff(p) /\ Owned(t) /\ t \in titles THEN "bind" ELSE "claim"
  OBVIOUS
<1>3. PICK d : d = [Idle EXCEPT !.title = t, !.pid = p, !.launch = TRUE, !.pc = pc]
  OBVIOUS
<1>4. /\ proc["watcher"].pc = "idle" /\ proc' = [proc EXCEPT !["watcher"] = d]
      /\ p \in execs \cap alive
      /\ ~IsHandoff(p) => ~game.leaving
      /\ UNCHANGED <<ownerVars, runtimeVars, game, execs, exits, worldVars, hook>>
  BY <1>1, <1>2, <1>3, Zenon DEF DispatchLaunch, StartCall, At, watchVars
<1>5. t \in Titles /\ pc \in Pcs
  BY <1>1, <1>4, Zenon DEF ServiceInv, WorldOK, Pcs
<1>6. d = LaunchOf(pc, t, p)
  BY <1>3, Zenon DEF Idle, LaunchOf
<1>7. /\ d \in Calls /\ d.pc = pc /\ d.title = t /\ d.pid = p /\ ~d.gate
      /\ d.expected = NoOwner /\ d.next = NoTitle
  BY <1>5, <1>6, LaunchOfFacts
<1>8. CallFits("watcher", d, releasing_title_id) /\ d.pc \notin ReleasePcs \cup MountPcs
      /\ proc["watcher"].pc \notin ReleasePcs \cup MountPcs
  BY <1>4, <1>5, <1>7, Zenon DEF CallFits, ReleasePcs, MountPcs
<1>9. game.leaving => game.title_id = t
  BY <1>1, <1>4, Zenon DEF IsHandoff
<1>10. Open => t # hook.title
  BY <1>1, <1>4, Zenon DEF ServiceInv, OpenOK, Settled
<1> QED
  BY <1>1, <1>4, <1>7, <1>8, <1>9, <1>10, WatcherMoveKeeps, Zenon

(* The watcher releases an owner whose game has exited.                       *)
LEMMA ReleaseExitedKeeps ==
  ASSUME ServiceInv, ReleaseExited
  PROVE  ThreadsInv'
<1>1. PICK o \in {prepared, outgoing} :
        /\ o.game_exited
        /\ StartCall("watcher", [Idle EXCEPT !.pc = "release", !.title = o.title_id,
                                             !.expected = o])
  BY Zenon DEF ReleaseExited
<1>2. PICK t : t = o.title_id
  OBVIOUS
<1>3. PICK d : d = [Idle EXCEPT !.pc = "release", !.title = t, !.expected = o]
  OBVIOUS
<1>4. /\ proc["watcher"].pc = "idle" /\ proc' = [proc EXCEPT !["watcher"] = d]
      /\ UNCHANGED <<ownerVars, runtimeVars, game, execs, exits, worldVars, hook>>
  BY <1>1, <1>2, <1>3, Zenon DEF ReleaseExited, StartCall, At, watchVars
<1>5. o \in MountOwner /\ t \in Titles /\ o # NoOwner /\ "release" \in Pcs
  BY <1>1, <1>2, NoOwnerFacts, Zenon DEF ServiceInv, OwnersInv, OwnersTypeOK, MountOwner, Pcs
<1>6. d = ReleaseOf("release", t, o, NoTitle)
  BY <1>3, Zenon DEF Idle, ReleaseOf
<1>7. /\ d \in Calls /\ d.pc = "release" /\ d.title = t /\ ~d.gate
      /\ d.expected = o /\ d.next = NoTitle
  BY <1>5, <1>6, ReleaseOfFacts
<1>8. CallFits("watcher", d, releasing_title_id) /\ d.pc \notin ReleasePcs \cup MountPcs \cup BindPcs
      /\ proc["watcher"].pc \notin ReleasePcs \cup MountPcs
  BY <1>1, <1>4, <1>5, <1>7, Zenon DEF CallFits, ReleasePcs, MountPcs, BindPcs
<1> QED
  BY <1>4, <1>7, <1>8, WatcherMoveKeeps, Zenon

(* A launch that cannot be bound yet is put back.                             *)
LEMMA DeferLaunchKeeps ==
  ASSUME ServiceInv, DeferLaunch
  PROVE  ThreadsInv'
<1>1. PICK w : w = proc["watcher"]
  BY Zenon
<1>2. /\ w.pc = "defer" /\ proc' = [proc EXCEPT !["watcher"] = Idle]
      /\ UNCHANGED <<ownerVars, runtimeVars, game, exits, worldVars, hook>>
      /\ \A p \in execs' : p = w.pid \/ p \in execs
  BY <1>1, Zenon DEF DeferLaunch, At, Return, ClearPending
<1>3. w.pid \in alive \cup exits
  BY <1>1, <1>2, Zenon DEF ServiceInv, WatcherOK, BindPcs
<1>4. /\ Idle \in Calls /\ CallFits("watcher", Idle, releasing_title_id)
      /\ Idle.pc \notin ReleasePcs \cup MountPcs \cup BindPcs
      /\ w.pc \notin ReleasePcs \cup MountPcs
  BY <1>2, IdleFacts, Zenon DEF CallFits, UntitledPcs, MountPcs, ReleasePcs, BindPcs
<1>5. Open => Idle.title # hook.title
  BY IdleFacts, OpenFacts, Zenon
<1> QED
  BY <1>1, <1>2, <1>3, <1>4, <1>5, WatcherMoveKeeps, Zenon

(* The watcher turns to the deferral of a launch it cannot bind.              *)
LEMMA CannotBindKeeps ==
  ASSUME ServiceInv, proc["watcher"].pc = "bind", Goto("watcher", "defer"),
         UNCHANGED <<ownerVars, runtimeVars, watchVars, worldVars, hook>>
  PROVE  ThreadsInv'
<1>1. PICK w : w = proc["watcher"]
  BY Zenon
<1>2. PICK d : d = WithPc(w, "defer")
  BY Zenon
<1>3. w \in Calls /\ CallFits("watcher", w, releasing_title_id)
  BY <1>1, ThreadFacts, Zenon DEF Threads
<1>4. d \in Calls /\ SameCall(d, w) /\ d.pc = "defer" /\ d.gate = w.gate
  <2>1. "defer" \in Pcs
    BY DEF Pcs
  <2> QED
    BY <1>2, <1>3, <2>1, SetPc
<1>5. proc' = [proc EXCEPT !["watcher"] = d]
  BY <1>1, <1>2 DEF Goto, WithPc
<1>6. CallFits("watcher", d, releasing_title_id) /\ d.pc \notin ReleasePcs \cup MountPcs
      /\ w.pc \notin ReleasePcs \cup MountPcs
  BY <1>1, <1>3, <1>4, Zenon DEF CallFits, SameCall, UntitledPcs, ReleasePcs, MountPcs, GatePcs
<1>7. /\ d.pid \in alive \cup exits /\ process[d.pid] = d.title
      /\ game.leaving => game.title_id = d.title
  BY <1>1, <1>4, Zenon DEF ServiceInv, WatcherOK, BindPcs, SameCall
<1>8. Open => d.title # hook.title
  BY <1>1, <1>4, Zenon DEF ServiceInv, OpenOK, SameCall
<1> QED
  BY <1>1, <1>4, <1>5, <1>6, <1>7, <1>8, WatcherMoveKeeps, Zenon DEF watchVars

(* A deferral drops the other pending launches.                               *)
LEMMA DropLaunchKeeps ==
  ASSUME ServiceInv, NEW p \in Pids, DropLaunch(p)
  PROVE  ThreadsInv'
<1>1. /\ UNCHANGED <<titles, images, proc, game, exits, process, alive, hook>>
      /\ UNCHANGED <<prepared, outgoing, prepare_in_progress, launch_pending>>
      /\ UNCHANGED <<pending_launch_title_id, external_mutation_in_progress, releasing_title_id>>
      /\ execs' \subseteq execs
  BY Zenon DEF DropLaunch, runtimeVars, worldVars, ownerVars
<1>2. CallsOK' /\ GatesOK'
  BY <1>1, StillKeepsControl, Zenon
<1>3. WatcherOK' /\ GameOK' /\ OwnersTracked'
  BY <1>1, WatchFrame, Zenon
<1>4. WorldOK' /\ StacksOK'
  BY <1>1, Zenon DEF ServiceInv, WorldOK, StacksOK
<1>5. LaunchOK'
  <2>1. Open => OpenOK /\ TitleKept(hook.title)
    BY <1>1, GateKeepsTable, Zenon DEF ServiceInv
  <2>2. Open => Settled(hook.title)'
    BY <1>1, <2>1, Zenon DEF OpenOK, Settled
  <2>3. HasMounted => hook.title \in titles'
    BY <1>1, Zenon DEF ServiceInv, MountedOK
  <2> QED
    BY <1>1, <2>1, <2>2, <2>3, OthersKeepLaunch, Zenon DEF OpenOK
<1> QED
  BY <1>2, <1>3, <1>4, <1>5, Zenon DEF ThreadsInv

(* Both slots cannot have one process, as they have different titles: noting  *)
(* its exit leaves no live owner of it.                                       *)
LEMMA ExitIsNoted ==
  ASSUME ServiceInv, NEW p \in Pids, note_game_exit(p)
  PROVE  /\ \/ prepared' = prepared /\ prepared.pid # p
            \/ prepared.pid = p /\ ~Live(prepared') /\ prepared'.pid = prepared.pid
               /\ prepared'.title_id = prepared.title_id
         /\ \/ outgoing' = outgoing /\ outgoing.pid # p
            \/ outgoing.pid = p /\ ~Live(outgoing') /\ outgoing'.pid = outgoing.pid
               /\ outgoing'.title_id = outgoing.title_id
<1>1. prepared \in MountOwner /\ outgoing \in MountOwner /\ p # 0
  BY OwnerConstants DEF ServiceInv, OwnersInv, OwnersTypeOK
<1>2. /\ Exited(prepared).pid = prepared.pid /\ ~Live(Exited(prepared))
      /\ Exited(prepared).title_id = prepared.title_id
      /\ Exited(outgoing).pid = outgoing.pid /\ ~Live(Exited(outgoing))
      /\ Exited(outgoing).title_id = outgoing.title_id
  BY <1>1, Zenon DEF Exited, Live, MountOwner
<1>3. ~(prepared.pid = p /\ outgoing.pid = p)
  <2> SUFFICES ASSUME prepared.pid = p, outgoing.pid = p PROVE FALSE
    BY Zenon
  <2>1. prepared.title_id = outgoing.title_id
    BY <1>1, Zenon DEF ServiceInv, OwnersTracked, Tracked
  <2>2. prepared.title_id # NoTitle
    BY <1>1, NoOwnerFacts, Zenon DEF ServiceInv, OwnersInv, OwnersTypeOK
  <2> QED
    BY <2>1, <2>2, Zenon DEF ServiceInv, OwnersInv, DistinctOwners
<1> QED
  BY <1>2, <1>3, Zenon DEF note_game_exit

(* The watcher notes an exit: the owner of the process is no longer live, any *)
(* other live owner still waits for its exit.                                 *)
LEMMA NoteExitKeeps ==
  ASSUME ServiceInv, NEW p \in Pids, p \notin alive, note_game_exit(p),
         proc["watcher"].pc = "idle",
         UNCHANGED <<runtimeVars, proc, worldVars, hook>>,
         execs' \subseteq execs, exits' \subseteq exits, exits \subseteq exits' \cup {p},
         game' = game \/ (game' = NoGame /\ game.pid = p)
  PROVE  ThreadsInv'
<1>1. /\ UNCHANGED <<titles, images, process, alive>>
      /\ UNCHANGED <<prepare_in_progress, launch_pending, pending_launch_title_id>>
      /\ UNCHANGED <<external_mutation_in_progress, releasing_title_id>>
  BY Zenon DEF note_game_exit, runtimeVars, worldVars
<1>2. /\ prepared'.title_id = prepared.title_id /\ outgoing'.title_id = outgoing.title_id
      /\ \A t : TitleKept(t)
  BY ExitKeepsTitles DEF ServiceInv
<1>3. /\ NoGame \in Games /\ NoGame.title_id = NoTitle /\ NoGame.leaving = FALSE
  BY Zenon DEF NoGame, Games
<1>4. CallsOK' /\ GatesOK'
  BY <1>1, <1>2, StillKeepsControl, Zenon
<1>5. WatcherOK'
  BY DEF WatcherOK, BindPcs, MountPcs
<1>6. GameOK'
  BY <1>1, <1>3, Zenon DEF ServiceInv, GameOK
<1>7. OwnersTracked'
  <2>1. Tracked(prepared) /\ Tracked(outgoing)
    BY Zenon DEF ServiceInv, OwnersTracked
  <2>2. Tracked(prepared)'
    BY <1>1, <2>1, ExitIsNoted, Zenon DEF Tracked
  <2>3. Tracked(outgoing)'
    BY <1>1, <2>1, ExitIsNoted, Zenon DEF Tracked
  <2> QED
    BY <2>2, <2>3, Zenon DEF OwnersTracked
<1>8. WorldOK' /\ StacksOK'
  BY <1>1, <1>3, Zenon DEF ServiceInv, WorldOK, StacksOK
<1>9. LaunchOK'
  <2>1. Open => OpenOK /\ hook.title # NoTitle
    BY OpenFacts, Zenon DEF ServiceInv
  <2>2. Open => Settled(hook.title)'
    BY <1>1, <1>3, <2>1, Zenon DEF OpenOK, Settled
  <2>3. HasMounted => hook.title \in titles'
    BY <1>1, Zenon DEF ServiceInv, MountedOK
  <2> QED
    BY <1>1, <1>2, <2>1, <2>2, <2>3, OthersKeepLaunch, Zenon DEF OpenOK
<1> QED
  BY <1>4, <1>5, <1>6, <1>7, <1>8, <1>9, Zenon DEF ThreadsInv

(* The exit of a process: noted at once, or a handoff window opens.           *)
LEMMA HandleExitKeeps ==
  ASSUME ServiceInv, NEW p \in Pids, HandleExit(p)
  PROVE  ThreadsInv'
<1>1. /\ proc["watcher"].pc = "idle" /\ p \in exits
      /\ exits' = exits \ {p} /\ execs' = execs \ {p}
      /\ UNCHANGED <<runtimeVars, proc, worldVars, hook>>
  BY Zenon DEF HandleExit, At
<1>2. p \notin alive /\ p # 0
  BY <1>1, OwnerConstants DEF ServiceInv, WorldOK
<1>3. CASE game.pid # p
  BY <1>1, <1>2, <1>3, NoteExitKeeps, Zenon DEF HandleExit
<1>4. CASE game.pid = p
  <2>1. game' = [game EXCEPT !.leaving = TRUE] /\ UNCHANGED ownerVars
    BY <1>4, Zenon DEF HandleExit
  <2>2. game \in Games /\ game # NoGame
    BY <1>2, <1>4 DEF ServiceInv, WorldOK, NoGame
  <2>3. /\ game'.pid = game.pid /\ game'.title_id = game.title_id /\ game'.leaving
        /\ game' \in Games
    BY <2>1, <2>2, Zenon DEF Games
  <2>4. game' # NoGame
    BY <1>2, <1>4, <2>3 DEF NoGame
  <2>5. /\ UNCHANGED <<titles, images, process, alive, hook, proc>>
        /\ UNCHANGED <<prepared, outgoing, prepare_in_progress, launch_pending>>
        /\ UNCHANGED <<pending_launch_title_id, external_mutation_in_progress>>
        /\ UNCHANGED <<releasing_title_id>>
    BY <1>1, <2>1, Zenon DEF runtimeVars, worldVars, ownerVars
  <2>6. CallsOK' /\ GatesOK'
    BY <2>5, StillKeepsControl, Zenon
  <2>7. WatcherOK'
    BY <1>1, <2>5, Zenon DEF WatcherOK, BindPcs, MountPcs
  <2>8. GameOK'
    BY <1>2, <1>4, <2>2, <2>3, <2>4, <2>5, Zenon DEF ServiceInv, GameOK
  <2>9. OwnersTracked'
    BY <1>1, <1>4, <2>3, <2>5, Zenon DEF ServiceInv, OwnersTracked, Tracked, Live
  <2>10. WorldOK' /\ StacksOK'
    BY <1>1, <2>3, <2>5, Zenon DEF ServiceInv, WorldOK, StacksOK
  <2>11. LaunchOK'
    <3>1. Open => OpenOK /\ TitleKept(hook.title)
      BY <2>5, GateKeepsTable, Zenon DEF ServiceInv
    <3>2. Open => Settled(hook.title)'
      BY <1>1, <2>3, <2>5, <3>1, Zenon DEF OpenOK, Settled
    <3>3. HasMounted => hook.title \in titles'
      BY <2>5, Zenon DEF ServiceInv, MountedOK
    <3> QED
      BY <2>5, <3>1, <3>2, <3>3, OthersKeepLaunch, Zenon DEF OpenOK
  <2> QED
    BY <2>6, <2>7, <2>8, <2>9, <2>10, <2>11, Zenon DEF ThreadsInv
<1> QED
  BY <1>3, <1>4, Zenon

(* A handoff window that passes notes the exit.                               *)
LEMMA FinalizeExitKeeps ==
  ASSUME ServiceInv, FinalizeExit
  PROVE  ThreadsInv'
<1>1. /\ proc["watcher"].pc = "idle" /\ game.leaving /\ note_game_exit(game.pid)
      /\ game' = NoGame /\ execs' = execs /\ exits' = exits
      /\ UNCHANGED <<runtimeVars, proc, worldVars, hook>>
  BY Zenon DEF FinalizeExit, At
<1>2. game.pid \in Pids /\ game.pid \notin alive
  BY <1>1, Zenon DEF ServiceInv, GameOK
<1> QED
  BY <1>1, <1>2, NoteExitKeeps, Zenon

(* Binding: the process is the watched one, and the game in its handoff       *)
(* window, if there is one, had the same title.                               *)
LEMMA BindKeeps ==
  ASSUME ServiceInv, NEW t, NEW p, NEW app \in Apps \cup {0}, NEW managed \in BOOLEAN,
         proc["watcher"].pc = "bind", t = proc["watcher"].title, p = proc["watcher"].pid,
         bind_prepared_app(t, app, p, managed), Return("watcher"),
         game' = [pid |-> p, title_id |-> t, leaving |-> FALSE],
         execs' \subseteq execs, UNCHANGED <<runtimeVars, exits, worldVars, hook>>
  PROVE  ThreadsInv'
<1>1. /\ proc["watcher"] \in Calls /\ CallFits("watcher", proc["watcher"], releasing_title_id)
      /\ t \in Titles
  BY ThreadFacts, Zenon DEF Threads, CallFits, UntitledPcs
<1>2. /\ p \in alive \cup exits /\ process[p] = t
      /\ game.leaving => game.title_id = t
  BY Zenon DEF ServiceInv, WatcherOK, BindPcs
<1>3. p \in Pids /\ p # 0 /\ t # NoTitle
  BY <1>1, <1>2, OwnerConstants, Zenon DEF ServiceInv, WorldOK
<1>4. /\ game' \in Games /\ game'.pid = p /\ game'.title_id = t /\ ~game'.leaving
  BY <1>1, <1>3, Zenon DEF Games
<1>5. game' # NoGame
  BY <1>3, <1>4, Zenon DEF NoGame
<1>6. /\ UNCHANGED <<titles, images, process, alive>>
      /\ UNCHANGED <<external_mutation_in_progress, releasing_title_id>>
      /\ proc' = [proc EXCEPT !["watcher"] = Idle]
  BY Zenon DEF bind_prepared_app, Return, runtimeVars, worldVars
<1>7. /\ prepared \in MountOwner /\ outgoing \in MountOwner
      /\ prepared.title_id = outgoing.title_id => prepared.title_id = NoTitle
  BY Zenon DEF ServiceInv, OwnersInv, OwnersTypeOK, DistinctOwners
<1>8. /\ Bound(prepared, app, p).pid = p /\ Bound(prepared, app, p).title_id = prepared.title_id
      /\ Bound(outgoing, app, p).pid = p /\ Bound(outgoing, app, p).title_id = outgoing.title_id
  BY <1>7 DEF Bound, MountOwner
<1>9. /\ \/ prepared' = prepared /\ prepared.title_id # t
         \/ prepared'.pid = p /\ prepared'.title_id = t /\ prepared.title_id = t
      /\ \/ outgoing' = outgoing /\ outgoing.title_id # t
         \/ outgoing'.pid = p /\ outgoing'.title_id = t /\ outgoing.title_id = t
      /\ prepare_in_progress' => prepare_in_progress /\ prepared' = prepared
  <2>1. CASE prepared.title_id = t
    <3>1. prepared' = Bound(prepared, app, p) /\ outgoing' = outgoing /\ ~prepare_in_progress'
      BY <2>1, Zenon DEF bind_prepared_app
    <3> QED
      BY <1>3, <1>7, <1>8, <2>1, <3>1, Zenon
  <2>2. CASE prepared.title_id # t
    <3>1. /\ prepared' = prepared
          /\ prepare_in_progress' => prepare_in_progress
          /\ outgoing' = IF outgoing.title_id = t THEN Bound(outgoing, app, p) ELSE outgoing
      BY <2>2, Zenon DEF bind_prepared_app
    <3> QED
      BY <1>8, <2>2, <3>1, Zenon
  <2> QED
    BY <2>1, <2>2, Zenon
<1>10. /\ Idle \in Calls /\ CallFits("watcher", Idle, releasing_title_id')
       /\ Idle.pc \notin ReleasePcs /\ ~Idle.gate /\ Idle.title = NoTitle /\ Idle.pc = "idle"
       /\ proc["watcher"].pc \notin ReleasePcs
       /\ \A u : ~Prepares(proc["watcher"], u)
  BY IdleFacts, Zenon DEF CallFits, UntitledPcs, MountPcs, ReleasePcs, Prepares
<1>11. proc' \in [Threads -> Calls] /\ CallsOK' /\ GatesOK'
  <2>1. "watcher" \in Threads /\ "watcher" # "worker"
    BY Zenon DEF Threads
  <2>2. prepare_in_progress' => /\ prepare_in_progress
                                /\ prepared'.title_id = prepared.title_id
    BY <1>9, Zenon
  <2> QED
    BY <1>6, <1>10, <2>1, <2>2, MoveKeepsControl, Zenon
<1>12. /\ proc'["watcher"] = Idle
       /\ proc'["service"] = proc["service"] /\ proc'["worker"] = proc["worker"]
  BY <1>6, <1>10, AssignFacts, Zenon DEF Threads, ServiceInv, WorldOK
<1>13. WatcherOK'
  BY <1>10, <1>12, Zenon DEF WatcherOK, BindPcs, MountPcs
<1>14. GameOK'
  BY <1>1, <1>2, <1>3, <1>4, <1>5, <1>6, Zenon DEF GameOK
<1>15. ASSUME NEW o \in {prepared, outgoing}, o.title_id # t
       PROVE  Tracked(o)
              /\ (Live(o) => o.pid \in alive \cup exits)
  <2>1. Tracked(o)
    BY <1>15, Zenon DEF ServiceInv, OwnersTracked
  <2>2. Live(o) /\ game.leaving => game.pid # o.pid
    BY <1>2, <1>15, <2>1, Zenon DEF ServiceInv, GameOK, Tracked, Live
  <2> QED
    BY <2>1, <2>2, Zenon DEF Tracked
<1>16. OwnersTracked'
  <2>1. Tracked(prepared)'
    BY <1>2, <1>6, <1>9, <1>15, Zenon DEF Tracked, Live
  <2>2. Tracked(outgoing)'
    BY <1>2, <1>6, <1>9, <1>15, Zenon DEF Tracked, Live
  <2> QED
    BY <2>1, <2>2, Zenon DEF OwnersTracked
<1>17. WorldOK' /\ StacksOK'
  BY <1>4, <1>6, <1>11, Zenon DEF ServiceInv, WorldOK, StacksOK
<1>18. LaunchOK'
  <2>1. Open => OpenOK /\ hook.title # NoTitle /\ hook.title \in Titles /\ t # hook.title
    BY OpenFacts, Zenon DEF ServiceInv, OpenOK
  <2>2. Open => TitleKept(hook.title)
    BY <1>1, <1>3, <2>1, OtherTitleKeeps, Zenon DEF ServiceInv
  <2>3. Open => Settled(hook.title)'
    BY <1>4, <1>6, <2>1, Zenon DEF OpenOK, Settled
  <2>4. HasMounted => hook.title \in titles'
    BY <1>6, Zenon DEF ServiceInv, MountedOK
  <2> QED
    BY <1>6, <1>10, <1>12, <2>1, <2>2, <2>3, <2>4, OthersKeepLaunch, Zenon DEF OpenOK
<1> QED
  BY <1>11, <1>13, <1>14, <1>16, <1>17, <1>18, Zenon DEF ThreadsInv

(* Every step of the watcher keeps the invariant.                             *)
LEMMA WatcherStepKeeps ==
  ASSUME ServiceInv, WatcherStep
  PROVE  ThreadsInv'
<1>1. CASE BindGame
  <2>1. proc["watcher"].pc = "bind" /\ UNCHANGED <<runtimeVars, exits, worldVars, hook>>
    BY <1>1, Zenon DEF BindGame, At
  <2>2. PICK t, p : t = proc["watcher"].title /\ p = proc["watcher"].pid
    OBVIOUS
  <2>3. PICK managed \in BOOLEAN : managed = (t \in Managed)
    <3>1. (t \in Managed) \in BOOLEAN
      OBVIOUS
    <3> QED
      BY <3>1, Zenon
  <2>4. CASE /\ \E app \in AppInfo : bind_prepared_app(t, app, p, managed)
             /\ game' = [pid |-> p, title_id |-> t, leaving |-> FALSE]
             /\ execs' \in ClearPending(execs \ {p})
             /\ Return("watcher")
    <3>1. PICK app \in Apps \cup {0} : bind_prepared_app(t, app, p, managed)
      BY <2>4, ServiceConstants, Zenon
    <3>2. execs' \subseteq execs
      BY <2>4, Zenon DEF ClearPending
    <3> QED
      BY <2>1, <2>2, <2>4, <3>1, <3>2, BindKeeps, Zenon
  <2>5. CASE Goto("watcher", "defer") /\ UNCHANGED <<ownerVars, game, execs>>
    BY <2>1, <2>5, CannotBindKeeps, Zenon DEF watchVars
  <2> QED
    BY <1>1, <2>2, <2>3, <2>4, <2>5, Zenon DEF BindGame, Title
<1> QED
  BY <1>1, DispatchLaunchKeeps, DropLaunchKeeps, HandleExitKeeps, DeferLaunchKeeps,
     FinalizeExitKeeps, ReleaseExitedKeeps, Zenon DEF WatcherStep
=============================================================================
