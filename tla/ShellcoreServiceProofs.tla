----------------------- MODULE ShellcoreServiceProofs -----------------------
(***************************************************************************)
(* Theorems about the threads of ShellcoreService, for any titles, processes, *)
(* images and chains: they use the ownership table as ShellcoreOwners       *)
(* describes it, lower every gate they raise, forget no running game except *)
(* in the rollback of a failed preparation, and leave a granted launch its  *)
(* runtime. The steps of a mount, of a release and of the watcher are in the *)
(* modules below; those of the worker and of SceShellCore come first here.  *)
(***************************************************************************)
EXTENDS ShellcoreReleaseProofs

(* The steps of the worker: it enters the mutation gate only when no launch   *)
(* is pending, and sweeps only behind the gate.                               *)
LEMMA WorkerMoveKeeps ==
  ASSUME ServiceInv, NEW d \in Calls, proc' = [proc EXCEPT !["worker"] = d],
         proc["worker"].pc \notin ReleasePcs \cup MountPcs, d.pc \notin ReleasePcs,
         d.pc \in MountPcs => d.gate,
         CallFits("worker", d, releasing_title_id),
         external_mutation_in_progress' <=> d.gate,
         d.gate => \/ CanMutate
                   \/ proc["worker"].gate /\ d.title = proc["worker"].title,
         UNCHANGED <<prepared, outgoing, prepare_in_progress, launch_pending>>,
         UNCHANGED <<pending_launch_title_id, releasing_title_id>>,
         UNCHANGED <<watchVars, worldVars, hook>>,
         titles' \subseteq titles, images' \subseteq images,
         images \cap BusyImages \subseteq images',
         titles' # titles => proc["worker"].gate
  PROVE  ThreadsInv'
<1>1. "worker" \in Threads /\ \A u : ~Prepares(proc["worker"], u)
  BY DEF Threads, Prepares
<1>2. UNCHANGED <<game, execs, exits, process, alive>>
  BY DEF watchVars, worldVars
<1>3. /\ proc' \in [Threads -> Calls] /\ CallsOK' /\ GatesOK'
      /\ proc'["worker"] = d /\ \A o \in Threads : o # "worker" => proc'[o] = proc[o]
  BY <1>1, QuietKeepsControl, Zenon
<1>4. proc'["service"] = proc["service"] /\ proc'["watcher"] = proc["watcher"]
  BY <1>3 DEF Threads
<1>5. WatcherOK' /\ GameOK' /\ OwnersTracked'
  BY <1>2, <1>4, WatchFrame, Zenon
<1>6. WorldOK' /\ StacksOK'
  BY <1>2, <1>3, StacksFrame, Zenon DEF ServiceInv, WorldOK
<1>7. external_mutation_in_progress <=> proc["worker"].gate
  BY Zenon DEF ServiceInv, GatesOK
<1>8. LaunchOK'
  <2>1. ASSUME Open
        PROVE  /\ Settled(hook.title)' /\ TitleKept(hook.title)
               /\ releasing_title_id' # hook.title
               /\ external_mutation_in_progress' => external_mutation_in_progress
               /\ proc'["watcher"].title = hook.title => proc'["watcher"].pc = "release"
               /\ proc'["worker"].title = hook.title => ~proc'["worker"].gate
               /\ ~Prepares(proc'["worker"], hook.title)
    <3>1. OpenOK /\ TitleKept(hook.title) /\ ~CanMutate
      BY <2>1, GateKeepsTable, OpenFacts, Zenon DEF ServiceInv
    <3>2. Settled(hook.title)'
      BY <1>2, <2>1, <3>1, Zenon DEF OpenOK, Settled
    <3>3. d.gate => proc["worker"].gate /\ d.title = proc["worker"].title
      BY <3>1
    <3>4. ~Prepares(d, hook.title)
      BY DEF Prepares
    <3> QED
      BY <1>3, <1>4, <1>7, <2>1, <3>1, <3>2, <3>3, <3>4, Zenon DEF OpenOK
  <2>2. HasMounted => hook.title \in titles'
    <3>1. HasMounted => HasClaimed
      BY DEF HasMounted, HasClaimed, MountPcs
    <3>2. HasMounted => hook.title \in titles /\ ~external_mutation_in_progress
      BY <3>1 DEF ServiceInv, MountedOK, ClaimedOK
    <3> QED
      BY <1>7, <3>2, Zenon
  <2> QED
    BY <1>4, <2>1, <2>2, OthersKeepLaunch, Zenon
<1> QED
  BY <1>3, <1>5, <1>6, <1>8, Zenon DEF ThreadsInv

(* A request starts a call without the gate.                                  *)
LEMMA RequestKeeps ==
  ASSUME ServiceInv, NEW d \in Calls, StartCall("worker", d), ~d.gate,
         d.pc \in {"enter", "claim", "gate", "release"},
         d.pc # "gate" => d.title \in Managed, d.pc = "release" => d.public,
         d.next = NoTitle, d.expected = NoOwner,
         UNCHANGED <<ownerVars, runtimeVars, watchVars, worldVars, hook>>
  PROVE  ThreadsInv'
<1>1. /\ proc["worker"].pc = "idle" /\ proc' = [proc EXCEPT !["worker"] = d]
      /\ UNCHANGED <<prepared, outgoing, prepare_in_progress, launch_pending>>
      /\ UNCHANGED <<pending_launch_title_id, external_mutation_in_progress, releasing_title_id>>
      /\ UNCHANGED <<titles, images>>
  BY DEF StartCall, At, ownerVars, runtimeVars
<1>2. CallFits("worker", d, releasing_title_id) /\ d.pc \notin ReleasePcs \cup MountPcs
      /\ proc["worker"].pc \notin ReleasePcs \cup MountPcs
  BY <1>1, ServiceConstants, Zenon DEF CallFits, UntitledPcs, ReleasePcs, MountPcs
<1>3. ~external_mutation_in_progress
  BY <1>1, ThreadFacts, Zenon DEF ServiceInv, GatesOK, CallFits, GatePcs, Threads
<1> QED
  BY <1>1, <1>2, <1>3, WorkerMoveKeeps, Zenon

(* API requests and scans start calls that fit the worker.                    *)
LEMMA RequestsKeep ==
  ASSUME ServiceInv, MountRequest \/ UnmountRequest \/ ScanRequest
  PROVE  ThreadsInv'
<1>1. NoOwner \in MountOwner /\ NoTitle \in Titles \cup {NoTitle} /\ Managed \subseteq Titles
      /\ {"enter", "claim", "gate", "release"} \subseteq Pcs
  BY NoOwnerFacts, ServiceConstants DEF Pcs, UntitledPcs
<1>2. CASE MountRequest
  <2>1. PICK t \in Managed :
          StartCall("worker", [Idle EXCEPT !.title = t,
                                 !.pc = IF has_active_game THEN "enter" ELSE "claim"])
    BY <1>2, Zenon DEF MountRequest
  <2>2. PICK pc \in {"enter", "claim"} : pc = IF has_active_game THEN "enter" ELSE "claim"
    OBVIOUS
  <2>3. PICK d : d = [Idle EXCEPT !.title = t, !.pc = pc]
    OBVIOUS
  <2>4. d = ReleaseOf(pc, t, NoOwner, NoTitle) /\ StartCall("worker", d)
    BY <2>1, <2>2, <2>3, Zenon DEF Idle, ReleaseOf
  <2>5. /\ d \in Calls /\ d.pc = pc /\ d.title = t /\ d.next = NoTitle
        /\ d.expected = NoOwner /\ ~d.gate
    BY <1>1, <2>4, ReleaseOfFacts
  <2> QED
    BY <1>1, <1>2, <2>4, <2>5, RequestKeeps, Zenon DEF MountRequest
<1>3. CASE UnmountRequest
  <2>1. PICK t \in Managed :
          StartCall("worker", [Idle EXCEPT !.pc = "release", !.title = t, !.public = TRUE])
    BY <1>3, Zenon DEF UnmountRequest
  <2>2. PICK d : d = [Idle EXCEPT !.pc = "release", !.title = t, !.public = TRUE]
    OBVIOUS
  <2>3. d = UnmountOf("release", t) /\ StartCall("worker", d)
    BY <2>1, <2>2, Zenon DEF Idle, UnmountOf
  <2>4. /\ d \in Calls /\ d.pc = "release" /\ d.title = t /\ d.public /\ d.next = NoTitle
        /\ d.expected = NoOwner /\ ~d.gate
    BY <1>1, <2>3, UnmountOfFacts
  <2> QED
    BY <1>1, <1>3, <2>3, <2>4, RequestKeeps, Zenon DEF UnmountRequest
<1>4. CASE ScanRequest
  <2>1. PICK d : d = [Idle EXCEPT !.pc = "gate"]
    BY Zenon
  <2>2. d = ReleaseOf("gate", NoTitle, NoOwner, NoTitle) /\ StartCall("worker", d)
    BY <1>4, <2>1, Zenon DEF Idle, ReleaseOf, ScanRequest
  <2>3. /\ d \in Calls /\ d.pc = "gate" /\ d.next = NoTitle
        /\ d.expected = NoOwner /\ ~d.gate
    BY <1>1, <2>2, ReleaseOfFacts
  <2> QED
    BY <1>4, <2>2, <2>3, RequestKeeps, Zenon DEF ScanRequest
<1> QED
  BY <1>2, <1>3, <1>4, Zenon

(* Entering the gate; without it the job gives up.                            *)
LEMMA EnterGateKeeps ==
  ASSUME ServiceInv, NEW pc \in {"inactive", "sweep"},
         proc["worker"].pc = IF pc = "inactive" THEN "enter" ELSE "gate",
         IF CanMutate
         THEN begin_external_mutation
              /\ proc' = [proc EXCEPT !["worker"].pc = pc, !["worker"].gate = TRUE]
         ELSE Return("worker") /\ UNCHANGED ownerVars,
         UNCHANGED <<runtimeVars, watchVars, worldVars, hook>>
  PROVE  ThreadsInv'
<1>1. PICK w : w = proc["worker"]
  BY Zenon
<1>2. w \in Calls /\ CallFits("worker", w, releasing_title_id) /\ ~external_mutation_in_progress
  BY <1>1, ThreadFacts, Zenon DEF Threads, ServiceInv, GatesOK, CallFits, GatePcs
<1>3. w.pc \notin ReleasePcs \cup MountPcs /\ UNCHANGED <<titles, images>>
  BY <1>1 DEF ReleasePcs, MountPcs, runtimeVars
<1>4. CASE CanMutate
  <2>1. PICK up \in BOOLEAN : up = TRUE
    BY Zenon
  <2>2. PICK d : d = WithGate(w, pc, up)
    OBVIOUS
  <2>3. d \in Calls /\ SameCall(d, w) /\ d.pc = pc /\ d.gate
    <3>1. pc \in Pcs
      BY DEF Pcs, GatePcs
    <3>2. d \in Calls /\ SameCall(d, w) /\ d.pc = pc /\ d.gate = up
      BY <1>2, <2>2, <3>1, SetGate
    <3> QED
      BY <2>1, <3>2
  <2>4. proc' = [proc EXCEPT !["worker"] = d]
    BY <1>1, <1>4, <2>1, <2>2, Zenon DEF WithGate
  <2>5. CallFits("worker", d, releasing_title_id) /\ d.pc \notin ReleasePcs \cup MountPcs
    BY <1>1, <1>2, <2>3, Zenon DEF CallFits, SameCall, UntitledPcs, ReleasePcs, MountPcs, GatePcs
  <2>6. /\ external_mutation_in_progress'
        /\ UNCHANGED <<prepared, outgoing, prepare_in_progress, launch_pending>>
        /\ UNCHANGED <<pending_launch_title_id, releasing_title_id>>
    BY <1>4 DEF begin_external_mutation
  <2> QED
    BY <1>1, <1>3, <1>4, <2>3, <2>4, <2>5, <2>6, WorkerMoveKeeps, Zenon
<1>5. CASE ~CanMutate
  <2>1. /\ proc' = [proc EXCEPT !["worker"] = Idle]
        /\ UNCHANGED <<prepared, outgoing, prepare_in_progress, launch_pending>>
        /\ UNCHANGED <<pending_launch_title_id, releasing_title_id>>
        /\ ~external_mutation_in_progress'
    BY <1>2, <1>5 DEF Return, ownerVars
  <2>2. /\ Idle \in Calls /\ CallFits("worker", Idle, releasing_title_id)
        /\ Idle.pc \notin ReleasePcs \cup MountPcs /\ ~Idle.gate
    BY IdleFacts DEF CallFits, UntitledPcs, MountPcs, ReleasePcs
  <2> QED
    BY <1>1, <1>3, <2>1, <2>2, WorkerMoveKeeps, Zenon
<1> QED
  BY <1>4, <1>5

(* A step behind the gate.                                                    *)
LEMMA GatedMoveKeeps ==
  ASSUME ServiceInv, NEW d \in Calls, proc' = [proc EXCEPT !["worker"] = d],
         proc["worker"].pc \in {"inactive", "sweep", "stacks", "sources"},
         d.pc \in {"failed", "images", "stacks", "sources", "done"},
         d.pc \in {"failed", "images"} => proc["worker"].pc = "inactive",
         SameCall(d, proc["worker"]), d.gate = proc["worker"].gate,
         UNCHANGED <<ownerVars, watchVars, worldVars, hook>>,
         titles' \subseteq titles, images' \subseteq images,
         images \cap BusyImages \subseteq images'
  PROVE  ThreadsInv'
<1>1. CallFits("worker", proc["worker"], releasing_title_id) /\ proc["worker"].gate
  BY ThreadFacts, Zenon DEF Threads, CallFits
<1>2. CallFits("worker", d, releasing_title_id) /\ d.pc \notin ReleasePcs
      /\ proc["worker"].pc \notin ReleasePcs \cup MountPcs
  BY <1>1, ServiceConstants DEF CallFits, SameCall, UntitledPcs, ReleasePcs, MountPcs, GatePcs
<1>3. /\ UNCHANGED <<prepared, outgoing, prepare_in_progress, launch_pending>>
      /\ UNCHANGED <<pending_launch_title_id, external_mutation_in_progress, releasing_title_id>>
  BY DEF ownerVars
<1>4. external_mutation_in_progress' <=> d.gate
  BY <1>3 DEF ServiceInv, GatesOK
<1> QED
  BY <1>1, <1>2, <1>3, <1>4, WorkerMoveKeeps, Zenon DEF SameCall

(* An API mount goes on only if no game is active.                            *)
LEMMA CheckInactiveKeeps ==
  ASSUME ServiceInv, CheckInactive
  PROVE  ThreadsInv'
<1>1. PICK w : w = proc["worker"]
  OBVIOUS
<1>2. PICK pc \in {"failed", "images"} :
        pc = IF background_work_blocked \/ title_runtime_is_protected(Title("worker"))
             THEN "failed" ELSE "images"
  OBVIOUS
<1>3. PICK d : d = WithPc(w, pc)
  OBVIOUS
<1>4. /\ w.pc = "inactive" /\ proc' = [proc EXCEPT !["worker"] = d]
      /\ UNCHANGED <<ownerVars, titles, images, watchVars, worldVars, hook>>
  BY <1>1, <1>2, <1>3, Zenon DEF CheckInactive, At, Goto, WithPc, runtimeVars
<1>5. w \in Calls
  BY <1>1, ThreadFacts DEF Threads
<1>6. d \in Calls /\ SameCall(d, w) /\ d.pc = pc /\ d.gate = w.gate
  BY <1>3, <1>5, SetPc DEF Pcs, MountPcs
<1> QED
  BY <1>1, <1>4, <1>6, GatedMoveKeeps, Zenon

(* The sweep takes the stacks down before it detaches images, and detaches    *)
(* none below a stack that is left.                                           *)
LEMMA SweepKeeps ==
  ASSUME ServiceInv, BeginSweep \/ SweepTitles \/ SweepImages
  PROVE  ThreadsInv'
<1>1. PICK w : w = proc["worker"]
  BY Zenon
<1>2. w \in Calls /\ titles \subseteq Titles /\ images \subseteq Images
  BY <1>1, ThreadFacts, Zenon DEF Threads, ServiceInv, WorldOK
<1>3. {"stacks", "sources", "done"} \subseteq Pcs
  BY Zenon DEF Pcs, GatePcs
<1>4. ASSUME NEW d, \/ \E pc \in {"stacks", "sources", "done"} : d = WithPc(w, pc)
                    \/ \E pc \in {"stacks", "sources", "done"}, v \in SUBSET (Titles \cup Images) :
                         d = WithVictims(w, pc, v)
      PROVE  /\ d \in Calls /\ SameCall(d, w) /\ d.gate = w.gate
             /\ d.pc \in {"stacks", "sources", "done"}
  <2>1. CASE \E pc \in {"stacks", "sources", "done"} : d = WithPc(w, pc)
    <3>1. PICK pc \in {"stacks", "sources", "done"} : d = WithPc(w, pc)
      BY <2>1
    <3>2. pc \in Pcs
      BY <1>3, Zenon
    <3> QED
      BY <1>2, <3>1, <3>2, SetPc
  <2>2. CASE \E pc \in {"stacks", "sources", "done"}, v \in SUBSET (Titles \cup Images) :
               d = WithVictims(w, pc, v)
    <3>1. PICK pc \in {"stacks", "sources", "done"}, v \in SUBSET (Titles \cup Images) :
            d = WithVictims(w, pc, v)
      BY <2>2
    <3>2. pc \in Pcs
      BY <1>3
    <3> QED
      BY <1>2, <3>1, <3>2, SetVictims
  <2> QED
    BY <1>4, <2>1, <2>2, Zenon
<1>5. CASE BeginSweep
  <2>1. PICK v : v = {t \in titles : ~is_protected(t)}
    BY Zenon
  <2>2. v \in SUBSET (Titles \cup Images)
    BY <1>2, <2>1
  <2>3. /\ w.pc = "sweep"
        /\ UNCHANGED <<ownerVars, titles, images, watchVars, worldVars, hook>>
    BY <1>1, <1>5 DEF BeginSweep, At
  <2>4. PICK d : proc' = [proc EXCEPT !["worker"] = d]
                 /\ (d = WithPc(w, "done") \/ d = WithVictims(w, "stacks", v))
    BY <1>1, <1>5, <2>1, ZenonT(40) DEF BeginSweep, Goto, WithPc, WithVictims
  <2>5. /\ d \in Calls /\ SameCall(d, w) /\ d.gate = w.gate
        /\ d.pc \in {"stacks", "sources", "done"}
    BY <1>4, <2>2, <2>4
  <2> QED
    BY <1>1, <2>3, <2>4, <2>5, GatedMoveKeeps, Zenon
<1>6. CASE SweepTitles
  <2>1. PICK gone \in SUBSET (w.victims \ BusyTitles) :
          /\ titles' = titles \ gone
          /\ IF gone = w.victims
             THEN proc' = [proc EXCEPT !["worker"].pc = "sources",
                             !["worker"].victims = images \ ProtectedImages]
             ELSE proc' = [proc EXCEPT !["worker"].pc = "done", !["worker"].victims = {}]
    BY <1>1, <1>6, Zenon DEF SweepTitles
  <2>2. PICK v : v = images \ ProtectedImages
    BY Zenon
  <2>3. PICK e : e = {}
    BY Zenon
  <2>4. v \in SUBSET (Titles \cup Images) /\ e \in SUBSET (Titles \cup Images)
    BY <1>2, <2>2, <2>3
  <2>5. PICK d : d = IF gone = w.victims THEN WithVictims(w, "sources", v)
                     ELSE WithVictims(w, "done", e)
    OBVIOUS
  <2>6. proc' = [proc EXCEPT !["worker"] = d]
    BY <1>1, <2>1, <2>2, <2>3, <2>5, Zenon DEF WithVictims
  <2>7. /\ w.pc = "stacks" /\ UNCHANGED <<ownerVars, images, watchVars, worldVars, hook>>
    BY <1>1, <1>6, Zenon DEF SweepTitles, At
  <2>8. /\ d \in Calls /\ SameCall(d, w) /\ d.gate = w.gate
        /\ d.pc \in {"stacks", "sources", "done"}
    <3>1. d = WithVictims(w, "sources", v) \/ d = WithVictims(w, "done", e)
      BY <2>5
    <3> QED
      BY <1>4, <2>4, <3>1, Zenon
  <2> QED
    BY <1>1, <2>1, <2>6, <2>7, <2>8, GatedMoveKeeps, Zenon
<1>7. CASE SweepImages
  <2>1. PICK gone \in SUBSET (w.victims \ BusyImages) : images' = images \ gone
    BY <1>1, <1>7, Zenon DEF SweepImages
  <2>2. PICK e : e = {}
    BY Zenon
  <2>3. PICK d : d = WithVictims(w, "done", e)
    OBVIOUS
  <2>4. /\ w.pc = "sources" /\ proc' = [proc EXCEPT !["worker"] = d]
        /\ UNCHANGED <<ownerVars, titles, watchVars, worldVars, hook>>
    BY <1>1, <1>7, <2>2, <2>3, Zenon DEF SweepImages, At, WithVictims
  <2>5. e \in SUBSET (Titles \cup Images)
    BY <2>2, Zenon
  <2>6. /\ d \in Calls /\ SameCall(d, w) /\ d.gate = w.gate
        /\ d.pc \in {"stacks", "sources", "done"}
    BY <1>4, <2>3, <2>5, Zenon
  <2>7. images' \subseteq images /\ images \cap BusyImages \subseteq images'
    BY <2>1
  <2> QED
    BY <1>1, <2>4, <2>6, <2>7, GatedMoveKeeps, Zenon
<1> QED
  BY <1>5, <1>6, <1>7

(* Every step of the worker keeps the invariant.                              *)
LEMMA WorkerStepKeeps ==
  ASSUME ServiceInv, WorkerStep
  PROVE  ThreadsInv'
<1>1. CASE EnterMount
  <2>1. proc["worker"].pc = "enter" /\ UNCHANGED <<runtimeVars, watchVars, worldVars, hook>>
    BY <1>1 DEF EnterMount, At
  <2> QED
    BY <1>1, <2>1, EnterGateKeeps, Zenon DEF EnterMount
<1>2. CASE EnterScan
  <2>1. proc["worker"].pc = "gate" /\ UNCHANGED <<runtimeVars, watchVars, worldVars, hook>>
    BY <1>2 DEF EnterScan, At
  <2> QED
    BY <1>2, <2>1, EnterGateKeeps DEF EnterScan
<1>3. CASE EndScan
  <2>1. /\ proc["worker"].pc = "done" /\ proc' = [proc EXCEPT !["worker"] = Idle]
        /\ ~external_mutation_in_progress'
        /\ UNCHANGED <<prepared, outgoing, prepare_in_progress, launch_pending>>
        /\ UNCHANGED <<pending_launch_title_id, releasing_title_id>>
        /\ UNCHANGED <<titles, images, watchVars, worldVars, hook>>
    BY <1>3, Zenon DEF EndScan, At, Return, end_external_mutation, runtimeVars
  <2>2. /\ Idle \in Calls /\ CallFits("worker", Idle, releasing_title_id)
        /\ Idle.pc \notin ReleasePcs \cup MountPcs /\ ~Idle.gate
        /\ proc["worker"].pc \notin ReleasePcs \cup MountPcs
    BY <2>1, IdleFacts DEF CallFits, UntitledPcs, MountPcs, ReleasePcs
  <2> QED
    BY <2>1, <2>2, WorkerMoveKeeps, Zenon
<1> QED
  BY <1>1, <1>2, <1>3, RequestsKeep, CheckInactiveKeeps, SweepKeeps, Zenon DEF WorkerStep

-----------------------------------------------------------------------------
(* SceShellCore and the processes.                                            *)

(* A launch is open from the start if nothing of the title is left: then no   *)
(* thread has the title, nor is it being released.                            *)
LEMMA LaunchRequestKeeps ==
  ASSUME ServiceInv, LaunchRequest
  PROVE  ThreadsInv'
<1>1. PICK t \in Titles :
        /\ set_pending_launch(t)
        /\ StartCall("service", [Idle EXCEPT !.pc = "abandon", !.title = t, !.launch = TRUE])
        /\ hook' = [HookIdle EXCEPT !.phase = "launch", !.title = t,
                      !.fresh = Settled(t) /\ \A th \in Threads : Title(th) # t]
  BY Zenon DEF LaunchRequest
<1>2. PICK d : d = [Idle EXCEPT !.pc = "abandon", !.title = t, !.launch = TRUE]
  OBVIOUS
<1>3. d = LaunchOf("abandon", t, 0)
  BY <1>2, Zenon DEF Idle, LaunchOf
<1>4. /\ d \in Calls /\ d.pc = "abandon" /\ d.title = t /\ ~d.gate
      /\ d.expected = NoOwner /\ d.next = NoTitle
  <2>1. "abandon" \in Pcs /\ 0 \in Pids \cup {0}
    BY DEF Pcs
  <2> QED
    BY <1>3, <2>1, LaunchOfFacts
<1>5. /\ proc["service"].pc = "idle" /\ proc' = [proc EXCEPT !["service"] = d]
      /\ UNCHANGED <<runtimeVars, watchVars, worldVars>>
      /\ pending_launch_title_id' = t
      /\ UNCHANGED <<prepared, outgoing, prepare_in_progress, launch_pending>>
      /\ UNCHANGED <<external_mutation_in_progress, releasing_title_id>>
  BY <1>1, <1>2, Zenon DEF LaunchRequest, StartCall, At, set_pending_launch
<1>6. CallFits("service", d, releasing_title_id) /\ d.pc \notin ReleasePcs \cup MountPcs
      /\ proc["service"].pc \notin ReleasePcs \cup MountPcs
  BY <1>4, <1>5 DEF CallFits, ReleasePcs, MountPcs
<1>7. /\ hook' \in Hooks /\ hook'.phase = "launch" /\ hook'.title = t /\ ~hook'.granted
      /\ hook'.fresh => Settled(t) /\ \A th \in Threads : Title(th) # t
  BY <1>1, Zenon DEF HookIdle, Hooks
<1>8. ASSUME proc'["watcher"] = proc["watcher"], proc'["worker"] = proc["worker"],
             proc'["service"] = d
      PROVE  LaunchOK'
  <2>1. HookOK'
    BY <1>4, <1>7, <1>8, Zenon DEF HookOK, Serves
  <2>2. ~Preparing' /\ ~HasClaimed' /\ ~HasMounted'
    BY <1>4, <1>7, <1>8, Zenon DEF Preparing, HasClaimed, HasMounted, MountPcs
  <2>3. OpenOK'
    <3> SUFFICES ASSUME Open' PROVE OpenOK'
      BY DEF OpenOK
    <3>1. Settled(t) /\ \A th \in Threads : Title(th) # t
      BY <1>7, Zenon DEF Open, OpenCall
    <3>2. Settled(t)' <=> Settled(t)
      BY <1>5, Zenon DEF Settled, watchVars, worldVars
    <3>3. releasing_title_id # t
      BY <3>1, OwnerConstants, Zenon DEF ServiceInv, GatesOK, Releases, Title
    <3>4. proc["watcher"].title # t /\ proc["worker"].title # t
      BY <3>1 DEF Threads, Title
    <3>5. /\ Settled(t)' /\ pending_launch_title_id' = t /\ releasing_title_id' # t
          /\ proc'["watcher"].title # t /\ proc'["worker"].title # t
          /\ ~Prepares(proc'["worker"], t)
      BY <1>5, <1>8, <3>1, <3>2, <3>3, <3>4, Zenon DEF Prepares
    <3> QED
      BY <1>7, <3>5, Zenon DEF OpenOK
  <2> QED
    BY <2>1, <2>2, <2>3, Zenon DEF LaunchOK, PreparingOK, ClaimedOK, MountedOK
<1> QED
  BY <1>4, <1>5, <1>6, <1>7, <1>8, ServiceMoveKeeps, Zenon

(* A new process has a pid that was not used before.                          *)
LEMMA StartKeeps ==
  ASSUME ServiceInv, NEW t \in Titles, Start(t), hook' \in Hooks,
         UNCHANGED <<ownerVars, runtimeVars, proc, game, exits>>,
         (\A q \in alive \cup execs \cup exits : process'[q] = process[q])
           /\ (\A q \in (alive \cup execs)' : q \in alive \cup execs \/ process'[q] = t)
           => LaunchOK'
  PROVE  ThreadsInv'
<1>1. PICK p \in Pids :
        /\ process[p] = NoTitle
        /\ process' = [process EXCEPT ![p] = t]
        /\ alive' = alive \cup {p}
        /\ execs' = execs \cup {p}
  BY Zenon DEF Start
<1>2. /\ UNCHANGED <<titles, images>>
      /\ UNCHANGED <<prepared, outgoing, prepare_in_progress, launch_pending>>
      /\ UNCHANGED <<pending_launch_title_id, external_mutation_in_progress, releasing_title_id>>
  BY Zenon DEF ownerVars, runtimeVars
<1>3. /\ process \in [Pids -> Titles \cup {NoTitle}] /\ p \notin alive \cup execs \cup exits
      /\ process' \in [Pids -> Titles \cup {NoTitle}] /\ process'[p] = t /\ t # NoTitle
      /\ \A q \in Pids : q # p => process'[q] = process[q]
  BY <1>1, OwnerConstants, Zenon DEF ServiceInv, WorldOK
<1>4. CallsOK' /\ GatesOK'
  BY <1>2, StillKeepsControl, Zenon
<1>5. WatcherOK'
  <2> SUFFICES ASSUME proc["watcher"].pc \in BindPcs
               PROVE  /\ proc["watcher"].pid \in alive' \cup exits'
                      /\ process'[proc["watcher"].pid] = proc["watcher"].title
                      /\ game.leaving => game.title_id = proc["watcher"].title
    BY Zenon DEF WatcherOK
  <2>1. /\ proc["watcher"].pid \in alive \cup exits
        /\ process[proc["watcher"].pid] = proc["watcher"].title
        /\ game.leaving => game.title_id = proc["watcher"].title
    BY Zenon DEF ServiceInv, WatcherOK
  <2>2. proc["watcher"].pid \in Pids /\ proc["watcher"].pid # p
    BY <1>3, <2>1, Zenon DEF ServiceInv, WorldOK
  <2> QED
    BY <1>1, <1>3, <2>1, <2>2, Zenon
<1>6. GameOK'
  <2>1. game # NoGame => game.pid \in Pids /\ process[game.pid] = game.title_id
                         /\ game.title_id \in Titles /\ game.pid # p
    BY <1>1, OwnerConstants, Zenon DEF ServiceInv, GameOK
  <2>2. game.leaving => game # NoGame /\ game.pid \notin alive
    BY Zenon DEF ServiceInv, GameOK
  <2> QED
    BY <1>1, <1>3, <2>1, <2>2, Zenon DEF GameOK
<1>7. ASSUME NEW o \in {prepared, outgoing}
      PROVE  o.pid # 0 => o.pid \in Pids /\ o.pid # p
  <2>1. o \in MountOwner /\ (o.title_id = NoTitle => o = NoOwner)
    BY <1>7, Zenon DEF ServiceInv, OwnersInv, OwnersTypeOK
  <2>2. Tracked(o)
    BY <1>7, Zenon DEF ServiceInv, OwnersTracked
  <2> QED
    BY <1>1, <2>1, <2>2, NoOwnerFacts, Zenon DEF Tracked, MountOwner
<1>8. OwnersTracked'
  <2>1. Tracked(prepared) /\ Tracked(outgoing)
    BY Zenon DEF ServiceInv, OwnersTracked
  <2> QED
    BY <1>1, <1>2, <1>3, <1>7, <2>1, Zenon DEF OwnersTracked, Tracked, Live
<1>9. WorldOK' /\ StacksOK'
  BY <1>1, <1>2, <1>3 DEF ServiceInv, WorldOK, StacksOK
<1>10. LaunchOK'
  BY <1>1, <1>3, Zenon DEF ServiceInv, WorldOK
<1> QED
  BY <1>4, <1>5, <1>6, <1>8, <1>9, <1>10, Zenon DEF ThreadsInv

(* Only the hook moves on, and the launch is no longer open.                  *)
LEMMA HookMoveKeeps ==
  ASSUME ServiceInv, hook' \in Hooks, HookOK', ~Open',
         UNCHANGED <<ownerVars, runtimeVars, proc, watchVars, worldVars>>
  PROVE  ThreadsInv'
<1>1. /\ UNCHANGED <<titles, images, game, exits, execs, process, alive>>
      /\ UNCHANGED <<prepared, outgoing, prepare_in_progress, launch_pending>>
      /\ UNCHANGED <<pending_launch_title_id, external_mutation_in_progress, releasing_title_id>>
  BY DEF runtimeVars, watchVars, worldVars, ownerVars
<1>2. CallsOK' /\ GatesOK'
  BY <1>1, StillKeepsControl, Zenon
<1>3. WatcherOK' /\ GameOK' /\ OwnersTracked'
  BY <1>1, WatchFrame, Zenon
<1>4. WorldOK' /\ StacksOK'
  BY <1>1, Zenon DEF ServiceInv, WorldOK, StacksOK
<1> QED
  BY <1>2, <1>3, <1>4, NotOpenKeepsLaunch, Zenon DEF ThreadsInv

(* An idle hook has no launch open.                                           *)
LEMMA HookIdleFacts ==
  ASSUME hook' = HookIdle
  PROVE  hook' \in Hooks /\ HookOK' /\ ~Open'
<1>1. hook' \in Hooks /\ hook'.phase = "idle"
  BY DEF HookIdle, Hooks
<1> QED
  BY <1>1 DEF HookOK, Open, OpenCall

(* launchApp starts a process or fails; either way the launch is over.        *)
LEMMA LaunchAppKeeps ==
  ASSUME ServiceInv, LaunchApp
  PROVE  ThreadsInv'
<1>1. /\ hook.phase = "app" /\ hook \in Hooks /\ hook.title \in Titles
      /\ UNCHANGED <<ownerVars, runtimeVars, proc, game, exits>>
  BY Zenon DEF LaunchApp, ServiceInv, WorldOK, HookOK
<1>2. CASE Start(hook.title) /\ hook' = HookIdle
  <2>1. PICK t : t = hook.title
    OBVIOUS
  <2>2. t \in Titles /\ Start(t)
    BY <1>1, <1>2, <2>1, Zenon
  <2>3. hook' \in Hooks /\ LaunchOK'
    BY <1>2, HookIdleFacts, NotOpenKeepsLaunch, Zenon
  <2> QED
    BY <1>1, <2>2, <2>3, StartKeeps, Zenon
<1>3. CASE hook' = HookIdle /\ UNCHANGED <<execs, worldVars>>
  BY <1>1, <1>3, HookIdleFacts, HookMoveKeeps, Zenon DEF watchVars
<1>4. CASE hook' = [hook EXCEPT !.phase = "failed"] /\ UNCHANGED <<execs, worldVars>>
  <2>1. hook' \in Hooks /\ hook'.phase = "failed" /\ hook'.title = hook.title
    BY <1>1, <1>4, Zenon DEF Hooks
  <2>2. HookOK' /\ ~Open'
    BY <1>1, <2>1 DEF HookOK, Open, OpenCall
  <2> QED
    BY <1>1, <1>4, <2>1, <2>2, HookMoveKeeps, Zenon DEF watchVars
<1> QED
  BY <1>2, <1>3, <1>4, Zenon DEF LaunchApp

(* A hook that has timed out no longer speaks of a granted launch.            *)
LEMMA HookTimeoutKeeps ==
  ASSUME ServiceInv, HookTimeout
  PROVE  ThreadsInv'
<1>1. /\ hook.phase \in {"launch", "failing"} /\ hook \in Hooks /\ hook.title \in Titles
      /\ UNCHANGED <<ownerVars, runtimeVars, proc, watchVars, worldVars>>
  BY DEF HookTimeout, ServiceInv, WorldOK, HookOK
<1>2. CASE hook.phase = "launch"
  <2>1. hook' = [hook EXCEPT !.phase = "app"]
    BY <1>2 DEF HookTimeout
  <2>2. /\ hook' \in Hooks /\ hook'.phase = "app" /\ hook'.title = hook.title
        /\ hook'.granted = hook.granted
    BY <1>1, <2>1, Zenon DEF Hooks
  <2>3. ~hook'.granted
    BY <1>2, <2>2, Zenon DEF ServiceInv, HookOK
  <2>4. HookOK' /\ ~Open'
    BY <1>1, <2>2, <2>3, Zenon DEF HookOK, Open, OpenCall
  <2> QED
    BY <1>1, <2>2, <2>4, HookMoveKeeps, Zenon
<1>3. CASE hook.phase # "launch"
  BY <1>1, <1>3, HookIdleFacts, HookMoveKeeps, Zenon DEF HookTimeout
<1> QED
  BY <1>2, <1>3, Zenon

(* A process that replaces itself does so under the same title.               *)
LEMMA ReplaceProcessKeeps ==
  ASSUME ServiceInv, ReplaceProcess
  PROVE  ThreadsInv'
<1>1. PICK q \in alive : Start(process[q])
  BY DEF ReplaceProcess
<1>2. PICK t : t = process[q]
  BY Zenon
<1>3. /\ t \in Titles /\ Start(t) /\ hook' \in Hooks
      /\ UNCHANGED <<ownerVars, runtimeVars, proc, game, exits, hook>>
  BY <1>1, <1>2, Zenon DEF ReplaceProcess, ServiceInv, WorldOK
<1>4. ASSUME \A r \in alive \cup execs \cup exits : process'[r] = process[r],
             \A r \in (alive \cup execs)' : r \in alive \cup execs \/ process'[r] = t
      PROVE  LaunchOK'
  <2>1. /\ UNCHANGED titles
        /\ UNCHANGED <<prepared, outgoing, prepare_in_progress, launch_pending>>
        /\ UNCHANGED <<pending_launch_title_id, external_mutation_in_progress>>
        /\ UNCHANGED releasing_title_id
    BY <1>3 DEF ownerVars, runtimeVars
  <2>2. Open => OpenOK /\ TitleKept(hook.title)
    BY <2>1, GateKeepsTable, Zenon DEF ServiceInv
  <2>3. Open => Settled(hook.title) /\ t # hook.title
    BY <1>1, <1>2, <2>2, Zenon DEF OpenOK, Settled
  <2>4. Open => Settled(hook.title)'
    BY <1>3, <1>4, <2>3, Zenon DEF Settled
  <2>5. HasMounted => hook.title \in titles'
    BY <2>1, Zenon DEF ServiceInv, MountedOK
  <2> QED
    BY <1>3, <2>1, <2>2, <2>4, <2>5, OthersKeepLaunch, Zenon DEF OpenOK
<1> QED
  BY <1>3, <1>4, StartKeeps, Zenon

(* A process that exits leaves its exit for the watcher.                      *)
LEMMA ExitProcessKeeps ==
  ASSUME ServiceInv, ExitProcess
  PROVE  ThreadsInv'
<1>1. PICK p \in alive : alive' = alive \ {p} /\ exits' = exits \cup {p}
  BY Zenon DEF ExitProcess
<1>2. /\ UNCHANGED <<titles, images, proc, game, execs, process, hook>>
      /\ UNCHANGED <<prepared, outgoing, prepare_in_progress, launch_pending>>
      /\ UNCHANGED <<pending_launch_title_id, external_mutation_in_progress, releasing_title_id>>
  BY DEF ExitProcess, runtimeVars, ownerVars
<1>3. CallsOK' /\ GatesOK'
  BY <1>2, StillKeepsControl, Zenon
<1>4. WatcherOK' /\ GameOK'
  BY <1>1, <1>2, Zenon DEF ServiceInv, WatcherOK, GameOK
<1>5. OwnersTracked'
  BY <1>1, <1>2, Zenon DEF ServiceInv, OwnersTracked, Tracked, Live
<1>6. WorldOK' /\ StacksOK'
  BY <1>1, <1>2, Zenon DEF ServiceInv, WorldOK, StacksOK
<1>7. LaunchOK'
  <2>1. Open => OpenOK /\ TitleKept(hook.title)
    BY <1>2, GateKeepsTable, Zenon DEF ServiceInv
  <2>2. Open => Settled(hook.title)'
    BY <1>1, <1>2, <2>1, Zenon DEF OpenOK, Settled
  <2>3. HasMounted => hook.title \in titles'
    BY <1>2, Zenon DEF ServiceInv, MountedOK
  <2> QED
    BY <1>2, <2>1, <2>2, <2>3, OthersKeepLaunch, Zenon DEF OpenOK
<1> QED
  BY <1>3, <1>4, <1>5, <1>6, <1>7, Zenon DEF ThreadsInv

(* A step that changes nothing keeps the invariant.                           *)
LEMMA StutterKeeps ==
  ASSUME ServiceInv, UNCHANGED serviceVars
  PROVE  ThreadsInv'
<1>1. /\ UNCHANGED <<titles, images, proc, game, execs, exits, process, alive, hook>>
      /\ UNCHANGED <<prepared, outgoing, prepare_in_progress, launch_pending>>
      /\ UNCHANGED <<pending_launch_title_id, external_mutation_in_progress, releasing_title_id>>
  BY Zenon DEF serviceVars, ownerVars, runtimeVars, watchVars, worldVars
<1>2. CallsOK' /\ GatesOK'
  BY <1>1, StillKeepsControl, Zenon
<1>3. WatcherOK' /\ GameOK' /\ OwnersTracked'
  BY <1>1, WatchFrame, Zenon
<1>4. WorldOK' /\ StacksOK'
  BY <1>1, Zenon DEF ServiceInv, WorldOK, StacksOK
<1>5. LaunchOK'
  <2>1. Open => OpenOK /\ TitleKept(hook.title)
    BY <1>1, GateKeepsTable, Zenon DEF ServiceInv
  <2>2. Open => Settled(hook.title)'
    BY <1>1, <2>1, Zenon DEF OpenOK, Settled
  <2>3. HasMounted => hook.title \in titles'
    BY <1>1, Zenon DEF ServiceInv, MountedOK
  <2> QED
    BY <1>1, <2>1, <2>2, <2>3, OthersKeepLaunch, Zenon DEF OpenOK
<1> QED
  BY <1>2, <1>3, <1>4, <1>5, Zenon DEF ThreadsInv

(* The invariant is inductive.                                                *)
LEMMA ServiceNextKeeps ==
  ASSUME ServiceInv, [ServiceNext]_serviceVars
  PROVE  ServiceInv'
<1>1. ThreadsInv'
  BY MountStepKeeps, ReleaseStepKeeps, ServiceStepKeeps, WatcherStepKeeps, WorkerStepKeeps,
     LaunchRequestKeeps, LaunchAppKeeps, ReplaceProcessKeeps, ExitProcessKeeps,
     HookTimeoutKeeps, StutterKeeps, Zenon DEF ServiceNext, Environment
<1> QED
  BY <1>1, StepKeepsOwners, Zenon DEF ThreadsInv, LaunchOK, ServiceInv

-----------------------------------------------------------------------------
(* The owner of a running game, step by step.                                 *)

(* A step that leaves both slots alone forgets nobody.                        *)
LEMMA SameOwnersKept ==
  ASSUME UNCHANGED <<prepared, outgoing>>
  PROVE  OwnerKeptStep
  BY DEF OwnerKeptStep

(* A claim moves a live owner to the outgoing slot or leaves it.              *)
LEMMA ClaimKeepsOwner ==
  ASSUME OwnersInv, NEW t \in Titles, NEW launch \in BOOLEAN, claim_prepared_title(t, launch)
  PROVE  OwnerKeptStep
<1>1. CASE ClaimFreeSlot(t, launch)
  BY <1>1, NoOwnerFacts, Zenon DEF ClaimFreeSlot, OwnerKeptStep, Live
<1>2. CASE ClaimSwitch(t)
  <2>1. prepared.title_id # t /\ prepared.title_id # NoTitle /\ prepared' = OwnerOf(t)
        /\ outgoing' = prepared
    BY <1>2 DEF ClaimSwitch
  <2>2. outgoing.title_id = NoTitle
    BY <2>1, Zenon DEF claim_prepared_title, CanClaim, CanSwitch
  <2> QED
    BY <2>1, <2>2, Zenon DEF OwnerKeptStep, Live
<1>3. CASE ClaimAgain(t, launch)
  BY <1>3, Zenon DEF ClaimAgain, OwnerKeptStep
<1> QED
  BY <1>1, <1>2, <1>3, Zenon DEF claim_prepared_title

(* Binding a process forgets no other running game.                           *)
LEMMA BindKeepsOwner ==
  ASSUME OwnersInv, NEW t \in Titles, NEW app \in Apps \cup {0}, NEW p \in Pids,
         NEW managed, bind_prepared_app(t, app, p, managed)
  PROVE  OwnerKeptStep
<1>1. prepared \in MountOwner /\ outgoing \in MountOwner /\ p # 0
  BY OwnerConstants DEF OwnersInv, OwnersTypeOK
<1>2. ASSUME NEW o \in MountOwner, Live(o)
      PROVE  Bound(o, app, p).title_id = o.title_id /\ Live(Bound(o, app, p))
  BY <1>1, <1>2, Zenon DEF Bound, Live, MountOwner
<1>3. prepared' \in {prepared, Bound(prepared, app, p)}
      /\ outgoing' \in {outgoing, Bound(outgoing, app, p)}
  BY DEF bind_prepared_app
<1>4. Live(prepared) => prepared'.title_id = prepared.title_id /\ Live(prepared')
  BY <1>1, <1>2, <1>3, Zenon
<1>5. Live(outgoing) => outgoing'.title_id = outgoing.title_id /\ Live(outgoing')
  BY <1>1, <1>2, <1>3, Zenon
<1> QED
  BY <1>4, <1>5, Zenon DEF OwnerKeptStep

(* Of the steps of a mount, only the rollback may forget a running game.      *)
LEMMA MountKeepsOwner ==
  ASSUME ServiceInv, NEW th \in Threads, MountStep(th)
  PROVE  OwnerKeptStep \/ (At(th, "failed") /\ proc'[th] # proc[th])
<1>1. /\ proc \in [Threads -> Calls] /\ OwnersInv
      /\ proc[th].launch \in BOOLEAN /\ CallFits(th, proc[th], releasing_title_id)
  BY ThreadFacts DEF ServiceInv, WorldOK
<1>2. CASE Claim(th)
  <2>1. PICK t : t = Title(th)
    BY Zenon
  <2>2. CASE t \in Managed /\ claim_prepared_title(t, proc[th].launch)
    BY <1>1, <2>2, ClaimKeepsOwner, ServiceConstants, Zenon
  <2>3. CASE UNCHANGED ownerVars
    BY <2>3, SameOwnersKept, Zenon DEF ownerVars
  <2> QED
    BY <1>2, <2>1, <2>2, <2>3, Zenon DEF Claim
<1>3. CASE CheckMounted(th) \/ PrepareImages(th) \/ PrepareTitle(th)
  BY <1>3, SameOwnersKept, Zenon DEF CheckMounted, PrepareImages, PrepareTitle, ownerVars
<1>4. CASE FinishPrepare(th)
  BY <1>4, SameOwnersKept, Zenon DEF FinishPrepare, end_external_mutation, finish_prepared_title
<1>5. CASE FailPrepare(th)
  <2>1. At(th, "failed") /\ proc' = [proc EXCEPT ![th] = AfterMount(th, FALSE)]
    BY <1>5 DEF FailPrepare, EndMount
  <2>2. PICK ok \in BOOLEAN : ok = FALSE
    BY Zenon
  <2>3. PICK d : d = AfterMount(th, ok)
    BY Zenon
  <2>4. ~proc[th].gate \/ th = "worker"
    BY <1>1, Zenon DEF CallFits
  <2>5. d \in Calls /\ LeavesMount(th, d)
    BY <2>3, <2>4, AfterMountFacts, Zenon
  <2>6. proc'[th] = d
    BY <1>1, <2>1, <2>2, <2>3, Zenon
  <2>7. d.pc # "failed"
    BY <2>5, IdleFacts, Zenon DEF LeavesMount
  <2> QED
    BY <2>1, <2>6, <2>7, Zenon DEF At
<1> QED
  BY <1>2, <1>3, <1>4, <1>5, Zenon DEF MountStep

(* A release forgets only the owner of a game that has exited.                *)
LEMMA ReleaseKeepsOwner ==
  ASSUME ServiceInv, NEW th \in Threads, ReleaseStep(th)
  PROVE  OwnerKeptStep
<1>1. CASE ForgetOwner(th)
  <2>1. PICK t : t = Title(th)
    OBVIOUS
  <2>2. clear_owned_title(t) /\ proc[th].pc = "busy"
    BY <1>1, <2>1, Zenon DEF ForgetOwner, At
  <2>3. releasing_title_id = t
    BY <2>1, <2>2, ThreadFacts, Zenon DEF CallFits, ReleasePcs, Title
  <2>4. \A o \in {prepared, outgoing} : o.title_id = t => ~Live(o)
    BY <2>3, Zenon DEF ServiceInv, OwnersInv, ReleaseNeverLive
  <2>5. /\ prepared' = prepared \/ prepared.title_id = t
        /\ outgoing' = outgoing \/ outgoing.title_id = t
    BY <2>2, Zenon DEF clear_owned_title
  <2> QED
    BY <2>4, <2>5, Zenon DEF OwnerKeptStep
<1>2. CASE BeginRelease(th)
  BY <1>2, SameOwnersKept, Zenon DEF BeginRelease, begin_runtime_release, ownerVars
<1>3. CASE FinishRelease(th)
  BY <1>3, SameOwnersKept, Zenon DEF FinishRelease, end_runtime_release
<1>4. CASE UnmountTitleLayers(th) \/ ChooseImages(th) \/ DetachImages(th) \/ RetryRelease(th)
  BY <1>4, SameOwnersKept, Zenon
  DEF UnmountTitleLayers, ChooseImages, DetachImages, RetryRelease, ownerVars
<1> QED
  BY <1>1, <1>2, <1>3, <1>4, Zenon DEF ReleaseStep

(* Noting the exit of a dead process forgets no running game.                 *)
LEMMA NotedExitKeepsOwner ==
  ASSUME ServiceInv, NEW p \in Pids, p \notin alive, note_game_exit(p)
  PROVE  OwnerKeptStep
  BY ExitIsNoted, Zenon DEF OwnerKeptStep

(* The steps of the watcher forget no running game.                           *)
LEMMA WatcherKeepsOwner ==
  ASSUME ServiceInv, WatcherStep
  PROVE  OwnerKeptStep
<1>1. CASE BindGame
  <2>1. PICK t, p : t = proc["watcher"].title /\ p = proc["watcher"].pid
    BY Zenon
  <2>2. proc["watcher"].pc = "bind"
    BY <1>1, Zenon DEF BindGame, At
  <2>3. t \in Titles /\ p \in Pids /\ OwnersInv
    BY <2>1, <2>2, ThreadFacts, Zenon
    DEF Threads, CallFits, UntitledPcs, ServiceInv, WatcherOK, BindPcs, WorldOK
  <2>4. CASE \E app \in AppInfo : bind_prepared_app(t, app, p, t \in Managed)
    BY <2>3, <2>4, BindKeepsOwner, ServiceConstants, Zenon
  <2>5. CASE UNCHANGED ownerVars
    BY <2>5, SameOwnersKept, Zenon DEF ownerVars
  <2> QED
    BY <1>1, <2>1, <2>4, <2>5, Zenon DEF BindGame, Title
<1>2. CASE FinalizeExit
  <2>1. game.pid \in Pids /\ game.pid \notin alive /\ note_game_exit(game.pid)
    BY <1>2, Zenon DEF FinalizeExit, ServiceInv, GameOK
  <2> QED
    BY <2>1, NotedExitKeepsOwner, Zenon
<1>3. ASSUME NEW p \in Pids, HandleExit(p)
      PROVE  OwnerKeptStep
  <2>1. p \notin alive
    BY <1>3, Zenon DEF HandleExit, ServiceInv, WorldOK
  <2>2. CASE UNCHANGED ownerVars
    BY <2>2, SameOwnersKept DEF ownerVars
  <2>3. CASE note_game_exit(p)
    BY <2>1, <2>3, NotedExitKeepsOwner, Zenon
  <2> QED
    BY <1>3, <2>2, <2>3, Zenon DEF HandleExit
<1>4. ASSUME NEW p \in Pids, DispatchLaunch(p) \/ DropLaunch(p)
      PROVE  OwnerKeptStep
  BY <1>4, SameOwnersKept, Zenon DEF DispatchLaunch, DropLaunch, ownerVars
<1>5. CASE DeferLaunch \/ ReleaseExited
  BY <1>5, SameOwnersKept, Zenon DEF DeferLaunch, ReleaseExited, ownerVars
<1> QED
  BY <1>1, <1>2, <1>3, <1>4, <1>5, Zenon DEF WatcherStep

(* Nor do those of the service, the worker and SceShellCore.                  *)
LEMMA OthersKeepOwner ==
  ASSUME ServiceStep \/ WorkerStep \/ Environment
  PROVE  OwnerKeptStep
<1>1. CASE ServiceStep
  BY <1>1, SameOwnersKept, Zenon
  DEF ServiceStep, cleanup_abandoned_launch, RejectLaunch, Reply, LaunchFailedRequest,
      GuardedRelease, BeginReset, ResetTitleMount, reject_pending_launch, fail_pending_launch,
      begin_runtime_release, ownerVars
<1>2. CASE WorkerStep
  BY <1>2, SameOwnersKept, Zenon
  DEF WorkerStep, MountRequest, EnterMount, CheckInactive, UnmountRequest, ScanRequest,
      EnterScan, BeginSweep, SweepTitles, SweepImages, EndScan, begin_external_mutation,
      end_external_mutation, ownerVars
<1>3. CASE Environment
  BY <1>3, SameOwnersKept, Zenon
  DEF Environment, LaunchRequest, LaunchApp, ReplaceProcess, ExitProcess, HookTimeout,
      set_pending_launch, ownerVars
<1> QED
  BY <1>1, <1>2, <1>3, Zenon

-----------------------------------------------------------------------------
(* The theorems.                                                              *)

(* All threads idle, nothing mounted, nothing owned.                          *)
LEMMA ServiceInitHolds ==
  ASSUME ServiceInit
  PROVE  ServiceInv
<1>1. OwnersInv
  BY OwnersInitHolds, Zenon DEF ServiceInit
<1>2. \A th \in Threads : proc[th] = Idle
  BY Zenon DEF ServiceInit
<1>3. /\ NoGame \in Games /\ NoGame.leaving = FALSE /\ HookIdle \in Hooks
      /\ HookIdle.phase = "idle" /\ "service" \in Threads /\ "watcher" \in Threads
      /\ "worker" \in Threads
  BY Zenon DEF NoGame, Games, HookIdle, Hooks, Threads
<1>4. WorldOK
  BY <1>3, IdleFacts, Zenon DEF ServiceInit, WorldOK
<1>5. CallsOK
  BY <1>2, IdleFacts, Zenon DEF CallsOK, CallFits, UntitledPcs, MountPcs, ReleasePcs
<1>6. GatesOK
  BY <1>2, <1>3, IdleFacts, Zenon DEF ServiceInit, OwnersInit, GatesOK, ReleasePcs
<1>7. WatcherOK /\ GameOK
  BY <1>2, <1>3, IdleFacts, Zenon DEF ServiceInit, WatcherOK, GameOK, BindPcs, MountPcs
<1>8. OwnersTracked /\ StacksOK
  BY NoOwnerFacts, Zenon DEF ServiceInit, OwnersInit, OwnersTracked, Tracked, Live, StacksOK
<1>9. hook.phase = "idle"
  BY <1>3, Zenon DEF ServiceInit
<1>10. HookOK /\ ~Open
  BY <1>9 DEF HookOK, Open, OpenCall
<1> QED
  BY <1>1, <1>4, <1>5, <1>6, <1>7, <1>8, <1>10, Zenon
  DEF ServiceInv, OpenOK, PreparingOK, ClaimedOK, MountedOK, Preparing, HasClaimed, HasMounted

(* The inductive invariant: whatever the threads, the hook and the processes  *)
(* do, calls fit their threads, gates have holders, live owners have watched  *)
(* processes, mounted stacks have their images, and an open launch keeps its  *)
(* title.                                                                     *)
THEOREM ServiceInvariance == ServiceSpec => []ServiceInv
<1>1. ServiceInit => ServiceInv
  BY ServiceInitHolds, Zenon
<1>2. ServiceInv /\ [ServiceNext]_serviceVars => ServiceInv'
  BY ServiceNextKeeps
<1> QED
  BY <1>1, <1>2, PTL DEF ServiceSpec

(* The threads use the ownership table as ShellcoreOwners describes it: every *)
(* step of every thread is one critical section of its protocol, or leaves    *)
(* the table alone.                                                           *)
THEOREM ServiceImplementsOwners == ServiceSpec => ImplementsOwners
<1>1. ServiceInit => OwnersInit
  BY DEF ServiceInit
<1>2. ServiceInv /\ [ServiceNext]_serviceVars => [OwnersNext]_ownerVars
  BY StepIsOwners
<1> QED
  BY <1>1, <1>2, ServiceInvariance, PTL DEF ServiceSpec, ImplementsOwners, OwnersSpec

(* Every gate of the table that is up is held by a thread inside the mount,   *)
(* the release or the job that lowers it: no path of any thread returns with  *)
(* a gate up.                                                                 *)
THEOREM GatesAreAlwaysHeld == ServiceSpec => []GatesAreHeld
<1>1. ServiceInv => GatesAreHeld
  BY Zenon DEF ServiceInv, GatesOK, GatesAreHeld, Prepares, Releases, MountPcs, ReleasePcs, Title
<1> QED
  BY <1>1, ServiceInvariance, PTL

(* A launch that was answered 0 finds the title's stack and all images of its *)
(* chain mounted, whatever the watcher, a scan or an API request do between   *)
(* the answer and launchApp.                                                  *)
THEOREM GrantedLaunchesFindRuntime == ServiceSpec => []LaunchFindsRuntime
<1>1. ServiceInv => LaunchFindsRuntime
  <2> SUFFICES ASSUME ServiceInv, hook.phase = "app", hook.granted, hook.fresh,
                      hook.title \in Managed
               PROVE  hook.title \in titles /\ chain[hook.title] \subseteq images
    BY Zenon DEF LaunchFindsRuntime, Runnable
  <2>1. HasMounted
    BY Zenon DEF HasMounted, Open, OpenCall
  <2>2. hook.title \in titles
    BY <2>1, Zenon DEF ServiceInv, MountedOK
  <2> QED
    BY <2>2, Zenon DEF ServiceInv, StacksOK
<1> QED
  BY <1>1, ServiceInvariance, PTL

(* No release, abandoned launch, game switch, exit of another process or API  *)
(* unmount forgets the owner of a running game; only the rollback of a failed *)
(* preparation may.                                                           *)
THEOREM RunningGamesKeepOwners == ServiceSpec => OnlyRollbackDropsOwner
<1>1. ServiceInv /\ [ServiceNext]_serviceVars =>
        [OwnerKeptStep \/ \E th \in Threads : At(th, "failed") /\ proc'[th] # proc[th]]_serviceVars
  BY MountKeepsOwner, ReleaseKeepsOwner, WatcherKeepsOwner, OthersKeepOwner, Zenon DEF ServiceNext
<1> QED
  BY <1>1, ServiceInvariance, PTL DEF ServiceSpec, OnlyRollbackDropsOwner
=============================================================================
