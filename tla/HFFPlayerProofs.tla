--------------------------- MODULE HFFPlayerProofs ----------------------------
(* Proofs about HThread, under every interleaving of its owner and its worker,  *)
(* and about HFFPlayer, whose steps are steps of HThread and which inherits its *)
(* invariant.  That doTask finds every pointer set, and that an ended worker    *)
(* left nothing behind, are not inductive by themselves: they depend on how far *)
(* open came.  PlayerInv says what the worker has acquired at each step of it,  *)
(* and that helper and the worker are never both in open.                       *)
EXTENDS HFFPlayer, TLAPS

-------------------------------------------------------------------------------
(* The thread.                                                                   *)

\* Where the worker is inside the loop of run.
InLoop == {"loop", "pausing", "task", "sleep", "sleep_reset"}

\* The status is other than STOP only while the worker is in its loop, and an owner
\* about to set it has seen the status it tested for: nobody else changes it.
StatusInv ==
    /\ status # "STOP" => worker \in InLoop
    /\ owner \in {"stop_changed", "stop_status"} => status # "STOP"
    /\ owner \in {"pause_changed", "pause_status"} => status = "RUNNING"
    /\ owner \in {"resume_changed", "resume_status"} => status = "PAUSE"

\* A worker that is to leave its loop, or left it, has the owner wait in join.
FinishInv ==
    /\ worker \in InLoop /\ status = "STOP" => owner = "join"
    /\ worker \in {"stop_changed", "stop_status", "finish"} => owner = "join"

\* A task counted against a pause was begun before the worker saw the pause.
TaskInv == paused /\ worker = "task" => pausedTasks = 0

\* An old base_tp is covered by status_changed, except while a pause lasts.
BaseInv ==
    /\ oldBase /\ worker \in (InLoop \ {"pausing"}) \cup {"running_status"} => status_changed
    /\ oldBase /\ worker \in InLoop /\ status # "PAUSE" => status_changed
    /\ oldBase /\ worker \in InLoop /\ owner \in {"resume_status", "stop_status"}
         => status_changed

IInv ==
    /\ TypeOK
    /\ StatusInv
    /\ FinishInv
    /\ PauseSticks
    /\ PauseIsPrompt
    /\ TaskInv
    /\ BaseInv

\* The invariant holds initially.
LEMMA InitInv == Init => IInv
  <1> SUFFICES ASSUME Init PROVE IInv
    OBVIOUS
  <1>1. TypeOK
    <2>1. status \in Status /\ owner \in Owner /\ worker \in Worker
      BY DEF Init, Status, Owner, Worker
    <2>2. pausedTasks \in Nat
      BY DEF Init
    <2>3. status_changed \in BOOLEAN /\ paused \in BOOLEAN /\ oldBase \in BOOLEAN
      BY DEF Init
    <2> QED
      BY <2>1, <2>2, <2>3 DEF TypeOK
  <1>2. StatusInv /\ FinishInv
    BY DEF Init, StatusInv, FinishInv, InLoop
  <1>3. PauseSticks /\ PauseIsPrompt /\ TaskInv /\ BaseInv
    BY DEF Init, PauseSticks, PauseIsPrompt, TaskInv, BaseInv, InLoop
  <1> QED
    BY <1>1, <1>2, <1>3 DEF IInv

\* The calls and steps of the owner keep the invariant.
LEMMA OwnerInv == IInv /\ OwnerNext => IInv'
  <1> SUFFICES ASSUME IInv, OwnerNext PROVE IInv'
    OBVIOUS
  <1> USE DEF IInv, TypeOK, StatusInv, FinishInv, PauseSticks, PauseIsPrompt, TaskInv, BaseInv,
              Status, Owner, Worker, InLoop
  <1>1. CASE CallStart
    BY <1>1 DEF CallStart, OwnerIdle
  <1>2. CASE CallStop \/ CallPause \/ CallResume
    BY <1>2 DEF CallStop, CallPause, CallResume, OwnerIdle
  <1>3. CASE Start
    BY <1>3 DEF Start
  <1>4. CASE StopTest
    BY <1>4 DEF StopTest, Test
  <1>5. CASE PauseTest
    BY <1>5 DEF PauseTest, Test
  <1>6. CASE ResumeTest
    BY <1>6 DEF ResumeTest, Test
  <1>7. CASE OwnerSetsChanged
    BY <1>7 DEF OwnerSetsChanged, SetChanged
  <1>8. CASE StopSets
    BY <1>8 DEF StopSets, SetStatus
  <1>9. CASE PauseSets
    BY <1>9 DEF PauseSets, SetStatus
  <1>10. CASE ResumeSets
    BY <1>10 DEF ResumeSets, SetStatus
  <1>11. CASE Join
    BY <1>11 DEF Join
  <1>12. CASE Construct
    <2>1. /\ status' = "STOP" /\ owner' = "idle" /\ worker' = "none"
          /\ status_changed' = FALSE /\ paused' = FALSE
          /\ pausedTasks' = 0 /\ oldBase' = TRUE
      BY <1>12 DEF Construct
    <2>2. TypeOK'
      BY <2>1
    <2> QED
      BY <2>1, <2>2
  <1>13. CASE SetSleepPolicy
    BY <1>13 DEF SetSleepPolicy, SetChanged
  <1> QED
    BY <1>1, <1>2, <1>3, <1>4, <1>5, <1>6, <1>7, <1>8, <1>9, <1>10, <1>11, <1>12, <1>13
       DEF OwnerNext, OwnerSteps

\* The steps of the worker keep the invariant.
LEMMA WorkerInv == IInv /\ WorkerNext => IInv'
  <1> SUFFICES ASSUME IInv, WorkerNext PROVE IInv'
    OBVIOUS
  <1> USE DEF IInv, TypeOK, StatusInv, FinishInv, PauseSticks, PauseIsPrompt, TaskInv, BaseInv,
              Status, Owner, Worker, InLoop, WorkerAt
  <1>1. CASE Prepare
    <2>1. CASE WorkerAt("prepare", "running_changed") /\ SetChanged
      BY <1>1, <2>1 DEF Prepare, SetChanged
    <2>2. CASE WorkerAt("prepare", "exited") /\ UNCHANGED <<status, status_changed>>
      BY <1>1, <2>2 DEF Prepare
    <2> QED
      BY <1>1, <2>1, <2>2 DEF Prepare
  <1>2. CASE WorkerSetsChanged
    BY <1>2 DEF WorkerSetsChanged, SetChanged
  <1>3. CASE RunningSets
    BY <1>3 DEF RunningSets, SetStatus
  <1>4. CASE StopStatusSets
    BY <1>4 DEF StopStatusSets, SetStatus
  <1>5. CASE Loop
    BY <1>5 DEF Loop
  <1>6. CASE Pausing
    BY <1>6 DEF Pausing
  <1>7. CASE Task
    BY <1>7 DEF Task
  <1>8. CASE SleepTest
    BY <1>8 DEF SleepTest
  <1>9. CASE SleepReset
    BY <1>9 DEF SleepReset
  <1>10. CASE Finish
    BY <1>10 DEF Finish
  <1> QED
    BY <1>1, <1>2, <1>3, <1>4, <1>5, <1>6, <1>7, <1>8, <1>9, <1>10 DEF WorkerNext

\* Every step keeps the invariant.
LEMMA StepInv == IInv /\ [Next]_vars => IInv'
  <1>1. IInv /\ UNCHANGED vars => IInv'
    BY DEF vars, IInv, TypeOK, StatusInv, FinishInv, PauseSticks, PauseIsPrompt, TaskInv, BaseInv
  <1> QED
    BY <1>1, OwnerInv, WorkerInv DEF Next

\* What the invariant says of the properties.
LEMMA InvImplies ==
  IInv => /\ PauseSticks /\ PauseIsPrompt
          /\ NoCatchUp /\ StopLeavesStopped /\ FinishUnshared
  BY DEF IInv, TypeOK, StatusInv, FinishInv, BaseInv, InLoop,
         NoCatchUp, StopLeavesStopped, FinishUnshared

\* The invariant holds in every reachable state.
THEOREM Invariance == Spec => []IInv
  BY InitInv, StepInv, PTL DEF Spec

\* A pause that took effect is lifted by resume or stop only, and lets at most one task
\* end before that (HThread::pause, HThread::run).
THEOREM PauseIsKept == Spec => [](PauseSticks /\ PauseIsPrompt)
  BY Invariance, InvImplies, PTL

\* The worker never sleeps on a base_tp from before its start or a pause (HThread::sleep).
THEOREM NoBurstAfterPause == Spec => []NoCatchUp
  BY Invariance, InvImplies, PTL

\* A thread that was joined is in status STOP: the next start creates a thread
\* (HThread::start).
THEOREM RestartWorks == Spec => []StopLeavesStopped
  BY Invariance, InvImplies, PTL

\* While the worker finishes, the owner is in stop's join (HThread::stop).
THEOREM FinishIsAlone == Spec => []FinishUnshared
  BY Invariance, InvImplies, PTL

-------------------------------------------------------------------------------
(* The player is a thread.                                                       *)

\* A step of the player is a step of its thread, or leaves the thread alone.
LEMMA StepIsThreads == [PlayerNext]_playerVars => [Next]_vars
  <1> SUFFICES ASSUME [PlayerNext]_playerVars PROVE [Next]_vars
    OBVIOUS
  <1> USE DEF Next, OwnerNext, OwnerSteps, WorkerNext
  <1>1. CASE UNCHANGED playerVars
    BY <1>1 DEF playerVars
  <1>2. Fails => [Next]_vars
    BY DEF Fails
  <1>3. Opened => [Next]_vars
    BY DEF Opened
  <1>4. Open => [Next]_vars
    BY <1>2, <1>3 DEF Open, AllocContext, AllocContextFails, OpenInput, OpenInputFails,
       FindStream, FindStreamFails, TrySoftwareDecode, OpenCodec, OpenCodecFails,
       ScaleFails, Goes
  <1>5. WorkerSteps \/ ReadMore \/ EndTask \/ Expire => [Next]_vars
    BY DEF WorkerSteps, Run, DoTask, ReadMore, EndTask, QuitTask, DoFinish, Expire
  <1>6. Interrupt => [Next]_vars
    BY <1>4, <1>5 DEF Interrupt, Open
  <1>7. UI => [Next]_vars
    BY DEF UI, New, PlayerStart, PauseOrResume, PlayerStop, Seek, UISteps, StartThread,
       Continue, Joined
  <1> QED
    BY <1>1, <1>4, <1>5, <1>6, <1>7 DEF PlayerNext

\* What the player does with its thread, HThread allows.
THEOREM PlayerIsThread == PlayerSpec => Init /\ [][Next]_vars
  <1>1. PlayerInit => Init
    BY DEF PlayerInit
  <1> QED
    BY <1>1, StepIsThreads, PTL DEF PlayerSpec

\* All that is invariant in HThread is invariant in the player.
THEOREM ThreadInvariance == PlayerSpec => []IInv
  BY PlayerIsThread, InitInv, StepInv, PTL

-------------------------------------------------------------------------------
(* What the player holds.                                                        *)

\* What open has acquired and still owns when it comes to step s.
Acquired(s) ==
    IF s \in {"input", "info", "codec", "software"} THEN {"fmt_ctx"}
    ELSE IF s = "scale" THEN {"fmt_ctx", "codec_ctx"}
    ELSE {}

\* open runs in helper or in doPrepare, and no worker is there before start.
OneOpener ==
    /\ opener = "nobody" <=> step = "none"
    /\ opener = "helper" <=> ui = "helper"
    /\ opener = "worker" <=> worker = "prepare"
    /\ ui \in {"none", "helper", "start"} => worker = "none" /\ owner = "idle"
    /\ owner = "start" => worker = "none" /\ ui = "idle"

\* The pointers of the worker are those its progress accounts for.
WorkerHolds ==
    /\ worker = "prepare" =>
          \A k \in Pointers : held[k] = "worker" <=> k \in Acquired(step)
    /\ TaskHasAll
    /\ GoneHoldsNothing
    /\ OnlyHelperLeaks

PlayerInv == PlayerTypeOK /\ OneOpener /\ WorkerHolds

\* A new player holds nothing and runs no thread.
LEMMA PlayerInitInv == PlayerInit => PlayerInv
  BY DEF PlayerInit, Init, PlayerInv, PlayerTypeOK, OneOpener, WorkerHolds, TaskHasAll,
         GoneHoldsNothing, OnlyHelperLeaks, Pointers, Who

\* Where the worker is after doPrepare and before the end of doFinish.
Working == {"running_changed", "running_status", "stop_changed", "stop_status", "finish"}
           \cup InLoop

\* Where HThread's steps take the worker.
LEMMA WorkerMoves ==
  /\ Prepare => worker = "prepare" /\ owner' = owner /\ worker' \in {"running_changed", "exited"}
  /\ Task => worker = "task" /\ owner' = owner /\ worker' = "sleep"
  /\ Finish => worker = "finish" /\ owner' = owner /\ worker' = "exited"
  /\ WorkerSetsChanged \/ RunningSets \/ StopStatusSets \/ Loop \/ Pausing \/ SleepTest
        \/ SleepReset
       => owner' = owner /\ worker \in Working \ {"task"} /\ worker' \in Working
  BY DEF Prepare, Task, Finish, WorkerSetsChanged, RunningSets, StopStatusSets, Loop,
         Pausing, SleepTest, SleepReset, WorkerAt, Working, InLoop

\* Where HThread's steps take the owner.
LEMMA OwnerMoves ==
  /\ Construct \/ SetSleepPolicy => owner = "idle" /\ worker = "none" /\ UNCHANGED <<owner, worker>>
  /\ CallStart => owner = "idle" /\ owner' = "start" /\ worker = "none" /\ worker' = worker
  /\ CallStop \/ CallPause \/ CallResume => owner = "idle" /\ owner' # "start" /\ worker' = worker
  /\ Start => owner = "start" /\ owner' = "idle" /\ worker' \in {worker, "prepare"}
  /\ StopTest \/ PauseTest \/ ResumeTest \/ OwnerSetsChanged \/ StopSets \/ PauseSets \/ ResumeSets
       => owner \notin {"idle", "start"} /\ owner' # "start" /\ worker' = worker
  /\ Join => worker \in {"none", "exited"} /\ worker' = "none" /\ owner = "join" /\ owner' = "idle"
  BY DEF Construct, SetSleepPolicy, CallStart, CallStop, CallPause, CallResume, OwnerIdle, Start,
         StopTest, PauseTest, ResumeTest, Test, OwnerSetsChanged, StopSets, PauseSets, ResumeSets,
         Join

\* Set hands out only what its caller makes, and loses only what its caller overwrites.
LEMMA SetLemma ==
  ASSUME PlayerTypeOK, NEW made \in SUBSET Pointers, NEW nulled \in SUBSET Pointers,
         NEW freed \in SUBSET Pointers, Set(made, nulled, freed)
  PROVE  /\ held' \in [Pointers -> Who]
         /\ \A k \in freed \cup nulled : held'[k] = "nobody"
         /\ \A k \in made \ (freed \cup nulled) : held'[k] = opener
         /\ \A k \in Pointers \ (made \cup freed \cup nulled) : held'[k] = held[k]
         /\ lost' \subseteq {"helper", "worker"}
         /\ (\A k \in made \cup nulled : held[k] # "worker") /\ OnlyHelperLeaks
               => OnlyHelperLeaks'
  BY DEF Set, PlayerTypeOK, Who, OnlyHelperLeaks

USE DEF Pointers

Steps == {"alloc", "input", "info", "codec", "software", "scale"}

\* A step of open that goes on keeps PlayerInv if what it makes and frees is the
\* difference of what its two ends account for.
LEMMA GoesLemma ==
  ASSUME PlayerInv, NEW s \in Steps, NEW t \in Steps, step = s, Goes(t),
         NEW made \in SUBSET Pointers, NEW freed \in SUBSET Pointers,
         Set(made, {}, freed), made \cap Acquired(s) = {},
         \A k \in Pointers : k \in Acquired(t) <=> k \in (Acquired(s) \cup made) \ freed,
         block' \in {"off", "on", "expired"}, block' = "off" <=> t # "input"
  PROVE  PlayerInv'
  <1> USE DEF PlayerInv, Steps
  <1>1. UNCHANGED <<opener, quit, owner, worker, ui, crashed>> /\ step' = t
    BY DEF Goes, vars
  <1>2. opener \in {"helper", "worker"}
    BY DEF OneOpener, PlayerTypeOK, Who
  <1>3. worker \in {"none", "prepare"}
    BY <1>2 DEF OneOpener
  <1>4. \A k \in made : held[k] # "worker"
    <2>1. CASE opener = "worker"
      BY <2>1 DEF OneOpener, WorkerHolds
    <2>2. CASE opener = "helper"
      BY <2>2 DEF OneOpener, WorkerHolds, GoneHoldsNothing
    <2> QED
      BY <1>2, <2>1, <2>2
  <1>5. held' \in [Pointers -> Who] /\ lost' \subseteq {"helper", "worker"}
    BY SetLemma
  <1>6. PlayerTypeOK'
    BY <1>1, <1>3, <1>5 DEF PlayerTypeOK
  <1>7. OneOpener'
    BY <1>1, <1>2 DEF OneOpener
  <1>8. OnlyHelperLeaks'
    BY <1>4 DEF WorkerHolds, Set, OnlyHelperLeaks
  <1>9. CASE opener = "worker"
    <2>1. \A k \in Pointers : held'[k] = "worker" <=> k \in Acquired(t)
      BY <1>9 DEF OneOpener, WorkerHolds, Set, PlayerTypeOK
    <2> QED
      BY <1>1, <1>6, <1>7, <1>8, <1>9, <2>1
         DEF OneOpener, WorkerHolds, TaskHasAll, GoneHoldsNothing
  <1>10. CASE opener = "helper"
    <2>1. \A k \in Pointers : held'[k] # "worker"
      BY <1>10 DEF OneOpener, WorkerHolds, GoneHoldsNothing, Set, PlayerTypeOK
    <2> QED
      BY <1>1, <1>6, <1>7, <1>8, <1>10, <2>1
         DEF OneOpener, WorkerHolds, TaskHasAll, GoneHoldsNothing
  <1> QED
    BY <1>2, <1>9, <1>10

\* A step at which open fails keeps PlayerInv if it frees all that open acquired.
LEMMA FailsLemma ==
  ASSUME PlayerInv, NEW s \in Steps, step = s, Fails,
         NEW made \in SUBSET Pointers, NEW nulled \in SUBSET Pointers,
         NEW freed \in SUBSET Pointers, Set(made, nulled, freed),
         (made \cup nulled) \cap Acquired(s) = {},
         Acquired(s) \cup made \subseteq freed \cup nulled,
         block' = "off"
  PROVE  PlayerInv'
  <1> USE DEF PlayerInv, Steps
  <1>1. UNCHANGED <<quit, crashed>> /\ step' = "none" /\ opener' = "nobody"
    BY DEF Fails
  <1>2. opener \in {"helper", "worker"}
    BY DEF OneOpener, PlayerTypeOK, Who
  <1>3. /\ worker' \in {"none", "exited"}
        /\ ui' # "helper" /\ (ui' \in {"none", "start"} => worker' = "none" /\ owner' = "idle")
        /\ ui' \in {"none", "start", "idle", "delete", "restart", "wait"}
        /\ owner' = owner /\ owner # "start"
    <2>1. CASE opener = "helper"
      BY <2>1 DEF Fails, OneOpener, vars
    <2>2. CASE opener = "worker"
      BY <2>2, WorkerMoves DEF Fails, OneOpener, PlayerTypeOK
    <2> QED
      BY <1>2, <2>1, <2>2
  <1>4. \A k \in made \cup nulled : held[k] # "worker"
    <2>1. CASE opener = "worker"
      BY <2>1 DEF OneOpener, WorkerHolds
    <2>2. CASE opener = "helper"
      BY <2>2 DEF OneOpener, WorkerHolds, GoneHoldsNothing
    <2> QED
      BY <1>2, <2>1, <2>2
  <1>5. held' \in [Pointers -> Who] /\ lost' \subseteq {"helper", "worker"}
    BY SetLemma
  <1>6. PlayerTypeOK'
    BY <1>1, <1>3, <1>5 DEF PlayerTypeOK, Who
  <1>7. OneOpener'
    BY <1>1, <1>3 DEF OneOpener
  <1>8. OnlyHelperLeaks'
    BY <1>4, SetLemma DEF WorkerHolds
  <1>9. \A k \in Pointers : held'[k] # "worker"
    <2>1. CASE opener = "worker"
      BY <2>1 DEF OneOpener, WorkerHolds, Set, PlayerTypeOK
    <2>2. CASE opener = "helper"
      BY <2>2 DEF OneOpener, WorkerHolds, GoneHoldsNothing, Set, PlayerTypeOK
    <2> QED
      BY <1>2, <2>1, <2>2
  <1> QED
    BY <1>3, <1>6, <1>7, <1>8, <1>9 DEF WorkerHolds, TaskHasAll, GoneHoldsNothing

\* Every step of open keeps PlayerInv, whoever takes it.
LEMMA OpenInv == ASSUME PlayerInv, Open PROVE PlayerInv'
  <1> USE DEF In, Keep, Steps, Acquired
  <1>0. block # "off" => step = "input" \/ worker = "task"
    BY DEF PlayerInv, PlayerTypeOK
  <1>1. step # "none" => worker # "task"
    BY DEF PlayerInv, OneOpener, PlayerTypeOK, Who
  <1>2. block \in {"off", "on", "expired"}
    BY DEF PlayerInv, PlayerTypeOK
  <1>3. CASE AllocContext
    BY <1>3, GoesLemma DEF AllocContext
  <1>4. CASE AllocContextFails
    BY <1>0, <1>1, <1>4, FailsLemma DEF AllocContextFails
  <1>5. CASE OpenInput
    BY <1>5, GoesLemma DEF OpenInput
  <1>6. CASE OpenInputFails
    BY <1>6, FailsLemma DEF OpenInputFails
  <1>7. CASE FindStream
    BY <1>0, <1>1, <1>2, <1>7, GoesLemma DEF FindStream
  <1>8. CASE FindStreamFails
    BY <1>0, <1>1, <1>8, FailsLemma DEF FindStreamFails
  <1>9. CASE TrySoftwareDecode
    BY <1>0, <1>1, <1>2, <1>9, GoesLemma DEF TrySoftwareDecode
  <1>10. CASE OpenCodec
    BY <1>0, <1>1, <1>2, <1>10, GoesLemma DEF OpenCodec
  <1>11. CASE OpenCodecFails
    BY <1>0, <1>1, <1>11, FailsLemma DEF OpenCodecFails
  <1>12. CASE ScaleFails
    <2>1. PICK nulled \in {{}, {"sws_ctx"}} : Set({}, nulled, {"codec_ctx", "fmt_ctx"})
      BY <1>12 DEF ScaleFails
    <2> QED
      BY <1>0, <1>1, <1>12, <2>1, FailsLemma DEF ScaleFails
  <1>13. CASE Opened
    <2> USE DEF PlayerInv
    <2>1. Set({"sws_ctx", "packet", "frame"}, {}, {}) /\ step = "scale"
      BY <1>13 DEF Opened
    <2>2. PlayerTypeOK
      OBVIOUS
    <2>3. /\ UNCHANGED <<block, quit>> /\ step' = "none" /\ opener' = "nobody"
          /\ crashed' \in BOOLEAN
      BY <1>13 DEF Opened
    <2>4. held' \in [Pointers -> Who] /\ lost' \subseteq {"helper", "worker"}
      BY <2>1, SetLemma
    <2>5. block = "off"
      BY <1>0, <1>1, <2>1
    <2>6. CASE opener = "worker"
      <3>1. worker' = "running_changed" /\ UNCHANGED <<owner, ui>> /\ worker = "prepare"
        BY <1>13, <2>6, WorkerMoves DEF Opened
      <3>2. \A k \in Pointers : held'[k] = "worker"
        BY <2>1, <2>6, <3>1 DEF WorkerHolds, Set, PlayerTypeOK
      <3>3. OnlyHelperLeaks'
        BY <2>1, <3>1, SetLemma DEF WorkerHolds
      <3>4. PlayerTypeOK'
        BY <2>3, <2>4, <2>5, <3>1 DEF PlayerTypeOK, Who
      <3>5. OneOpener'
        BY <2>3, <2>6, <3>1 DEF OneOpener
      <3> QED
        BY <3>1, <3>2, <3>3, <3>4, <3>5 DEF WorkerHolds, TaskHasAll, GoneHoldsNothing
    <2>7. CASE opener = "helper"
      <3>1. worker = "none" /\ worker' = "none" /\ ui' = "start" /\ owner = "idle" /\ owner' = "idle"
        BY <1>13, <2>7, OwnerMoves DEF Opened
      <3>2. \A k \in Pointers : held[k] # "worker"
        BY <3>1 DEF WorkerHolds, GoneHoldsNothing
      <3>3. \A k \in Pointers : held'[k] # "worker"
        BY <2>1, <2>7, <3>2, SetLemma
      <3>4. OnlyHelperLeaks'
        BY <2>1, <3>2 DEF WorkerHolds, Set, OnlyHelperLeaks
      <3>5. PlayerTypeOK'
        BY <2>3, <2>4, <2>5, <3>1 DEF PlayerTypeOK, Who
      <3>6. OneOpener'
        BY <2>3, <3>1 DEF OneOpener
      <3> QED
        BY <3>1, <3>3, <3>4, <3>5, <3>6 DEF WorkerHolds, TaskHasAll, GoneHoldsNothing
    <2> QED
      BY <2>1, <2>6, <2>7 DEF OneOpener, PlayerTypeOK, Who
  <1> QED
    BY <1>3, <1>4, <1>5, <1>6, <1>7, <1>8, <1>9, <1>10, <1>11, <1>12, <1>13 DEF Open

\* A step outside open that leaves the pointers alone keeps PlayerInv if it leaves the
\* worker on its side of doPrepare and of the end.
LEMMA QuietLemma ==
  ASSUME PlayerInv, PlayerTypeOK', OneOpener', UNCHANGED <<held, lost>>,
         \/ worker' = worker /\ UNCHANGED step
         \/ worker \in Working /\ worker' \in Working
         \/ worker \in {"none", "exited"} /\ worker' \in {"none", "exited"}
         \/ worker = "none" /\ worker' = "prepare" /\ step' = "alloc"
  PROVE  PlayerInv'
  BY DEF PlayerInv, WorkerHolds, TaskHasAll, GoneHoldsNothing, OnlyHelperLeaks, Working,
         InLoop, Acquired, PlayerTypeOK, Who

\* A step of the worker, or of the clock, outside open keeps PlayerInv.
LEMMA WorkerStepsInv ==
  ASSUME PlayerInv, WorkerSteps \/ ReadMore \/ EndTask \/ Expire
  PROVE  PlayerInv'
  <1> USE DEF PlayerInv
  <1>1. CASE Run
    <2>1. owner' = owner /\ worker \in Working \ {"task"} /\ worker' \in Working
      BY <1>1, WorkerMoves DEF Run
    <2>2. UNCHANGED <<held, lost, opener, step, block, quit, ui, crashed>>
      BY <1>1 DEF Run, media
    <2>3. PlayerTypeOK'
      BY <2>1, <2>2 DEF PlayerTypeOK
    <2>4. OneOpener'
      BY <2>1, <2>2 DEF OneOpener, Working, InLoop
    <2> QED
      BY <2>1, <2>2, <2>3, <2>4, QuietLemma
  <1>2. CASE DoTask \/ ReadMore \/ Expire
    <2>1. UNCHANGED <<held, lost, opener, step, quit, ui, crashed, worker, owner>>
      BY <1>2 DEF DoTask, ReadMore, Expire, vars
    <2>2. PlayerTypeOK'
      BY <1>2, <2>1 DEF DoTask, ReadMore, Expire, Reading, PlayerTypeOK, OneOpener, Who
    <2>3. OneOpener'
      BY <2>1 DEF OneOpener
    <2> QED
      BY <2>1, <2>2, <2>3, QuietLemma
  <1>3. CASE EndTask \/ QuitTask
    <2>1. owner' = owner /\ worker = "task" /\ worker' = "sleep"
      BY <1>3, WorkerMoves DEF EndTask, QuitTask
    <2>2. UNCHANGED <<held, lost, opener, step, quit, ui, crashed>> /\ block' = "off"
      BY <1>3, <2>1 DEF EndTask, QuitTask, Reading, media
    <2>3. step # "input"
      BY <2>1 DEF OneOpener, PlayerTypeOK, Who
    <2>4. PlayerTypeOK'
      BY <2>1, <2>2, <2>3 DEF PlayerTypeOK
    <2>5. OneOpener'
      BY <2>1, <2>2 DEF OneOpener
    <2> QED
      BY <2>1, <2>2, <2>4, <2>5, QuietLemma DEF Working, InLoop
  <1>4. CASE DoFinish
    <2>1. owner' = owner /\ worker = "finish" /\ worker' = "exited"
      BY <1>4, WorkerMoves DEF DoFinish
    <2>2. UNCHANGED <<opener, step, block, quit, ui, crashed>> /\ Set({}, {}, Pointers)
      BY <1>4 DEF DoFinish, Close
    <2>3. held' \in [Pointers -> Who] /\ lost' = lost /\ \A k \in Pointers : held'[k] = "nobody"
      BY <2>2 DEF Set, Who
    <2>4. PlayerTypeOK'
      BY <2>1, <2>2, <2>3 DEF PlayerTypeOK
    <2>5. OneOpener'
      BY <2>1, <2>2 DEF OneOpener
    <2> QED
      BY <2>1, <2>3, <2>4, <2>5 DEF WorkerHolds, TaskHasAll, GoneHoldsNothing, OnlyHelperLeaks
  <1> QED
    BY <1>1, <1>2, <1>3, <1>4 DEF WorkerSteps

\* A step of the UI thread outside open keeps PlayerInv.
LEMMA UIInv == ASSUME PlayerInv, UI PROVE PlayerInv'
  <1> USE DEF PlayerInv
  <1>1. CASE New
    <2>1. owner' = "idle" /\ worker = "none" /\ worker' = "none" /\ ui = "none"
      BY <1>1, OwnerMoves DEF New
    <2>2. /\ UNCHANGED <<held, lost, block, crashed>> /\ quit' = FALSE
          /\ opener' = "helper" /\ step' = "alloc" /\ ui' = "helper"
      BY <1>1 DEF New, Begins
    <2>3. step # "input"
      BY <2>1 DEF OneOpener, PlayerTypeOK, Who
    <2>4. PlayerTypeOK'
      BY <2>1, <2>2, <2>3 DEF PlayerTypeOK, Who
    <2>5. OneOpener'
      BY <2>1, <2>2 DEF OneOpener
    <2> QED
      BY <2>1, <2>2, <2>4, <2>5, QuietLemma
  <1>2. CASE PlayerStart
    <2>1. owner = "idle" /\ owner' = "start" /\ worker = "none" /\ worker' = worker
      BY <1>2, OwnerMoves DEF PlayerStart
    <2>2. /\ UNCHANGED <<held, lost, opener, step, block, crashed>>
          /\ ui = "start" /\ ui' = "idle" /\ quit' = FALSE
      BY <1>2 DEF PlayerStart
    <2>3. PlayerTypeOK'
      BY <2>1, <2>2 DEF PlayerTypeOK
    <2>4. OneOpener'
      BY <2>1, <2>2 DEF OneOpener
    <2> QED
      BY <2>1, <2>2, <2>3, <2>4, QuietLemma
  <1>3. CASE StartThread
    <2>1. owner = "start" /\ owner' = "idle" /\ worker' \in {worker, "prepare"}
      BY <1>3, OwnerMoves DEF StartThread
    <2>2. /\ UNCHANGED <<held, lost, block, quit, ui, crashed>>
          /\ IF worker' = "prepare" THEN opener' = "worker" /\ step' = "alloc"
                                    ELSE UNCHANGED <<opener, step>>
      BY <1>3 DEF StartThread, Begins
    <2>3. worker = "none" /\ ui = "idle"
      BY <2>1 DEF OneOpener
    <2>4. step # "input"
      BY <2>3 DEF OneOpener, PlayerTypeOK, Who
    <2>5. PlayerTypeOK'
      BY <2>1, <2>2, <2>3, <2>4 DEF PlayerTypeOK, Who
    <2>6. OneOpener'
      BY <2>1, <2>2, <2>3 DEF OneOpener
    <2> QED
      BY <2>1, <2>2, <2>3, <2>5, <2>6, QuietLemma
  <1>4. CASE PauseOrResume \/ PlayerStop
    <2>1. owner = "idle" /\ owner' # "start" /\ worker' = worker
      BY <1>4, OwnerMoves DEF PauseOrResume, PlayerStop
    <2>2. /\ UNCHANGED <<held, lost, opener, step, block, crashed>>
          /\ ui = "idle" /\ ui' \in {"idle", "delete", "restart", "wait"} /\ quit' \in BOOLEAN
      BY <1>4 DEF PauseOrResume, PlayerStop, media, PlayerTypeOK
    <2>3. PlayerTypeOK'
      BY <2>1, <2>2 DEF PlayerTypeOK
    <2>4. OneOpener'
      BY <2>1, <2>2 DEF OneOpener
    <2> QED
      BY <2>1, <2>2, <2>3, <2>4, QuietLemma
  <1>5. CASE Continue
    <2>1. owner \notin {"idle", "start"} /\ owner' # "start" /\ worker' = worker
      BY <1>5, OwnerMoves DEF Continue
    <2>2. UNCHANGED <<held, lost, opener, step, block, quit, ui, crashed>>
      BY <1>5 DEF Continue, media
    <2>3. PlayerTypeOK'
      BY <2>1, <2>2 DEF PlayerTypeOK
    <2>4. OneOpener'
      BY <2>1, <2>2 DEF OneOpener
    <2> QED
      BY <2>1, <2>2, <2>3, <2>4, QuietLemma
  <1>6. CASE Joined
    <2>1. worker \in {"none", "exited"} /\ worker' = "none" /\ owner = "join" /\ owner' = "idle"
      BY <1>6, OwnerMoves DEF Joined
    <2>2. /\ UNCHANGED <<opener, step, block, quit, crashed>>
          /\ ui \in {"delete", "restart", "wait"} /\ ui' \in {"none", "start", "idle"}
          /\ Set({}, {}, Pointers) \/ Set({}, {}, {})
      BY <1>6 DEF Joined, Close, Keep
    <2>3. \A k \in Pointers : held[k] # "worker"
      BY <2>1 DEF WorkerHolds, GoneHoldsNothing
    <2>4. /\ held' \in [Pointers -> Who]
          /\ lost' = lost
          /\ \A k \in Pointers : held'[k] # "worker"
      BY <2>2, <2>3 DEF Set, PlayerTypeOK, Who
    <2>5. PlayerTypeOK'
      BY <2>1, <2>2, <2>4 DEF PlayerTypeOK
    <2>6. OneOpener'
      BY <2>1, <2>2 DEF OneOpener
    <2> QED
      BY <2>1, <2>4, <2>5, <2>6 DEF WorkerHolds, TaskHasAll, GoneHoldsNothing, OnlyHelperLeaks
  <1>7. CASE Seek
    <2>1. UNCHANGED <<held, lost, opener, step, block, quit, ui, worker, owner>>
          /\ crashed' \in BOOLEAN
      BY <1>7 DEF Seek, vars, media
    <2>2. PlayerTypeOK'
      BY <2>1 DEF PlayerTypeOK
    <2>3. OneOpener'
      BY <2>1 DEF OneOpener
    <2> QED
      BY <2>1, <2>2, <2>3, QuietLemma
  <1> QED
    BY <1>1, <1>2, <1>3, <1>4, <1>5, <1>6, <1>7 DEF UI, UISteps

\* Every step keeps the invariant.
LEMMA PlayerStepInv == PlayerInv /\ [PlayerNext]_playerVars => PlayerInv'
  <1> SUFFICES ASSUME PlayerInv, [PlayerNext]_playerVars PROVE PlayerInv'
    OBVIOUS
  <1>1. CASE UNCHANGED playerVars
    BY <1>1 DEF playerVars, vars, media, PlayerInv, PlayerTypeOK, OneOpener, WorkerHolds,
                TaskHasAll, GoneHoldsNothing, OnlyHelperLeaks
  <1>2. CASE PlayerNext
    <2>1. Open \/ WorkerSteps \/ ReadMore \/ EndTask \/ Expire \/ UI
      BY <1>2 DEF PlayerNext, Interrupt, Open
    <2> QED
      BY <2>1, OpenInv, WorkerStepsInv, UIInv
  <1> QED
    BY <1>1, <1>2

\* The invariant holds in every reachable state.
LEMMA PlayerInvariance == PlayerSpec => []PlayerInv
  BY PlayerInitInv, PlayerStepInv, PTL DEF PlayerSpec

\* Types; FFmpeg may be interrupted only in the two calls that block.
THEOREM PlayerTypeCorrect == PlayerSpec => []PlayerTypeOK
  <1>1. PlayerInv => PlayerTypeOK
    BY DEF PlayerInv
  <1> QED
    BY <1>1, PlayerInvariance, PTL

\* doTask never meets a pointer that is NULL or that helper left behind.
THEOREM TaskIsEquipped == PlayerSpec => []TaskHasAll
  <1>1. PlayerInv => TaskHasAll
    BY DEF PlayerInv, WorkerHolds
  <1> QED
    BY <1>1, PlayerInvariance, PTL

\* On whichever path a worker ends, it has released all that it acquired.
THEOREM WorkerReleasesAll == PlayerSpec => []GoneHoldsNothing
  <1>1. PlayerInv => GoneHoldsNothing
    BY DEF PlayerInv, WorkerHolds
  <1> QED
    BY <1>1, PlayerInvariance, PTL

\* No path of the worker's open overwrites a pointer to an object of its own.
THEOREM WorkerLosesNothing == PlayerSpec => []OnlyHelperLeaks
  <1>1. PlayerInv => OnlyHelperLeaks
    BY DEF PlayerInv, WorkerHolds
  <1> QED
    BY <1>1, PlayerInvariance, PTL

\* In the player, too: pauses stick and are prompt, no frames come in a burst, a stopped
\* player can be started, and doFinish frees a context that seek is not using.
THEOREM PlayerKeepsThread ==
  PlayerSpec => [](/\ PauseSticks /\ PauseIsPrompt /\ NoCatchUp
                   /\ StopLeavesStopped /\ FinishUnshared)
  BY ThreadInvariance, InvImplies, PTL
===============================================================================
