------------------------------- MODULE HThread --------------------------------
(* The thread object that HFFPlayer and HAudio inherit, at the grain of its    *)
(* atomic accesses: the owner (the UI thread) calls start, stop, pause and     *)
(* resume, and the worker runs doPrepare, the loop of run, and doFinish.  Both *)
(* write status, and setStatus writes status_changed first.  The sleep policy  *)
(* is SLEEP_UNTIL, the one that HFFPlayer::open sets.                          *)
(*                                                                             *)
(* doPrepare, doTask and doFinish are one step here and are taken to end;      *)
(* HFFPlayer says what they do.  The owner starts a thread only when it has    *)
(* none that was not joined, as HVideoWidget does.                             *)
EXTENDS Integers

VARIABLES
    status,         \* HThread::status
    status_changed, \* HThread::status_changed
    owner,          \* where the owner is
    worker,         \* where the worker is; "none" when there is no thread to join
    paused,         \* history: a pause took effect and was not yet lifted
    pausedTasks,    \* history: tasks ended since that pause took effect
    oldBase         \* history: base_tp was set before the start, or before a pause
                    \* that the worker sat out

vars == <<status, status_changed, owner, worker, paused, pausedTasks, oldBase>>

Status == {"STOP", "RUNNING", "PAUSE"}

Owner == {"idle", "start",
          "stop", "stop_changed", "stop_status", "join",
          "pause", "pause_changed", "pause_status",
          "resume", "resume_changed", "resume_status"}

Worker == {"none", "prepare", "running_changed", "running_status",
           "loop", "pausing", "task", "sleep", "sleep_reset",
           "stop_changed", "stop_status", "finish", "exited"}

Init ==
    /\ status = "STOP"
    /\ status_changed = FALSE
    /\ owner = "idle"
    /\ worker = "none"
    /\ paused = FALSE
    /\ pausedTasks = 0
    /\ oldBase = TRUE

-------------------------------------------------------------------------------
(* setStatus is two atomic writes, status_changed first.                       *)

SetChanged == status_changed' = TRUE /\ UNCHANGED status
SetStatus(stat) == status' = stat /\ UNCHANGED status_changed

-------------------------------------------------------------------------------
(* The owner                                                                   *)

\* The owner's next call.
OwnerIdle(call) ==
    /\ owner = "idle"
    /\ owner' = call
    /\ UNCHANGED <<status, status_changed, worker, paused, pausedTasks, oldBase>>

CallStart ==
    /\ worker = "none"
    /\ OwnerIdle("start")

CallStop == OwnerIdle("stop")

CallPause == OwnerIdle("pause")

CallResume == OwnerIdle("resume")

\* The object is destroyed, and another one constructed.
Construct ==
    /\ owner = "idle"
    /\ worker = "none"
    /\ status' = "STOP"
    /\ status_changed' = FALSE
    /\ paused' = FALSE
    /\ pausedTasks' = 0
    /\ oldBase' = TRUE
    /\ UNCHANGED <<owner, worker>>

\* setSleepPolicy, called by the owner before start.
SetSleepPolicy ==
    /\ owner = "idle"
    /\ worker = "none"
    /\ SetChanged
    /\ UNCHANGED <<owner, worker, paused, pausedTasks, oldBase>>

\* start: a new std::thread, if the thread is stopped.
Start ==
    /\ owner = "start"
    /\ owner' = "idle"
    /\ IF status = "STOP"
         THEN worker' = "prepare" /\ oldBase' = TRUE
         ELSE UNCHANGED <<worker, oldBase>>
    /\ UNCHANGED <<status, status_changed, paused, pausedTasks>>

\* stop, pause and resume test the status, then set it.
Test(call, holds, next, otherwise) ==
    /\ owner = call
    /\ owner' = IF holds THEN next ELSE otherwise
    /\ UNCHANGED <<status, status_changed, worker, paused, pausedTasks, oldBase>>

StopTest == Test("stop", status # "STOP", "stop_changed", "join")
\* (mutant) pause sets the status of a stopped thread too.
PauseTest_Always == Test("pause", TRUE, "pause_changed", "idle")
PauseTest == Test("pause", status = "RUNNING", "pause_changed", "idle")
ResumeTest == Test("resume", status = "PAUSE", "resume_changed", "idle")

\* (mutant) resume does not raise status_changed.
OwnerSetsChanged_NotOnResume ==
    /\ \/ owner = "stop_changed" /\ owner' = "stop_status" /\ SetChanged
       \/ owner = "pause_changed" /\ owner' = "pause_status" /\ SetChanged
       \/ /\ owner = "resume_changed" /\ owner' = "resume_status"
          /\ UNCHANGED <<status, status_changed>>
    /\ UNCHANGED <<worker, paused, pausedTasks, oldBase>>

OwnerSetsChanged ==
    /\ \/ owner = "stop_changed" /\ owner' = "stop_status"
       \/ owner = "pause_changed" /\ owner' = "pause_status"
       \/ owner = "resume_changed" /\ owner' = "resume_status"
    /\ SetChanged
    /\ UNCHANGED <<worker, paused, pausedTasks, oldBase>>

StopSets ==
    /\ owner = "stop_status"
    /\ owner' = "join"
    /\ SetStatus("STOP")
    /\ paused' = FALSE
    /\ UNCHANGED <<worker, pausedTasks, oldBase>>

PauseSets ==
    /\ owner = "pause_status"
    /\ owner' = "idle"
    /\ SetStatus("PAUSE")
    /\ paused' = TRUE
    /\ pausedTasks' = 0
    /\ UNCHANGED <<worker, oldBase>>

ResumeSets ==
    /\ owner = "resume_status"
    /\ owner' = "idle"
    /\ SetStatus("RUNNING")
    /\ paused' = FALSE
    /\ UNCHANGED <<worker, pausedTasks, oldBase>>

\* join waits for the worker to exit; it does nothing when there is no thread.
Join ==
    /\ owner = "join"
    /\ worker \in {"none", "exited"}
    /\ owner' = "idle"
    /\ worker' = "none"
    /\ UNCHANGED <<status, status_changed, paused, pausedTasks, oldBase>>

-------------------------------------------------------------------------------
(* The worker                                                                  *)

WorkerAt(from, to) ==
    /\ worker = from
    /\ worker' = to
    /\ UNCHANGED <<owner, paused>>

\* doPrepare sets the sleep policy, or fails, which ends the thread without a change of
\* status.  setSleepPolicy raises status_changed and writes the status it read, which is
\* STOP: nobody changes the status of a thread in doPrepare.
Prepare ==
    /\ \/ WorkerAt("prepare", "running_changed") /\ SetChanged
       \/ WorkerAt("prepare", "exited") /\ UNCHANGED <<status, status_changed>>
    /\ UNCHANGED <<pausedTasks, oldBase>>

WorkerSetsChanged ==
    /\ \/ WorkerAt("running_changed", "running_status")
       \/ WorkerAt("stop_changed", "stop_status")
    /\ SetChanged
    /\ UNCHANGED <<pausedTasks, oldBase>>

RunningSets ==
    /\ WorkerAt("running_status", "loop")
    /\ SetStatus("RUNNING")
    /\ UNCHANGED <<pausedTasks, oldBase>>

StopStatusSets ==
    /\ WorkerAt("stop_status", "finish")
    /\ SetStatus("STOP")
    /\ UNCHANGED <<pausedTasks, oldBase>>

\* (mutant) run does not wait while paused.
Loop_SkipsPause ==
    /\ WorkerAt("loop", IF status = "STOP" THEN "stop_changed" ELSE "task")
    /\ UNCHANGED <<status, status_changed, pausedTasks, oldBase>>

\* (mutant) run ends when the status is not RUNNING.
Loop_WhileRunning ==
    /\ WorkerAt("loop", IF status # "RUNNING" THEN "stop_changed" ELSE "pausing")
    /\ UNCHANGED <<status, status_changed, pausedTasks, oldBase>>

\* while (status != STOP)
Loop ==
    /\ WorkerAt("loop", IF status = "STOP" THEN "stop_changed" ELSE "pausing")
    /\ UNCHANGED <<status, status_changed, pausedTasks, oldBase>>

\* while (status == PAUSE) yield.  A pause is sat out when it lasts beyond the
\* owner's own calls.
Pausing ==
    /\ WorkerAt("pausing", IF status = "PAUSE" THEN "pausing" ELSE "task")
    /\ oldBase' = (oldBase \/ (status = "PAUSE" /\ owner = "idle"))
    /\ UNCHANGED <<status, status_changed, pausedTasks>>

Task ==
    /\ WorkerAt("task", "sleep")
    /\ pausedTasks' = IF paused THEN pausedTasks + 1 ELSE pausedTasks
    /\ UNCHANGED <<status, status_changed, oldBase>>

\* sleep tests status_changed and, when it is set, clears it and sets base_tp to now.
SleepTest ==
    /\ WorkerAt("sleep", IF status_changed THEN "sleep_reset" ELSE "loop")
    /\ UNCHANGED <<status, status_changed, pausedTasks, oldBase>>

SleepReset ==
    /\ WorkerAt("sleep_reset", "loop")
    /\ status_changed' = FALSE
    /\ oldBase' = FALSE
    /\ UNCHANGED <<status, pausedTasks>>

\* doFinish
Finish ==
    /\ WorkerAt("finish", "exited")
    /\ UNCHANGED <<status, status_changed, pausedTasks, oldBase>>

-------------------------------------------------------------------------------

OwnerSteps ==
    Start \/ StopTest \/ PauseTest \/ ResumeTest \/ OwnerSetsChanged \/
    StopSets \/ PauseSets \/ ResumeSets \/ Join

OwnerNext ==
    Construct \/ SetSleepPolicy \/ CallStart \/ CallStop \/ CallPause \/ CallResume \/
    OwnerSteps

WorkerNext ==
    Prepare \/ WorkerSetsChanged \/ RunningSets \/ StopStatusSets \/
    Loop \/ Pausing \/ Task \/ SleepTest \/ SleepReset \/ Finish

Next == OwnerNext \/ WorkerNext

\* Both threads are scheduled; nothing obliges the owner to make a call.
Spec == Init /\ [][Next]_vars /\ WF_vars(OwnerSteps) /\ WF_vars(WorkerNext)

-------------------------------------------------------------------------------
(* Properties                                                                  *)

\* Types.
TypeOK ==
    /\ status \in Status
    /\ status_changed \in BOOLEAN
    /\ owner \in Owner
    /\ worker \in Worker
    /\ paused \in BOOLEAN
    /\ pausedTasks \in Nat
    /\ oldBase \in BOOLEAN

\* A pause that took effect lasts until resume or stop: the worker's own setStatus
\* never overwrites it (HThread::pause tests the status before it sets it).
PauseSticks == paused => status = "PAUSE"

\* A pause that took effect lets at most one more task end before resume or stop (run
\* tests the status, then begins the task).
PauseIsPrompt == pausedTasks <= 1

\* The worker does not run frames in a burst to catch up with the time before it was
\* started, or that it spent paused: when it comes to sleep with an old base_tp,
\* status_changed is set, so that sleep starts base_tp afresh (setStatus raises the
\* flag before it writes the status).
NoCatchUp == worker = "sleep" /\ oldBase => status_changed

\* Once stop returned, the status is STOP, so that the next start creates a thread:
\* restart never turns into a stop (HThread::start tests the status).
StopLeavesStopped == worker = "none" => status = "STOP"

\* doFinish runs beside no other call of the owner: the worker comes to it only when
\* stop brought it there, and stop waits for it (HThread::run, HThread::stop).
FinishUnshared == worker = "finish" => owner = "join"

\* "wait thread exit" (the comment in HThread::stop): a stop returns.
StopReturns == owner = "join" ~> owner = "idle"
===============================================================================
