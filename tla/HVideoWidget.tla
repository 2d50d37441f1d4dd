----------------------------- MODULE HVideoWidget -----------------------------
(* One video cell: the UI thread, which runs every slot and event handler of   *)
(* HVideoWidget, and the two threads it owns, the HFFPlayer that decodes       *)
(* pictures and the HAudio that plays sound.  The player's thread posts events *)
(* to the UI thread; slots stop and join the threads, which blocks the UI      *)
(* thread; message boxes and open dialogs run a nested event loop, in which    *)
(* posted events and timers are handled but no click reaches the cell.         *)
(*                                                                             *)
(* HThread is taken at the grain of its calls (HThread.tla has its atomic      *)
(* steps).  The config file sets "fps", so that 1000 / fps is defined.  The    *)
(* frames, the drawing timer, titles and the progress bar are left out.        *)
EXTENDS Integers, Sequences, SequencesExt

CONSTANTS
    MediaTypes,     \* the types of media the user may open
    loop_playback,  \* what the config's loop_playback may be when it is read
    retry_maxcnt,   \* HVideoWidget::retry_maxcnt
    retry_interval, \* HVideoWidget::retry_interval, in ticks
    MaxEvents,      \* bound: with this many events queued, no EOF, ERROR or click comes
    MaxTimers,      \* bound on the single shots that are pending
    MaxBoxes        \* bound on the boxes and dialogs that are open

ASSUME MediaTypesAssumption == MediaTypes \subseteq {"FILE", "NETWORK"}
ASSUME LoopAssumption == loop_playback \subseteq BOOLEAN /\ loop_playback # {}
ASSUME RetryAssumption == retry_maxcnt \in Int /\ retry_interval \in Nat \ {0}
ASSUME BoundsAssumption == MaxEvents \in Nat /\ MaxTimers \in Nat /\ MaxBoxes \in Nat

VARIABLES
    media,        \* media.type
    status,       \* HVideoWidget::status
    shown_status, \* status when updateUI last chose which buttons are visible
    object,       \* whether pImpl_player ("video") and test ("audio") exist
    thread,       \* their HThread, quit and flag
    events,       \* the events posted to the cell, oldest first
    todo,         \* what the UI thread is doing: the statements still to run
    retry_cnt,    \* HVideoWidget::retry_cnt
    since,        \* ticks since last_retry_time, at most retry_interval
    timers,       \* ticks left of each pending single shot of restart
    crashed,      \* the process died of a null dereference
    closed        \* history: the user closed the cell and chose no medium since

player == <<status, shown_status, object, thread>>
retrying == <<retry_cnt, since, timers>>
vars == <<media, player, events, todo, retrying, crashed, closed>>

Threads == {"video", "audio"}

\* A thread that was never started: no quit, no flag, nothing to join.
Fresh == [status |-> "STOP", at |-> "none", quit |-> FALSE, flag |-> FALSE]

Init ==
    /\ media = "NONE"
    /\ status = "STOP"
    /\ shown_status = "STOP"
    /\ object = [t \in Threads |-> FALSE]
    /\ thread = [t \in Threads |-> Fresh]
    /\ events = <<>>
    /\ todo = <<>>
    /\ retry_cnt = 0
    /\ since = retry_interval
    /\ timers = <<>>
    /\ crashed = FALSE
    /\ closed = FALSE

-------------------------------------------------------------------------------
(* The calls on a thread: HThread with the quit and flag of the players.       *)

Started(th) ==
    [th EXCEPT !.quit = FALSE, !.flag = FALSE,
               !.at = IF th.status = "STOP" THEN "prepare" ELSE @]
\* (mutant) stop raises quit and leaves the status to the worker.
Stopped_QuitOnly(th) == [th EXCEPT !.quit = TRUE]
Stopped(th) == [th EXCEPT !.quit = TRUE, !.status = "STOP"]
Paused(th) ==
    [th EXCEPT !.flag = TRUE, !.status = IF @ = "RUNNING" THEN "PAUSE" ELSE @]
Resumed(th) ==
    [th EXCEPT !.flag = FALSE, !.status = IF @ = "PAUSE" THEN "RUNNING" ELSE @]

-------------------------------------------------------------------------------
(* Programs of the UI thread: sequences of statements for todo.                *)

Do(op, of) == [op |-> op, of |-> of]

StopOf(t) == <<Do("stop", t), Do("join", t), Do("delete", t)>>
RestartOf(t) == <<Do("stop", t), Do("join", t), Do("start", t)>>

\* (mutant) stop forgets the audio player.
StopProgram_VideoOnly == StopOf("video") \o <<Do("settle", "STOP")>>
StopProgram == StopOf("video") \o StopOf("audio") \o <<Do("settle", "STOP")>>
\* (mutant) close keeps the medium.
CloseProgram_KeepMedia == StopProgram
CloseProgram == StopProgram \o <<Do("forget", "media")>>
\* (mutant) restart starts the audio thread without stopping it first.
RestartProgram_AudioRuns == RestartOf("video") \o <<Do("start", "audio")>>
RestartProgram == RestartOf("video") \o RestartOf("audio")
WaitProgram == <<Do("stop", "video"), Do("join", "video")>>

FailedBox == Do("box", "failed")
InfoBox == Do("box", "info")
CellDialog == Do("dialog", "cell")
MenuDialog == Do("dialog", "menu")
Modal == {FailedBox, InfoBox, CellDialog, MenuDialog}

\* The statement that the UI thread is at.
Idle == Do("idle", "")
Doing == IF todo = <<>> THEN Idle ELSE Head(todo)

\* The UI thread is in an event loop: the main one, or that of a box or dialog.
Dispatching == Doing \in Modal \cup {Idle}

\* One more box may open.
BoxLeft == Len(todo) < MaxBoxes

-------------------------------------------------------------------------------
(* The slots that others call.  rest is what the UI thread was doing.          *)

\* start: without a player both are created and started, and the cell plays at
\* once, for HThread::start returns 0 whatever becomes of the opening; with one,
\* resume if paused; without a medium, a message box.
Start(m, rest) ==
    \/ /\ m = "NONE"
       /\ todo' = <<InfoBox>> \o rest
       /\ UNCHANGED player
    \/ /\ m # "NONE" /\ ~object["video"]
       /\ object' = [t \in Threads |-> TRUE]
       /\ thread' = [t \in Threads |-> Started(Fresh)]
       /\ status' = "PLAY" /\ shown_status' = "PLAY"
       /\ todo' = rest
    \/ /\ m # "NONE" /\ object["video"] /\ status = "PAUSE"
       /\ thread' = [t \in Threads |-> Resumed(thread[t])]
       /\ status' = "PLAY" /\ shown_status' = "PLAY"
       /\ todo' = rest
       /\ UNCHANGED object
    \/ /\ m # "NONE" /\ object["video"] /\ status # "PAUSE"
       /\ todo' = rest
       /\ UNCHANGED player

Run(program, rest) ==
    /\ todo' = program \o rest
    /\ UNCHANGED player

Stop(rest) == Run(StopProgram, rest)

Restart(rest) ==
    \/ object["video"] /\ Run(RestartProgram, rest)
    \/ ~object["video"] /\ Start(media, rest)

\* (mutant) one retry too many.
RetriesLeft_OneMore == retry_maxcnt < 0 \/ retry_cnt <= retry_maxcnt
RetriesLeft == retry_maxcnt < 0 \/ retry_cnt < retry_maxcnt

\* retry, a whole interval after the last one: restart at once.
RetryNow(rest) ==
    /\ RetriesLeft /\ since >= retry_interval
    /\ retry_cnt' = retry_cnt + 1
    /\ since' = 0
    /\ UNCHANGED timers
    /\ Restart(rest)

\* (mutant) the wait sets no timer.
RetryLater_NoTimer(rest) ==
    /\ RetriesLeft /\ since < retry_interval
    /\ Len(timers) < MaxTimers
    /\ retry_cnt' = retry_cnt + 1
    /\ since' = since - retry_interval
    /\ UNCHANGED timers
    /\ Run(IF object["video"] THEN WaitProgram ELSE <<>>, rest)

\* retry, sooner: stop the video player, move last_retry_time on by an interval
\* and restart when that time has come.
RetryLater(rest) ==
    /\ RetriesLeft /\ since < retry_interval
    /\ Len(timers) < MaxTimers
    /\ retry_cnt' = retry_cnt + 1
    /\ since' = since - retry_interval
    /\ timers' = Append(timers, retry_interval - since)
    /\ Run(IF object["video"] THEN WaitProgram ELSE <<>>, rest)

\* retry, when the retries ran out: stop.
RetryNoMore(rest) ==
    /\ ~RetriesLeft
    /\ UNCHANGED retrying
    /\ Stop(rest)

Retry(rest) == RetryNow(rest) \/ RetryLater(rest) \/ RetryNoMore(rest)

-------------------------------------------------------------------------------
(* customEvent: the handlers of posted events.                                 *)

Dispatch(e) ==
    /\ ~crashed
    /\ Dispatching
    /\ events # <<>> /\ Head(events) = e
    /\ events' = Tail(events)
    /\ UNCHANGED <<media, closed>>

\* onOpenSucceed, at its end, reads the duration of the player.
OnOpenSucceed ==
    /\ Dispatch("OPENED")
    /\ status' = "PLAY"
    /\ crashed' = ~object["video"]
    /\ UNCHANGED <<shown_status, object, thread, todo, retrying>>

\* onOpenFailed: the message of the first failure reads the player's error.
OnOpenFailed ==
    /\ Dispatch("OPEN_FAILED")
    /\ \/ /\ retry_cnt = 0
          /\ BoxLeft
          /\ crashed' = ~object["video"]
          /\ todo' = <<FailedBox>> \o todo
          /\ UNCHANGED <<player, retrying>>
       \/ /\ retry_cnt # 0
          /\ UNCHANGED crashed
          /\ Retry(todo)

OnPlayerEOF ==
    /\ Dispatch("EOF")
    /\ UNCHANGED crashed
    /\ \/ media = "NETWORK" /\ Retry(todo)
       \/ media = "FILE" /\ TRUE \in loop_playback /\ Restart(todo) /\ UNCHANGED retrying
       \/ /\ media = "NONE" \/ (media = "FILE" /\ FALSE \in loop_playback)
          /\ Stop(todo)
          /\ UNCHANGED retrying

OnPlayerError ==
    /\ Dispatch("ERROR")
    /\ UNCHANGED crashed
    /\ \/ media = "NETWORK" /\ Retry(todo)
       \/ media # "NETWORK" /\ Stop(todo) /\ UNCHANGED retrying

EventHandlers == OnOpenSucceed \/ OnOpenFailed \/ OnPlayerEOF \/ OnPlayerError

\* QTimer::singleShot: restart, whatever happened since retry set it.
SingleShot ==
    /\ ~crashed
    /\ Dispatching
    /\ BoxLeft
    /\ \E i \in DOMAIN timers :
          timers[i] = 0 /\ timers' = RemoveAt(timers, i)
    /\ Restart(todo)
    /\ UNCHANGED <<media, events, retry_cnt, since, crashed, closed>>

-------------------------------------------------------------------------------
(* The statements that the UI thread runs, one after the other.                *)

\* The UI thread runs its next statement, op, of a player or of the cell.
Statement(op, of) ==
    /\ ~crashed
    /\ Doing = Do(op, of)
    /\ todo' = Tail(todo)
    /\ UNCHANGED <<events, crashed>>

ToThread(t, th) ==
    /\ thread' = [thread EXCEPT ![t] = th]
    /\ UNCHANGED <<media, status, shown_status, retrying, closed>>

RunStop(t) ==
    /\ Statement("stop", t)
    /\ ToThread(t, IF object[t] THEN Stopped(thread[t]) ELSE thread[t])
    /\ UNCHANGED object

\* The join blocks the UI thread until the worker exited.
RunJoin(t) ==
    /\ Statement("join", t)
    /\ thread[t].at \in {"none", "exited"}
    /\ ToThread(t, [thread[t] EXCEPT !.at = "none"])
    /\ UNCHANGED object

RunStart(t) ==
    /\ Statement("start", t)
    /\ ToThread(t, IF object[t] THEN Started(thread[t]) ELSE thread[t])
    /\ UNCHANGED object

RunDelete(t) ==
    /\ Statement("delete", t)
    /\ ToThread(t, Fresh)
    /\ object' = [object EXCEPT ![t] = FALSE]

\* (mutant) stop leaves the status as it was.
RunSettle_KeepsStatus ==
    /\ Statement("settle", "STOP")
    /\ retry_cnt' = 0
    /\ since' = retry_interval
    /\ UNCHANGED <<media, player, timers, closed>>

\* The end of stop: last_retry_time is 0, long ago.
RunSettle ==
    /\ Statement("settle", "STOP")
    /\ status' = "STOP" /\ shown_status' = "STOP"
    /\ retry_cnt' = 0
    /\ since' = retry_interval
    /\ UNCHANGED <<media, object, thread, timers, closed>>

\* The end of close.
RunForget ==
    /\ Statement("forget", "media")
    /\ media' = "NONE"
    /\ UNCHANGED <<player, retrying, closed>>

Statements ==
    \/ \E t \in Threads : RunStop(t) \/ RunJoin(t) \/ RunStart(t) \/ RunDelete(t)
    \/ RunSettle \/ RunForget

-------------------------------------------------------------------------------
(* The user.                                                                   *)

\* The user answers the box or dialog that is on top.
Answer(modal) ==
    /\ ~crashed
    /\ Doing = modal
    /\ UNCHANGED <<events, crashed>>

DismissFailed ==
    /\ Answer(FailedBox)
    /\ Stop(Tail(todo))
    /\ UNCHANGED <<media, retrying, closed>>

DismissInfo ==
    /\ Answer(InfoBox)
    /\ todo' = Tail(todo)
    /\ shown_status' = status
    /\ UNCHANGED <<media, status, object, thread, retrying, closed>>

Reject ==
    /\ Answer(CellDialog) \/ Answer(MenuDialog)
    /\ todo' = Tail(todo)
    /\ UNCHANGED <<media, player, retrying, closed>>

\* open, after the cell's own dialog, or after the main window's when the cell is
\* the one that HMultiView::play finds idle.
Accept ==
    /\ Answer(CellDialog) \/ (Answer(MenuDialog) /\ status = "STOP")
    /\ closed' = FALSE
    /\ UNCHANGED retrying
    /\ \E m \in MediaTypes : media' = m /\ Start(m, Tail(todo))

\* The user clicks: a mouse event, which no open box or dialog lets through.
Click ==
    /\ ~crashed
    /\ todo = <<>>
    /\ Len(events) < MaxEvents
    /\ UNCHANGED <<events, retrying, crashed>>

ClickMedia ==
    /\ Click
    /\ shown_status = "STOP"
    /\ todo' = <<CellDialog>>
    /\ UNCHANGED <<media, player, closed>>

MenuOpen ==
    /\ Click
    /\ todo' = <<MenuDialog>>
    /\ UNCHANGED <<media, player, closed>>

ClickStart ==
    /\ Click
    /\ shown_status # "PLAY"
    /\ Start(media, <<>>)
    /\ UNCHANGED <<media, closed>>

ClickPause ==
    /\ Click
    /\ shown_status = "PLAY"
    /\ thread' = [t \in Threads |->
                    IF object[t] THEN Paused(thread[t]) ELSE thread[t]]
    /\ status' = "PAUSE" /\ shown_status' = "PAUSE"
    /\ UNCHANGED <<media, object, todo, closed>>

ClickStop ==
    /\ Click
    /\ Stop(<<>>)
    /\ UNCHANGED <<media, closed>>

ClickClose ==
    /\ Click
    /\ closed' = TRUE
    /\ Run(CloseProgram, <<>>)
    /\ UNCHANGED media

\* enterEvent: updateUI.
Enter ==
    /\ ~crashed
    /\ todo = <<>>
    /\ shown_status # status
    /\ shown_status' = status
    /\ UNCHANGED <<media, status, object, thread, events, todo, retrying, crashed,
                   closed>>

User ==
    \/ DismissFailed \/ DismissInfo \/ Reject \/ Accept
    \/ ClickMedia \/ MenuOpen \/ ClickStart \/ ClickPause \/ ClickStop \/ ClickClose
    \/ Enter

-------------------------------------------------------------------------------
(* The workers.                                                                *)

Worker(t, from) ==
    /\ ~crashed
    /\ thread[t].at = from
    /\ UNCHANGED <<media, status, shown_status, object, todo, retrying, crashed,
                   closed>>

GoesTo(t, to) ==
    /\ thread' = [thread EXCEPT ![t].at = to]
    /\ UNCHANGED events

Posts(t, to, e) ==
    /\ thread' = [thread EXCEPT ![t].at = to]
    /\ events' = Append(events, e)

\* setStatus(RUNNING), after doPrepare; it overwrites the STOP of an early stop.
GoesRunning(t) ==
    /\ thread' = [thread EXCEPT ![t].at = "run", ![t].status = "RUNNING"]
    /\ UNCHANGED events

VideoOpens ==
    /\ Worker("video", "prepare")
    /\ Posts("video", "opened", "OPENED")

VideoOpenFails ==
    /\ Worker("video", "prepare")
    /\ IF thread["video"].quit
         THEN GoesTo("video", "exited")
         ELSE Posts("video", "exited", "OPEN_FAILED")

VideoRuns ==
    /\ Worker("video", "opened")
    /\ GoesRunning("video")

\* doTask begins; a pause or a stop that comes later finds it reading.
VideoReads ==
    /\ Worker("video", "run")
    /\ thread["video"].status = "RUNNING"
    /\ GoesTo("video", "task")

\* doTask ends with a picture, or without one.
VideoDecodes ==
    /\ Worker("video", "task")
    /\ GoesTo("video", "run")

\* doTask finds the end of the file or an error.  So does each later doTask, and
\* posts one more event.
VideoEnds ==
    /\ Worker("video", "task")
    /\ ~thread["video"].quit
    /\ Len(events) < MaxEvents
    /\ \E e \in {"EOF", "ERROR"} : Posts("video", "run", e)

\* run returns, its status being STOP.
Exits(t) ==
    /\ Worker(t, "run")
    /\ thread[t].status = "STOP"
    /\ GoesTo(t, "exited")

AudioOpens ==
    /\ Worker("audio", "prepare")
    /\ GoesRunning("audio")

AudioOpenFails ==
    /\ Worker("audio", "prepare")
    /\ GoesTo("audio", "exited")

\* doTask hands a chunk of sound to the device and waits until it was played.  One
\* doTask plays the whole file, so that only quit ends it, never a pause.
AudioChunk ==
    /\ Worker("audio", "run")
    /\ thread["audio"].status # "STOP" /\ ~thread["audio"].quit
    /\ GoesTo("audio", "drain")

\* The device plays unless flag paused it: the wait looks at neither quit nor status.
AudioDrained ==
    /\ Worker("audio", "drain")
    /\ ~thread["audio"].flag
    /\ GoesTo("audio", "run")

VideoWorker ==
    \/ VideoOpens \/ VideoOpenFails \/ VideoRuns
    \/ VideoReads \/ VideoDecodes \/ VideoEnds \/ Exits("video")
AudioWorker ==
    AudioOpens \/ AudioOpenFails \/ AudioChunk \/ AudioDrained \/ Exits("audio")

-------------------------------------------------------------------------------
(* Time.                                                                       *)

Tick ==
    /\ ~crashed
    /\ since' = IF since < retry_interval THEN since + 1 ELSE since
    /\ timers' = [i \in DOMAIN timers |-> IF timers[i] = 0 THEN 0 ELSE timers[i] - 1]
    /\ <<since', timers'>> # <<since, timers>>
    /\ UNCHANGED <<media, player, events, todo, retry_cnt, crashed, closed>>

-------------------------------------------------------------------------------

Next ==
    EventHandlers \/ SingleShot \/ Statements \/ User \/ VideoWorker \/ AudioWorker \/ Tick

Spec == Init /\ [][Next]_vars

\* The threads are scheduled and time passes; nothing obliges the user to act.
FairSpec ==
    /\ Spec
    /\ WF_vars(EventHandlers \/ SingleShot \/ Statements)
    /\ WF_vars(VideoWorker)
    /\ WF_vars(AudioWorker)
    /\ WF_vars(Tick)

-------------------------------------------------------------------------------
(* Properties                                                                  *)

\* Types.  retry never counts beyond retry_maxcnt, for retry gives up there.
TypeOK ==
    /\ media \in {"NONE", "FILE", "NETWORK"}
    /\ {status, shown_status} \subseteq {"STOP", "PLAY", "PAUSE"}
    /\ object \in [Threads -> BOOLEAN]
    /\ thread \in [Threads ->
          [status : {"STOP", "RUNNING", "PAUSE"},
           at : {"none", "prepare", "opened", "run", "task", "drain", "exited"},
           quit : BOOLEAN, flag : BOOLEAN]]
    /\ events \in Seq({"OPENED", "OPEN_FAILED", "EOF", "ERROR"})
    /\ todo \in Seq([op : {"stop", "join", "start", "delete", "settle", "forget",
                           "box", "dialog"},
                     of : Threads \cup {"STOP", "media", "failed", "info", "cell",
                                        "menu"}])
    /\ retry_cnt \in Nat /\ (retry_maxcnt >= 0 => retry_cnt <= retry_maxcnt)
    /\ since \in Int /\ since <= retry_interval
    /\ timers \in Seq(Nat)
    /\ {crashed, closed} \subseteq BOOLEAN

\* Between events the two players exist together: resume and seek use the audio
\* player on the strength of the video player's pointer.
ObjectsPaired == Dispatching => object["video"] = object["audio"]

\* Between events the cell is stopped exactly when it has no player: that is what
\* HMultiView::getIdlePlayer and the media button go by.
StatusMatchesPlayer == Dispatching /\ ~crashed => (status = "STOP" <=> ~object["video"])

\* No std::thread is assigned or destroyed while it is joinable (that terminates the
\* process), and a start that restart asks for does start a thread.
ThreadsJoined ==
    \A t \in Threads :
        /\ Doing = Do("delete", t) => thread[t].at = "none"
        /\ Doing = Do("start", t) => thread[t].at = "none" /\ thread[t].status = "STOP"

\* A cell whose player's worker is gone knows of it: the failure is queued or a retry
\* is pending, so that the cell is not left black in the status PLAY for good.
NoLimbo ==
    todo = <<>> /\ object["video"] /\ thread["video"].at \in {"none", "exited"} =>
        timers # <<>> \/ Contains(events, "OPEN_FAILED")

\* A cell that the user closed plays nothing until the user opens a medium, whatever
\* events and single shots come late: close forgets the medium.
ClosedStaysClosed == closed /\ Dispatching => ~object["video"]

\* Stopping a cell whose threads run, its sound not paused, ends.
PlayingStopReturns ==
    (/\ Doing = Do("stop", "video")
     /\ thread["video"].at \in {"run", "task"} /\ thread["audio"].at \in {"run", "drain"}
     /\ ~thread["audio"].flag)
        ~> (Dispatching \/ crashed)

\* "tell that opening failed" (the comment in onOpenFailed): the handlers of late
\* events do not read a player that is gone.
NoCrash == ~crashed

\* "stop the player" (the comment in stop): the join of the audio thread returns.
StopEnds == Doing = Do("join", "audio") ~> (Dispatching \/ crashed)
===============================================================================
