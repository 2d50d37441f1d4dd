------------------------------- MODULE HFFPlayer ------------------------------
(* The player of one cell: what HFFPlayer acquires from FFmpeg when it opens a *)
(* medium, uses in doTask and releases when it closes it, on the many paths    *)
(* that fail half-way; and the calls that may block for ever, which only       *)
(* interrupt_callback ends.  open runs in the UI thread, as helper, and again  *)
(* in the worker, as doPrepare; seek runs in the UI thread beside the worker.  *)
(*                                                                             *)
(* A pointer is abstracted to the thread whose open made what it points to.    *)
(* The player is an HThread: doPrepare, doTask and doFinish are the steps that  *)
(* HThread leaves open, and the calls of the UI thread are those of its owner.  *)
(* FFmpeg is external, the two dictionaries of options and hframe are left out. *)
EXTENDS HThread

VARIABLES
    held,    \* who made what each pointer points to, "nobody" for NULL
    lost,    \* history: who made an object to which the last pointer was overwritten
    opener,  \* who is in open: "helper" (the UI thread), "worker" or "nobody"
    step,    \* how far open came
    block,   \* interrupt_callback: "off", "on", or "expired" after block_timeout
    quit,    \* HFFPlayer::quit
    ui,      \* what the UI thread does with the player, and after a stop
    crashed  \* the process died

media == <<held, lost, opener, step, block, quit>>
playerVars == <<vars, media, ui, crashed>>

Pointers == {"fmt_ctx", "codec_ctx", "sws_ctx", "packet", "frame"}

\* The constructor sets every pointer to NULL.
PlayerInit ==
    /\ Init
    /\ held = [k \in Pointers |-> "nobody"]
    /\ lost = {}
    /\ opener = "nobody"
    /\ step = "none"
    /\ block = "off"
    /\ quit = FALSE
    /\ ui = "none"
    /\ crashed = FALSE

\* The pointers in made get new objects, then those in freed are freed and set to NULL.
\* What a pointer in made or in nulled pointed to before is lost.
Set(made, nulled, freed) ==
    /\ held' = [k \in Pointers |-> IF k \in freed \cup nulled THEN "nobody"
                                   ELSE IF k \in made THEN opener ELSE held[k]]
    /\ lost' = lost \cup ({held[k] : k \in made \cup nulled} \ {"nobody"})

Keep == Set({}, {}, {})

-------------------------------------------------------------------------------
(* open                                                                        *)

In(s) == ~crashed /\ step = s

\* open goes on to step s.
Goes(s) ==
    /\ step' = s
    /\ UNCHANGED <<vars, opener, quit, ui, crashed>>

\* (mutant) doPrepare does not look at what open returns.
Fails_Ignored ==
    /\ step' = "none"
    /\ opener' = "nobody"
    /\ IF opener = "helper"
         THEN ui' = "start" /\ UNCHANGED vars
         ELSE Prepare /\ worker' # "exited" /\ UNCHANGED ui
    /\ UNCHANGED <<quit, crashed>>

\* open returns an error.  helper does not look at it, and start starts the thread;
\* the worker ends without doFinish.
Fails ==
    /\ step' = "none"
    /\ opener' = "nobody"
    /\ IF opener = "helper"
         THEN ui' = "start" /\ UNCHANGED vars
         ELSE Prepare /\ worker' = "exited" /\ UNCHANGED ui
    /\ UNCHANGED <<quit, crashed>>

AllocContext ==
    /\ In("alloc")
    /\ Set({"fmt_ctx"}, {}, {})
    /\ block' = "on"
    /\ Goes("input")

AllocContextFails ==
    /\ In("alloc")
    /\ Set({}, {"fmt_ctx"}, {})
    /\ UNCHANGED block
    /\ Fails

\* (mutant) the callback stays installed.
OpenInput_KeepsCallback ==
    /\ In("input")
    /\ Keep
    /\ UNCHANGED block
    /\ Goes("info")

OpenInput ==
    /\ In("input")
    /\ Keep
    /\ block' = "off"
    /\ Goes("info")

\* avformat_open_input frees the context when it fails.
OpenInputFails ==
    /\ In("input")
    /\ Set({}, {}, {"fmt_ctx"})
    /\ block' = "off"
    /\ Fails

\* (mutant) interrupt_callback looks at the clock alone.
Interrupted_TimeoutOnly == block = "expired"

\* interrupt_callback tells FFmpeg to give up.
Interrupted == block = "expired" \/ (block = "on" /\ quit)

FindStream ==
    /\ In("info")
    /\ Keep
    /\ UNCHANGED block
    /\ Goes("codec")

\* No stream information or no video stream; a decoder is not found.
FindStreamFails ==
    /\ In("info") \/ In("codec") \/ In("software")
    /\ Set({}, {}, {"fmt_ctx"})
    /\ UNCHANGED block
    /\ Fails

\* (mutant) the jump back does not free the decoder of the first attempt.
TrySoftwareDecode_Leaks ==
    /\ In("codec")
    /\ Set({"codec_ctx"}, {}, {})
    /\ UNCHANGED block
    /\ Goes("software")

\* A hardware decoder does not open: the goto leaves the scope of the decoder's defer,
\* which frees it.
TrySoftwareDecode ==
    /\ In("codec")
    /\ Set({"codec_ctx"}, {}, {"codec_ctx"})
    /\ UNCHANGED block
    /\ Goes("software")

OpenCodec ==
    /\ In("codec") \/ In("software")
    /\ Set({"codec_ctx"}, {}, {})
    /\ UNCHANGED block
    /\ Goes("scale")

OpenCodecFails ==
    /\ In("codec") \/ In("software")
    /\ Set({"codec_ctx"}, {}, {"codec_ctx", "fmt_ctx"})
    /\ UNCHANGED block
    /\ Fails

\* The codec's size or format is wrong, or sws_getContext fails and sws_ctx is NULL.
ScaleFails ==
    /\ In("scale")
    /\ \E nulled \in {{}, {"sws_ctx"}} : Set({}, nulled, {"codec_ctx", "fmt_ctx"})
    /\ UNCHANGED block
    /\ Fails

\* open succeeds and sets the sleep policy.  1000 / fps may divide by zero: nothing
\* initialises fps, and a rate below one picture a second is rounded to zero.
Opened ==
    /\ In("scale")
    /\ Set({"sws_ctx", "packet", "frame"}, {}, {})
    /\ step' = "none"
    /\ opener' = "nobody"
    /\ crashed' \in BOOLEAN
    /\ IF opener = "helper"
         THEN SetSleepPolicy /\ ui' = "start"
         ELSE Prepare /\ worker' # "exited" /\ UNCHANGED ui
    /\ UNCHANGED <<block, quit>>

Open ==
    \/ AllocContext \/ AllocContextFails \/ OpenInput \/ OpenInputFails
    \/ FindStream \/ FindStreamFails \/ TrySoftwareDecode
    \/ OpenCodec \/ OpenCodecFails \/ ScaleFails \/ Opened

-------------------------------------------------------------------------------
(* The worker after doPrepare: run, with doTask and doFinish.                  *)

\* setStatus, the loop of run, and its sleep.
Run ==
    /\ ~crashed
    /\ \/ WorkerSetsChanged \/ RunningSets \/ StopStatusSets
       \/ Loop \/ Pausing \/ SleepTest \/ SleepReset
    /\ UNCHANGED <<media, ui, crashed>>

Reading == worker = "task" /\ block # "off"

\* doTask installs the callback and reads a packet, unless quit is set.
DoTask ==
    /\ ~crashed
    /\ worker = "task" /\ ~Reading
    /\ ~quit
    /\ block' = "on"
    /\ UNCHANGED <<vars, held, lost, opener, step, quit, ui, crashed>>

\* The packet is of another stream, or the decoder wants more: doTask looks at quit again.
ReadMore ==
    /\ ~crashed
    /\ Reading
    /\ block' = "off"
    /\ UNCHANGED <<vars, held, lost, opener, step, quit, ui, crashed>>

\* A picture was decoded, or an error or the end of the file ends doTask.
EndTask ==
    /\ ~crashed
    /\ Reading
    /\ Task
    /\ block' = "off"
    /\ UNCHANGED <<held, lost, opener, step, quit, ui, crashed>>

\* quit is set when doTask looks at it.
QuitTask ==
    /\ ~crashed
    /\ quit /\ ~Reading
    /\ Task
    /\ UNCHANGED <<media, ui, crashed>>

\* The interrupted av_read_frame, or avformat_open_input, returns an error.
Interrupt ==
    /\ Interrupted
    /\ OpenInputFails \/ EndTask

\* (mutant) close forgets the scaler.
Close_KeepsScaler == Set({}, {}, Pointers \ {"sws_ctx"})
Close == Set({}, {}, Pointers)

\* doFinish closes the medium.
DoFinish ==
    /\ ~crashed
    /\ Finish
    /\ Close
    /\ UNCHANGED <<opener, step, block, quit, ui, crashed>>

Expire ==
    /\ ~crashed
    /\ block = "on"
    /\ block' = "expired"
    /\ UNCHANGED <<vars, held, lost, opener, step, quit, ui, crashed>>

WorkerSteps == Run \/ DoTask \/ QuitTask \/ DoFinish

-------------------------------------------------------------------------------
(* The UI thread: HVideoWidget's start, pause, resume, stop, restart, retry and *)
(* seek.                                                                        *)

Begins(who) == opener' = who /\ step' = "alloc"

\* start of a cell: a new player, whose helper opens the medium.
New ==
    /\ ~crashed
    /\ ui = "none"
    /\ ui' = "helper"
    /\ Construct
    /\ Begins("helper")
    /\ quit' = FALSE
    /\ UNCHANGED <<held, lost, block, crashed>>

\* HFFPlayer::start.
PlayerStart ==
    /\ ~crashed
    /\ ui = "start"
    /\ ui' = "idle"
    /\ quit' = FALSE
    /\ CallStart
    /\ UNCHANGED <<held, lost, opener, step, block, crashed>>

\* start creates the thread, which begins with open.
StartThread ==
    /\ ~crashed
    /\ Start
    /\ IF worker' = "prepare" THEN Begins("worker") ELSE UNCHANGED <<opener, step>>
    /\ UNCHANGED <<held, lost, block, quit, ui, crashed>>

PauseOrResume ==
    /\ ~crashed
    /\ ui = "idle"
    /\ CallPause \/ CallResume
    /\ UNCHANGED <<media, ui, crashed>>

\* HFFPlayer::stop, of stop, restart or retry: the player is deleted, started or left
\* when the thread was joined.
PlayerStop ==
    /\ ~crashed
    /\ ui = "idle"
    /\ ui' \in {"delete", "restart", "wait"}
    /\ quit' = TRUE
    /\ CallStop
    /\ UNCHANGED <<held, lost, opener, step, block, crashed>>

\* The tests and writes of stop, pause and resume.
Continue ==
    /\ ~crashed
    /\ \/ StopTest \/ PauseTest \/ ResumeTest
       \/ OwnerSetsChanged \/ StopSets \/ PauseSets \/ ResumeSets
    /\ UNCHANGED <<media, ui, crashed>>

Joined ==
    /\ ~crashed
    /\ Join
    /\ \/ ui = "delete" /\ ui' = "none" /\ Close
       \/ ui = "restart" /\ ui' = "start" /\ Keep
       \/ ui = "wait" /\ ui' = "idle" /\ Keep
    /\ UNCHANGED <<opener, step, block, quit, crashed>>

\* seek uses fmt_ctx beside the worker: a context that is not open yet, or that the
\* worker is reading from or freeing, is undefined behaviour.
Seek ==
    /\ ~crashed
    /\ ui = "idle" /\ owner = "idle"
    /\ held["fmt_ctx"] # "nobody"
    /\ opener # "nobody" \/ Reading \/ worker = "finish"
    /\ crashed' \in BOOLEAN
    /\ UNCHANGED <<vars, media, ui>>

UISteps == StartThread \/ Continue \/ Joined

UI == New \/ PlayerStart \/ PauseOrResume \/ PlayerStop \/ Seek \/ UISteps

-------------------------------------------------------------------------------

PlayerNext == Open \/ WorkerSteps \/ ReadMore \/ EndTask \/ Interrupt \/ Expire \/ UI

PlayerSpec == PlayerInit /\ [][PlayerNext]_playerVars

\* The threads are scheduled.  Nothing obliges a medium to deliver data or to fail, nor
\* ten seconds to pass.
FairPlayerSpec ==
    /\ PlayerSpec
    /\ WF_playerVars(WorkerSteps \/ Interrupt)
    /\ WF_playerVars(UISteps)

-------------------------------------------------------------------------------
(* Properties                                                                  *)

Who == {"nobody", "helper", "worker"}

\* Types; the callback is installed while open_input blocks, and otherwise only inside
\* doTask, so that it never cuts short another call on the context.
PlayerTypeOK ==
    /\ held \in [Pointers -> Who]
    /\ lost \subseteq {"helper", "worker"}
    /\ opener \in Who
    /\ step \in {"none", "alloc", "input", "info", "codec", "software", "scale"}
    /\ block \in {"off", "on", "expired"}
    /\ step = "input" => block # "off"
    /\ block # "off" => step = "input" \/ worker = "task"
    /\ quit \in BOOLEAN
    /\ ui \in {"none", "helper", "start", "idle", "delete", "restart", "wait"}
    /\ crashed \in BOOLEAN

\* doTask uses its pointers unchecked: whichever opens failed or succeeded before, in
\* either thread, they are those of the open that the worker itself completed.
TaskHasAll ==
    worker \notin {"none", "prepare", "exited"} => \A k \in Pointers : held[k] = "worker"

\* "close, release the space" (the comment on close): a worker that ended, in whichever
\* step of open or in doFinish, leaves nothing of what it made behind.
GoneHoldsNothing ==
    worker \in {"none", "exited"} => \A k \in Pointers : held[k] # "worker"

\* Only what helper opened is ever leaked: no path of the worker's open, the fallback to
\* the software decoder included, overwrites a pointer to an object of its own.
OnlyHelperLeaks == "worker" \notin lost

\* A stop of a thread that reached RUNNING returns, whether the thread is paused, waits
\* for data of a medium that stalls, or is between two tasks: at once, and not after
\* block_timeout (HFFPlayer::stop sets quit, then the status).
StopInterrupts == owner = "stop_changed" ~> owner = "idle" \/ crashed
===============================================================================
