------------------------------- MODULE HAudio ---------------------------------
(* The sound of all the cells.  Each cell has an HAudio whose worker decodes   *)
(* the medium a second time and hands it, a chunk at a time, to the callback   *)
(* of SDL's audio thread, through globals that all the cells share, on the one *)
(* audio device that SDL_OpenAudio can open.  One UI thread starts, pauses,    *)
(* resumes, seeks, stops and joins the workers.                                *)
(*                                                                             *)
(* A chunk is as long as the device's buffer (1024 stereo samples of 16 bits), *)
(* so that one call of the callback plays it.  SDL is external.                *)
EXTENDS Integers

CONSTANTS
    Cells,    \* the cells
    NoCell,   \* no cell
    MaxChunks \* bound on the chunks of sound a medium has

ASSUME NoCellAssumption == NoCell \notin Cells
ASSUME MaxChunksAssumption == MaxChunks \in Nat

VARIABLES
    sound,         \* each cell's HAudio
    joining,       \* the cell whose worker the UI thread is joining
    audio_len,     \* the global audio_len, in chunks
    audio_pos,     \* the global audio_pos: "null" or "set"
    device,        \* SDL: the cell whose callback the open device calls
    device_paused, \* SDL: SDL_PauseAudio's state
    sdl_video,     \* SDL: the video subsystem, which SDL2Wnd initialised once
    crashed        \* the process died: a null or uninitialised pointer was used

sdl == <<device, device_paused, sdl_video>>
globals == <<audio_len, audio_pos>>
vars == <<sound, joining, globals, sdl, crashed>>

\* A new HAudio: the constructor sets neither packet nor au_convert_ctx, which
\* hold what the memory held.
NewAudio(packet, convert) ==
    [at |-> "none", status |-> "STOP", quit |-> FALSE, flag |-> FALSE, chunks |-> 0,
     format |-> "null", codec |-> "null", packet |-> packet, convert |-> convert]

Init ==
    /\ sound \in [Cells -> {NewAudio(p, x) : p, x \in {"null", "garbage"}}]
    /\ joining = NoCell
    /\ audio_len = 0
    /\ audio_pos = "null"
    /\ device = NoCell
    /\ device_paused = TRUE
    /\ sdl_video = TRUE
    /\ crashed = FALSE

\* One step of cell c, from the place at to the place to.
Goes(c, from, to) ==
    /\ ~crashed
    /\ sound[c].at = from
    /\ sound' = [sound EXCEPT ![c].at = to]

-------------------------------------------------------------------------------
(* The UI thread.                                                              *)

Calls(c) ==
    /\ ~crashed
    /\ joining = NoCell
    /\ UNCHANGED <<globals, sdl, crashed>>

Start(c) ==
    /\ Calls(c)
    /\ sound[c].at = "none"
    /\ sound' = [sound EXCEPT ![c].at = "prepare", ![c].quit = FALSE, ![c].flag = FALSE]
    /\ UNCHANGED joining

\* HVideoWidget::stop deletes the HAudio; a later start makes a new one.
Renew(c) ==
    /\ Calls(c)
    /\ sound[c].at = "none"
    /\ \E p, x \in {"null", "garbage"} : sound' = [sound EXCEPT ![c] = NewAudio(p, x)]
    /\ UNCHANGED joining

Pause(c) ==
    /\ Calls(c)
    /\ sound[c].at # "none"
    /\ sound' = [sound EXCEPT ![c].flag = TRUE,
                              ![c].status = IF @ = "RUNNING" THEN "PAUSE" ELSE @]
    /\ UNCHANGED joining

Resume(c) ==
    /\ Calls(c)
    /\ sound[c].at # "none"
    /\ sound' = [sound EXCEPT ![c].flag = FALSE,
                              ![c].status = IF @ = "PAUSE" THEN "RUNNING" ELSE @]
    /\ UNCHANGED joining

\* seek moves the reading position of pFormatCtx, which a failed open leaves behind.
Seek(c) ==
    /\ Calls(c)
    /\ sound[c].format = "open"
    /\ \E n \in 0 .. MaxChunks : sound' = [sound EXCEPT ![c].chunks = n]
    /\ UNCHANGED joining

Stop(c) ==
    /\ Calls(c)
    /\ sound[c].at # "none"
    /\ sound' = [sound EXCEPT ![c].quit = TRUE, ![c].status = "STOP"]
    /\ joining' = c

Join(c) ==
    /\ joining = c
    /\ Goes(c, "exited", "none")
    /\ joining' = NoCell
    /\ UNCHANGED <<globals, sdl, crashed>>

UI == \E c \in Cells :
          Start(c) \/ Renew(c) \/ Pause(c) \/ Resume(c) \/ Seek(c) \/ Stop(c) \/ Join(c)

-------------------------------------------------------------------------------
(* The worker of a cell.                                                       *)

\* doPrepare, then setStatus(RUNNING).  pFormatCtx and pCodecCtx are NULL, or what a
\* failed open left: the former is opened again, the latter overwritten.
Open(c) ==
    /\ ~crashed
    /\ sound[c].at = "prepare"
    /\ \E n \in 0 .. MaxChunks :
          sound' = [sound EXCEPT ![c].at = "run", ![c].status = "RUNNING", ![c].chunks = n,
                                 ![c].format = "open", ![c].codec = "open"]
    /\ UNCHANGED <<joining, globals, sdl, crashed>>

\* open fails at once (NULL for pFormatCtx), for want of a decoder (pCodecCtx as it was),
\* or at the decoder.  doPrepare fails, so that no doFinish calls close.
OpenFails(c) ==
    /\ ~crashed
    /\ sound[c].at = "prepare"
    /\ \E left \in {<<"null", sound[c].codec>>, <<"open", sound[c].codec>>,
                    <<"open", "open">>} :
          sound' = [sound EXCEPT ![c].at = "exited", ![c].format = left[1],
                                 ![c].codec = left[2]]
    /\ UNCHANGED <<joining, globals, sdl, crashed>>

\* The medium has no sound: the index is AVERROR_STREAM_NOT_FOUND, not the -1 that is
\* tested, and streams[] is read out of bounds.  If the process survives, what it read
\* is a stream that OpenFails or, with no chunk of sound in the file, Open goes on with.
OpenSilent(c) ==
    /\ ~crashed
    /\ sound[c].at = "prepare"
    /\ sound' = [sound EXCEPT ![c].format = "open"]
    /\ crashed' = TRUE
    /\ UNCHANGED <<joining, globals, sdl>>

\* run's outer loop.
Loop(c) ==
    /\ sound[c].status # "STOP"
    /\ Goes(c, "run", "pausing")
    /\ UNCHANGED <<joining, globals, sdl, crashed>>

\* run's inner loop ends, by a stop too, and begins a doTask, which allocates the packet.
Task(c) ==
    /\ ~crashed
    /\ sound[c].at = "pausing" /\ sound[c].status # "PAUSE"
    /\ sound' = [sound EXCEPT ![c].at = "open", ![c].packet = "allocated"]
    /\ UNCHANGED <<joining, globals, sdl, crashed>>

\* (mutant) doTask goes on when SDL_OpenAudio fails.
OpenDevice_Anyway(c) ==
    /\ ~crashed
    /\ sound[c].at = "open"
    /\ sound' = [sound EXCEPT ![c].at = "read", ![c].convert = "allocated"]
    /\ device' = c
    /\ device_paused' = FALSE
    /\ UNCHANGED <<joining, globals, sdl_video, crashed>>

\* SDL_OpenAudio opens the device, if it is not open, and SDL_PauseAudio(0) starts it.
OpenDevice(c) ==
    /\ ~crashed
    /\ sound[c].at = "open"
    /\ device = NoCell
    /\ sound' = [sound EXCEPT ![c].at = "read", ![c].convert = "allocated"]
    /\ device' = c
    /\ device_paused' = FALSE
    /\ UNCHANGED <<joining, globals, sdl_video, crashed>>

\* SDL_Init or SDL_OpenAudio fails, always so while another cell has the device:
\* doTask returns and run begins it anew.
OpenDeviceFails(c) ==
    /\ Goes(c, "open", "run")
    /\ UNCHANGED <<joining, globals, sdl, crashed>>

\* (mutant) the result of av_read_frame is not looked at.
ReadChunk_PastEnd(c) ==
    /\ ~crashed
    /\ sound[c].at = "read"
    /\ ~sound[c].quit
    /\ sound' = [sound EXCEPT ![c].at = "chunk", ![c].chunks = @ - 1]
    /\ audio_len' = 1
    /\ UNCHANGED <<joining, audio_pos, sdl, crashed>>

\* A chunk was decoded: audio_len first, then audio_pos.
ReadChunk(c) ==
    /\ ~crashed
    /\ sound[c].at = "read"
    /\ ~sound[c].quit /\ sound[c].chunks > 0
    /\ sound' = [sound EXCEPT ![c].at = "chunk", ![c].chunks = @ - 1]
    /\ audio_len' = 1
    /\ UNCHANGED <<joining, audio_pos, sdl, crashed>>

SetPos(c) ==
    /\ Goes(c, "chunk", "drain")
    /\ audio_pos' = "set"
    /\ UNCHANGED <<joining, audio_len, sdl, crashed>>

\* (mutant) the wait pauses the device and never starts it again.
Wait_PausesOnly(c) ==
    /\ Goes(c, "drain", "drain")
    /\ audio_len > 0
    /\ device_paused' = (device_paused \/ sound[c].flag)
    /\ UNCHANGED <<joining, globals, device, sdl_video, crashed>>

\* while (audio_len > 0): the device is paused as flag says.
Wait(c) ==
    /\ Goes(c, "drain", "drain")
    /\ audio_len > 0
    /\ device_paused' = sound[c].flag
    /\ UNCHANGED <<joining, globals, device, sdl_video, crashed>>

\* (mutant) the wait ends for quit as well.
Drained_OrQuit(c) ==
    /\ Goes(c, "drain", "read")
    /\ audio_len = 0 \/ sound[c].quit
    /\ UNCHANGED <<joining, globals, sdl, crashed>>

Drained(c) ==
    /\ Goes(c, "drain", "read")
    /\ audio_len = 0
    /\ UNCHANGED <<joining, globals, sdl, crashed>>

\* At the end of the file, or when told to quit, SDL_Quit shuts all of SDL down.
QuitSDL(c) ==
    /\ Goes(c, "read", "run")
    /\ sound[c].quit \/ sound[c].chunks = 0
    /\ device' = NoCell
    /\ device_paused' = TRUE
    /\ sdl_video' = FALSE
    /\ UNCHANGED <<joining, globals, crashed>>

\* run ends; doFinish closes the contexts, and frees packet and au_convert_ctx unless
\* they are null.
Finish(c) ==
    /\ ~crashed
    /\ sound[c].at = "run" /\ sound[c].status = "STOP"
    /\ crashed' = ("garbage" \in {sound[c].packet, sound[c].convert})
    /\ sound' = [sound EXCEPT ![c].at = "exited", ![c].format = "null", ![c].codec = "null",
                              ![c].packet = "null", ![c].convert = "null"]
    /\ UNCHANGED <<joining, globals, sdl>>

Worker(c) ==
    \/ Open(c) \/ OpenFails(c) \/ OpenSilent(c) \/ Loop(c) \/ Task(c)
    \/ OpenDevice(c) \/ OpenDeviceFails(c)
    \/ ReadChunk(c) \/ SetPos(c) \/ Wait(c) \/ Drained(c)
    \/ QuitSDL(c) \/ Finish(c)

-------------------------------------------------------------------------------
(* SDL's audio thread.                                                         *)

\* read_audio_data mixes the chunk that audio_pos points to.
ReadAudioData ==
    /\ ~crashed
    /\ device # NoCell /\ ~device_paused
    /\ audio_len > 0
    /\ audio_len' = 0
    /\ crashed' = (audio_pos = "null")
    /\ audio_pos' = "set"
    /\ UNCHANGED <<sound, joining, sdl>>

-------------------------------------------------------------------------------

Next == UI \/ ReadAudioData \/ \E c \in Cells : Worker(c)

Spec == Init /\ [][Next]_vars

\* The threads are scheduled and the device plays; nothing obliges the user to act.
FairSpec ==
    /\ Spec
    /\ WF_vars(ReadAudioData)
    /\ \A c \in Cells : WF_vars(Worker(c)) /\ WF_vars(Join(c))

-------------------------------------------------------------------------------
(* Properties                                                                  *)

\* Types.  No worker reads past the end of its file.
Audio ==
    [at : {"none", "prepare", "run", "pausing", "open", "read", "chunk", "drain", "exited"},
     status : {"STOP", "RUNNING", "PAUSE"}, quit : BOOLEAN, flag : BOOLEAN,
     chunks : 0 .. MaxChunks,
     format : {"null", "open"}, codec : {"null", "open"},
     packet : {"null", "garbage", "allocated"},
     convert : {"null", "garbage", "allocated"}]

TypeOK ==
    /\ sound \in [Cells -> Audio]
    /\ joining \in Cells \cup {NoCell}
    /\ audio_len \in 0 .. 1
    /\ audio_pos \in {"null", "set"}
    /\ device \in Cells \cup {NoCell}
    /\ device_paused \in BOOLEAN /\ sdl_video \in BOOLEAN /\ crashed \in BOOLEAN

\* A worker between its SDL_OpenAudio and its SDL_Quit.
Playing(c) == sound[c].at \in {"read", "chunk", "drain"}

\* One cell at a time uses audio_len, audio_pos and the device: the globals have no
\* lock, and only the failure of a second SDL_OpenAudio keeps the cells apart.
OneSoundAtATime == \A c \in Cells : Playing(c) => device = c

\* The device is never closed, nor the next chunk begun, with a chunk half played:
\* what is left of audio_len always has a worker that waits for it.
ChunkFinished ==
    audio_len > 0 => \E c \in Cells : sound[c].at \in {"chunk", "drain"}

\* Stopping a cell, its sound not paused, ends, whatever the other cells' workers do
\* with the device, unless Open overwrote the STOP (HThread!StopReturns).
SoundStops ==
    \A c \in Cells :
        (/\ joining = c /\ ~sound[c].flag
         /\ sound[c].at # "prepare" /\ sound[c].status = "STOP")
            ~> (joining # c \/ crashed)

\* "render and show" (the comment in SDL2Wnd::paintEvent): SDL's video is there for
\* the windows as long as the program runs.
VideoStays == sdl_video
===============================================================================
