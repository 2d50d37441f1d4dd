# MyMediaPlayer in TLA+

MyMediaPlayer is a Qt program that plays up to 64 media at once, each in a cell of
a grid. FFmpeg demultiplexes and decodes, SDL2 draws the pictures and plays the
sound, a part of libhv supplies threads, buffers, configuration and logging. This
directory models what is concurrent, stateful or easily got wrong in it. Paths
below are relative to `src/MyMediaPlayer/src/`.

Contents: [1 The system](#1-the-system) ·
[2 Modules and code](#2-modules-and-code) · [3 Runs](#3-runs) ·
[4 Bounds](#4-bounds) · [5 Fairness](#5-fairness) · [6 Proofs](#6-proofs) ·
[7 Known faults](#7-known-faults-of-the-code) ·
[8 Not modelled](#8-what-is-not-modelled) · [9 Plan](#9-plan)

## 1 The system

### Threads

| thread | runs | how many |
|---|---|---|
| UI thread | every Qt slot, timer and event handler of every cell; message boxes and dialogs run *nested* event loops in it | 1 |
| video worker | `HFFPlayer`: doPrepare (open), doTask (read, decode, push), doFinish (close) | 1 per cell that plays |
| audio worker | `HAudio`: the same medium opened and decoded a second time, for its sound | 1 per cell that plays |
| SDL's audio thread | the callback `read_audio_data` | 1, while the one audio device is open |

### Components and how they interact

```
 user ──clicks──► HMultiView ──setGeometry, play──► HVideoWidget ◄──posted events──┐
                                                     │ start stop pause resume     │
                                                     │ seek, join (UI blocks)      │
                                       ┌─────────────┴────────┐                    │
                                       ▼                      ▼                    │
                              HFFPlayer : HThread      HAudio : HThread            │
                                 │     └───────────────────── │ ───────────────────┘
                                 │ push                       │ unlocked globals
                                 ▼                            ▼
                              HFrameBuf ──pop──► SDL2Wnd   SDL's audio thread
                                (mutex)    (timer)

 MainWindow ──contains, resizes──► HMultiView      every part ──get, set──► IniParser
            ──opens──► HOpenMediaDlg ──set, save──► IniParser ──save──► file
```

| component | state | operations | what is hard | what makes it correct |
|---|---|---|---|---|
| **HFrameBuf / HRingBuf** (`util/hframe.*`, `hv/base/hbuf.h`) | a deque of frames, a ring of bytes that holds their pixels, the policy | push, pop, clear, setPolicy | the ring is sized once, by the first frame; frames wrap where they do not fit; alloc and free must agree on where | no two cached frames share bytes; a frame stays intact; a bounded FIFO; room for every push |
| **HThread** (`hv/base/hthread.h`) | status, status_changed, the std::thread | start, stop, pause, resume; the worker's run and sleep | owner and worker test and set two atomics without a lock | pause and stop take effect; a stopped thread can be started; no burst after a pause |
| **HFFPlayer** (`video/hffplayer.*`) | FFmpeg's contexts, quit, the interrupt callback | open, doTask, close, seek, helper | eleven ways to fail half-way, a goto out of a defer, open in two threads, calls that block for ever | doTask has all it uses; nothing is left behind; a stop gets a stalled read to return |
| **HAudio** (`video/haudio.*`) | its own contexts, flag, quit; globals audio_chunk, audio_len, audio_pos | start, stop, pause, resume, seek, doTask, the callback | globals without a lock, one device for all cells, SDL shut down by whoever ends first | cells do not mix their sound; chunks are played to the end; stop returns |
| **HVideoWidget** (`ui/hvideowidget.*`) | medium, status, two players, retry_cnt, last_retry_time | start, stop, close, pause, resume, restart, retry; handlers of OPENED, OPEN_FAILED, EOF, ERROR | events and timers that arrive after their player is gone; nested event loops; joins that block | status tells whether there is a player; no joinable thread is destroyed; a cell is never left dead; closed stays closed |
| **HMultiView / HTable** (`ui/hmultiview.*`, `ui/htable.*`) | table, prev_table, the views' ids, places and visibility, the mouse's | setLayout, resize, stretch, restoreLayout, exchange by drag and drop | six operations change state that has to agree; one field serves two purposes | the visible cells tile the area; an exchange lasts; a stretch can be undone |
| **SDL2Wnd / HVideoWnd** (`ui/sdl2wnd.*`, `ui/hvideownd.*`) | last_frame, the texture and what is remembered of its shape | update by the drawing timer, paintEvent, Qt's repaints, the stop of the cell | early returns between the texture and its parameters; repaints at any time; a picture that outlives its player | pictures are uploaded to a texture of their shape; a stopped cell is black |
| **MainWindow** (`ui/mainwindow.*`) | window state, rcOld, menu bar, check marks | F10, F11, F12, Esc and the menu; the open dialog | two kinds of full screen, one of which hides the window that gets the keys | there is always a way out; the marks agree with what is shown |
| **IniParser** with **HOpenMediaDlg** and **main** (`hv/cpputil/iniparser.*`, `ui/hopenmediadlg.*`, `main.cpp`) | a tree of sections, keys and comments; the file; the dialog's tabs | load, get, set, save; accept, reject; start and end of a session | the save empties the file first; failures to open, read and write are ignored; '#' in values; blank lines that wait for a section | a map that survives sessions and failed saves, of which a broken save loses settings but mixes none; a save writes every comment that was read |
| log, side widgets, title and tool bars | see section 8 | | | |

`PROJECT.json` lists the components with their status and, under `hazards`,
everything in the code that is hard to test, at its line, with the properties that
would catch it going wrong.

## 2 Modules and code

| module | models | grain |
|---|---|---|
| `FrameQueue` | what the frame cache promises (abstract): a bounded FIFO that drops its oldest or refuses its newest | one action per operation |
| `HFrameBuf` | `HFrameBuf` and `HRingBuf` to the byte | one action per operation: all of them hold the mutex |
| `SDL2Wnd` | the way of a picture from the cache to the window; extends `HFrameBuf` | one action per Qt event |
| `HThread` | `HThread` | one action per access to an atomic |
| `HFFPlayer` | `open` step by step with every error path, `doTask`, `close`, `seek`, `interrupt_callback`; extends `HThread` | one action per call of FFmpeg that can fail or block |
| `HAudio` | `HAudio` of all cells, SDL's device and callback | one action per access to shared state |
| `HVideoWidget` | one cell: the UI thread's handlers and the two workers | one action per handler up to a join; see below |
| `HMultiView` | the grid and its mouse | one action per Qt event |
| `MainWindow` | the main window around the grid; extends `HMultiView` | one action per key, menu entry or Qt event |
| `Settings` | what the configuration promises (abstract): a map in memory and a stored one | start, set, begin, end and breaking off of a save, end of the session |
| `IniParser` | the tree: reading, searching, changing and writing it, as operators | pure functions |
| `Confile` | the configuration over sessions: `load_confile`, `main`, the dialog, crashes; extends `IniParser` | one action per call, two per save |
| `MCHMultiView`, `MCMainWindow`, `MCConfile` | what TLC needs: layouts and points; texts | |
| `HFrameBufProofs`, `SDL2WndProofs`, `HFFPlayerProofs` (with `HThread`), `HAudioProofs`, `HVideoWidgetProofs`, `MainWindowProofs` (with `HMultiView`), `ConfileProofs` | the theorems | |
| `SequenceFacts` | what they need of sequences: induction, sums, the concatenation of sequences | |

Definitions carry the source's names; `map` in `PROJECT.json` gives the lines of each.
Definitions marked *(mutant)* are what a plausible bug would make of the definition
below them; nothing refers to them. They show, one per property, that the property
depends on the code.

**HFrameBuf.** `ring` has the fields `_head`, `_tail`, `_size` and the length;
`mem[c]` names the frame whose pixels were last written to byte c, so that
overwriting and mixing frames are visible. `Alloc` and `Free` follow the three cases of
the code. A push is `Push`, `PushDiscard` or, when `alloc` returns NULL, `PushNoRoom`:
`copy` then writes to a null address, since `HBuf::resize` does nothing for a buffer
that already claims its length. `Reopen` is the only thing `HFFPlayer::open` does to
the cache's use: it changes the length of the frames to come. `setPolicy` is public and
has no caller at present; `SetPolicy` lets it be called at any time.

**SDL2Wnd.** The shape of a picture (width, height, type) is abstracted to its length.
`Paint` is `paintEvent` with its early returns: black without a picture, nothing when
the texture cannot be made, nothing, but with a new texture, when it cannot be locked,
else the upload. The drawing timer (`OnTimerUpdate`), Qt (`Repaint`) and the stop of the
cell (`StopCell`) call it. `Renew` of `HFrameBuf`, which makes the new player's empty
cache, belongs to `StopCell`.

**HThread.** `owner` and `worker` are program counters. `paused`, `pausedTasks` and
`oldBase` are history variables: that a pause took effect, how many tasks began
since, and whether the worker sat out a pause since `base_tp` was last set. `Test`
stands for the `if` of stop, pause and resume, a step of its own, because the worker may
set the status between the test and the write.

**HFFPlayer.** A pointer is abstracted to who made the object it points to: `helper`
(`open` in the UI thread, before the thread starts), the `worker`, or nobody (NULL).
`Set` overwrites and frees pointers and records in `lost` whose object was dropped.
Each defer is part of the action that fails. The worker's steps are those of
`HThread` with the parts it leaves to its heirs filled in: the end of `open` is its
`Prepare`, reading is its `Task`, `close` its `Finish`; the UI thread's calls are its
owner's, with quit set before a stop.

**HAudio.** One record per cell. A chunk of sound is as long as the device's buffer,
so one callback plays it. Pointers that the constructor leaves uninitialised hold
`null` or `garbage`; freeing garbage, and mixing from a null `audio_pos`, crash.
`format` and `codec` say whether pFormatCtx and pCodecCtx are set: a failed `open` leaves
them to the next start of the same object (`OpenFails`), and a medium without sound reads
out of bounds (`OpenSilent`). `Loop` and `Task` are the two loops of `run`: a worker that
is stopped while it waits in the inner one begins one more doTask.

**HVideoWidget.** Qt runs one handler at a time, to its end, except where it blocks
in a join or runs a nested event loop. `todo` is the rest of what the UI thread is
doing: a stack of statements (`stop`, `join`, `start`, `delete`, `settle`, `forget`) and
of open boxes and dialogs. An event, click or timer is handled only while the top of
the stack is an event loop (`Dispatching`), so that a handler that blocks in a join
blocks everything, and one that opens a box is interrupted there by any number of
other handlers. `shown_status` is the status for which `updateUI` last chose the
buttons: what the user can click lags behind `status`. `Click` needs an empty stack,
since modal boxes keep clicks from the cell.

**HMultiView.** A point of the area is a function from layouts to the id of the cell
in which that layout puts it, and a geometry is a set of points: this is all that the
pixel arithmetic of `updateUI` matters for. `UpdateUI` is part of each action that
calls it.

**MainWindow.** `rect` is where the window is outside full screen, `rcOld` the static
variable of `fullscreen`. `GetsKeys` says when `keyPressEvent` of the main window runs:
it is shown and no modal dialog is over it, or it has grabbed the keyboard, which
`mv_fullscreen` does and nothing undoes. Every change of size is a `Resize` of the grid.

**IniParser and Confile.** A text is a sequence of lines, a line what trimming and the
search for '#' make of it: blank, section, key with value, or malformed, with its comment.
`LoadFromMem` gives blank lines to the section before the line that follows them, as
`strDiv` does. `Cut` and `CommentOf` are what a '#' does to a value that is read again.
At `Start` the copy of the default may fail, and an existing file may fail to open, in
which case the session runs on no tree. `SaveOpens` empties the file and `SaveWrites`
fills it; instead, the write may break off (`SaveBreaks`, after which the program goes
on) or the program die (`Crash`): then the file has the beginning of the text, whose
last line may be cut short in any of its parts (`CutText`), down to an empty file.
`found` is a history variable: the text that this session read, empty when it read none.
`root` may be of any type when `SetValue` made it, since the code leaves it
uninitialised. The model keeps one key of each use: one only read (`loglevel`), one
with a default at the start (`mv_row`), one toggled, one set at the end, the dialog's.

**Composition.** Three pairs are composed step by step: `SDL2Wnd` with `HFrameBuf`,
`HFFPlayer` with `HThread`, `MainWindow` with `HMultiView`. Each larger module extends
the smaller one, and each of its steps is one of the smaller one's or leaves its
variables alone (theorems `UsesTheCache`, `PlayerIsThread`, `WindowKeepsGrid`), so that
what holds of the part holds in the whole. The others are composed by abstraction:
`HVideoWidget` takes `HThread` at the grain of whole calls; what may happen inside them
is `HThread`'s own run, and the one fault found there, a STOP overwritten by RUNNING, is
an action of `HVideoWidget` and `HAudio` (`GoesRunning`, `Open`). `HVideoWidget` takes
`HFFPlayer` as opening, reading and ending; `HFrameBuf` takes it as a source of frames
of some length.

## 3 Runs

| run | asks | states |
|---|---|---|
| `picture` | The frame cache with the window that draws from it, frames of three lengths, both policies, seeks, stops, failures of SDL: do frames overlap (`FramesDisjoint`), change in the cache (`FramesIntact`), do the ring's books go wrong (`SizeAccounts`)? While all frames have one length, is there always room (`SpaceIfUniform`)? Is the cache a `FrameQueue` (`ImplementsQueue`)? Do pictures go back in time (`ShownForward`), is one uploaded to a texture of another shape (`DrawnInShape`), does a stopped cell show an old one (`ScreenIsCurrent`)? | 936 337 |
| `framebuf_crash` | *Violated.* `SpaceIsLeft` for a medium that comes back larger. | |
| `player` | The player with its thread, under every interleaving of atomic accesses and every failure of `open`, in both threads, with pauses, stops, restarts and seeks: `TaskHasAll`, `GoneHoldsNothing`, `OnlyHelperLeaks`, `FinishUnshared`; pause holds (`PauseSticks`), and at most one task slips through (`PauseIsPrompt`), no burst after it (`NoCatchUp`), stop leaves a startable thread (`StopLeavesStopped`); `StopInterrupts`: a stop ends a stalled read at once, not after `block_timeout`. | 3 318 |
| `thread_stop` | *Violated.* Every stop returns. | |
| `audio_cells` | Two cells, one device: `OneSoundAtATime`, `ChunkFinished`, and `SoundStops`: the stop of a cell whose sound is not paused ends whatever the other does, over silent media, failed opens and the doTask that begins after a stop. | 1 044 128 |
| `audio_video` | *Violated.* SDL's video survives the sound. | |
| `widget_cell` | Clicks, late events, timers, boxes, both workers: `ObjectsPaired`, `StatusMatchesPlayer`, `ThreadsJoined`, `NoLimbo`, `ClosedStaysClosed`, `PlayingStopReturns`. | 1.3 million |
| `widget_crash` | *Violated.* Handlers never read a player that is gone. | |
| `widget_stop` | *Violated.* Every stop of a cell ends. | |
| `multiview_grid` | Any sequence of layouts, resizes, drags and double clicks: `Tiled`, `InPlace`, `StretchUndone`. | 13 269 |
| `window` | Any mixture of keys, menu, both full screens, dialog and window manager around the grid: `NoTrap`, `MarksAgree`. | 29 968 |
| `settings` | Sessions that load or fail to, set, save, fail to save, break off in a save and die: is it a map, of which a broken save loses some settings but mixes none (`ImplementsSettings`)? Is what was accepted stored (`AcceptedIsStored`), does a save write the comments that were read (`CommentsKept`)? | 337 075 |

Deadlock is checked in `multiview_grid` and `window`, where something can always be
done, and in `thread_stop`. Elsewhere the system may stop: the process may have crashed, a
join waits for a worker that never ends (the faults of section 7), or the bound on
pushed frames or on steps is reached.

## 4 Bounds

| constant | value | why it is enough |
|---|---|---|
| `CacheNum` | 3 | the ring's layout has at most two runs of frames and one gap; three frames give all the positions of head and tail relative to them. The proofs are for any value. |
| `FrameLens` | {1,2,3}; {1,2} for the crash | the ring is sized by one of them; smaller and larger successors give frames that fit, wrap, or do not fit |
| `MaxPush` | 5; 8 for the crash | a ring of three slots is filled, squeezed and wrapped, after a change of length too. The proofs are for any value. |
| `Cells` | 2 | every clash over the globals or the device is between two cells |
| `MaxChunks` | 1, 2 | the first chunk, a further one, the end of the file |
| `retry_maxcnt`, `retry_interval` | 2, 1 | a first retry, a second, and none left; too soon or not. Any larger interval only adds ticks. |
| `MaxEvents` | 2 | one event handled late behind another. It bounds only EOF, ERROR and clicks: OPENED and OPEN_FAILED always get in. |
| `MaxTimers` | 1 | one single shot pending over all other activity. The safety properties were also checked with 2, without an error. |
| `MaxBoxes` | 2 | one box or dialog over another, each with its interrupted handler below |
| `MaxNum`, layouts, points | 5; 1x1, 1x2, 2x2; 4 | a view that no layout shows, layouts that nest and that do not; quarters tell all cells of these layouts apart |
| `MaxNum`, layouts, `Rects` in `window` | 2; 1x1, 1x2; 2 | the grid's part is in its own run; here a view that is hidden and one that is not, a place of the window and another one (interchangeable, hence the symmetry) |
| `Text`, `Value` | all strings; the values that occur in the run and their cut parts | what the assumptions on labels, comments and values are evaluated over |
| `MaxSteps` | 5 | starts, exits and things done: a session with a dialog accepted and a second that finds what it left, or two with a change and a third start; the faults of starts and saves are not counted |
| `Sources`, `Files`, `DefaultFiles` | "" and one with a '#'; one with a section twice, or none; one text with comments in every place and a malformed line, or none | each rule of the text's reader and writer is used, alone and after another save; an empty file is what a save that breaks off leaves |
| `Parts`, `CutTexts` | "FILE" may end as "FI", any value as ""; "#" | a line cut inside its value, its comment, its name, and before its '=' or ']'; the proofs are for any parts |

## 5 Fairness

Workers and the UI thread are scheduled, so each thread's steps get weak fairness
(`WorkerNext` and `OwnerSteps` in `HThread`; `WorkerSteps` and `UISteps` in
`FairPlayerSpec` of `HFFPlayer`; `Statements` with the event handlers and the two
workers in `FairSpec` of `HVideoWidget`; `Worker(c)` and `Join(c)` in that of `HAudio`);
for a thread that is waiting at a guard this demands nothing. Time passes (`Tick`),
SDL's audio thread calls its callback while the device plays (`ReadAudioData`), and
FFmpeg asks its interrupt callback while it waits (`Interrupt`). Nothing obliges the
user to act, the network to deliver or to fail, an answer to come from a modal box, or
ten seconds to pass (`Expire`). No property needs strong fairness.

## 6 Proofs

TLAPS proves these for every value of the constants that the named `ASSUME`s of the
modules allow. Each theorem follows from one inductive invariant per component. They state
every safety invariant, every action property and every refinement that the runs check.

**HFrameBuf** — `TypeCorrect`, `NoFramesOverlap` (`FramesDisjoint`), `PixelsIntact`
(`FramesIntact`). `FramesDisjoint` is not inductive: `free` computes
the head from the lengths alone and must rediscover where a frame was wrapped.
`RingInv` therefore describes the ring: the frames, oldest first, are an older run
that starts at the head and a younger one that starts at byte 0; each run is
contiguous; the younger one ends before the head; its first frame was longer than
the gap behind the older run (`WrappedForRoom`), which is what lets `free` see that it
was wrapped; and `_tail` follows the last frame. `Booked` gives the partial sums of
the lengths as a function, so that `_size` is bounded without a recursive sum.
`AllocLayout` and `FreeLayout` show that alloc and free keep it, by cases on the run the
frame is in. On top of it:

- `RoomIfUniform` (`SpaceIfUniform`): while all frames have one length u, the ring is
  `CacheNum` slots of u bytes, of which consecutive ones are used (`UniformInv`,
  `Slots`), so alloc fails only when all are, and then push squeezes or discards first.
- `TimeMovesForward` (`ShownForward`): frames wait in the order of their ids, and what was
  shown is older than all that wait (`Ranks`).
- `SizesAgree` (`SizeAccounts`): `_size` is the sum of the lengths of the cached frames, as the
  sum is written for TLC (a fold): `Booked`'s partial sums are those of the fold, by
  induction over the deque.
- `RefinesQueue` (`ImplementsQueue`): under the refinement mapping, which takes the ids of
  the cached frames, the cache starts as a `FrameQueue` does and each of its steps is a
  step or a stutter of it, for frames of any lengths.

**SDL2Wnd** — `UsesTheCache`, by which all of the above holds with the window too;
`WndTypeCorrect`, `BlackUntilPopped` (`ScreenIsCurrent`), `UploadsFit` (`DrawnInShape`): a
texture that could be locked has the shape that is remembered of it (`TextureInv`).

**HThread** — `PauseIsKept` (`PauseSticks`, `PauseIsPrompt`), `NoBurstAfterPause`,
`RestartWorks`, `FinishIsAlone`.
`StatusInv` says what an owner between its test and its write may rely on (nobody
else changes what it tested), `BaseInv` that an old `base_tp` is covered by
`status_changed` except while the pause lasts.

**HFFPlayer** — `PlayerIsThread`: every step of the player is one of `HThread`, so that its
theorems hold of the player (`PlayerKeepsThread`). `PlayerTypeCorrect` (with it: the
interrupt callback is installed exactly in the two calls that block), `TaskIsEquipped`,
`WorkerReleasesAll`, `WorkerLosesNothing` (`OnlyHelperLeaks`). `WorkerHolds` says which
pointers are the worker's at each step of `open` (`Acquired`); that helper and the worker
are never both in it follows from where the thread is.

**HVideoWidget** — `CellTypeCorrect`, `PlayersArePaired` (`ObjectsPaired`), `StatusIsTrue`
(`StatusMatchesPlayer`), `NoJoinableLost` (`ThreadsJoined`), `ClosedIsClosed`
(`ClosedStaysClosed`), `NeverInLimbo` (`NoLimbo`), for any bounds on retries, events, timers
and boxes. None of them is inductive, since between two statements of a stop all of them
may fail. `CellInv` says what may be on the stack: only boxes and dialogs are below a box
(`BoxesBelow`); a player is deleted or started right after its join (`JoinedBefore`), and
deleted only before the end of a stop (`SettlesAfter`, `DeletedBefore`). With it:
a thread that does not run has kept its STOP (`Threading`); unless a stop is under way,
status and buttons tell whether there are players (`Knows`); a closed cell has no
medium, or is about to have none (`Forgotten`). A handler pushes one of four programs,
of which it is shown once that they may be pushed (`Program`, `Pushed`); a statement pops
(`Popped`). For `NoLimbo` a second invariant, `Told`, says that a worker that is gone or
going has left a sign: a timer, an event, a box, or a statement that will start or
delete it.

**HAudio** — `TypeCorrect`, `MutualExclusion` (`OneSoundAtATime`), `NoChunkAbandoned`
(`ChunkFinished`), for any number of cells and whatever failed opens leave. The three
are inductive together: only the holder of the device writes `audio_len`.

**HMultiView** — `TypeCorrect`, `Tiling`, `ExchangesLast`, `RestoreGoesBack`, for any
number of views and any layouts that fit. `GridInv` distinguishes the grid (the
visible views are those of the table, each in the place of its id) from one view
stretched (one visible view, everywhere, and `prev_table` the table to go back to);
`Tiled` follows since the ids are a permutation.

**MainWindow** — `WindowKeepsGrid` and with it `TiledInWindow`: the grid in the window is
one of `HMultiView`. `AlwaysAWayOut` (`NoTrap`), `MarksAreRight` (`MarksAgree`): the menu
bar's mark must also agree while the window is hidden.

**Configuration** — what the operators compute, for every text, and what a session does
with them. The assumptions: the empty string is a label and a value without '#'; what
remains of a value up to its first '#' has none, and what is cut off is a comment
(`CutAssumption`); files are sequences of such lines; what the program itself stores
(check marks, rows, window states, names of tabs) has no '#'. Names of media may have one.
What may be left of a value that was not written to its end has no '#' (`PartsAssumption`:
DumpString writes no '#' but those of names of media, and a name cut before or at its '#'
is read without one).

A tree and a text *agree* (`Lays`) when there are places, in order, at which the text
has the lines of the tree in the order in which `DumpString` walks it (`Places`), and any
other line says nothing to a reader: it is malformed, or the line of an uninitialised
root. `ReadsTree` shows that in this case a reader, who takes a key for that of the
section begun last, finds in the text what `GetValue` finds in the tree. Then

- `LoadReads`: `LoadFromMem` makes a tree that agrees with the text, by induction over the
  lines: `LoadLays`, from `AddLoads` for each further line (blank lines wait, and `end`
  says where they stop waiting). That the recursive function in it exists is shown from
  `StagesExist`.
- `DumpReads`: what `DumpString` writes agrees with the tree, up to the cut at a '#'
  (`DumpLays`). It needs two facts about trees that the code never states: no key of the
  root comes after a section (`KeysFirst`; it would become the section's), and a root made
  by `SetValue` has no keys of its own (`NoKeys`; its uninitialised type may be written as
  a section).
- `SetGets`: after `SetValue`, `GetValue` of that key gives the value, and of every other key
  what it gave before, whether section and key are found, or appended.
- `CutReads`: in a text of which only the beginning was written, a reader finds for every
  key what the whole text has, or nothing, except for the one key whose line was cut
  (`CutTextIsPart`). The lines before are those of the whole text, so what gives a key its
  value there gives it here (`GivesInPart`), and it is the first to do so (`FirstInPart`).
- `Invariance`, of `Inv`: while there is a program it has a tree (`HasTree`) of these
  kinds; a save is under way only where one was asked for (`SavesWhere`); what was
  accepted is in the tree (`AcceptedIsSet`); the tree has every comment of the text
  that the session read (`KeepsAll`).
  From it `CommentsSurvive` (`CommentsKept`), `AcceptedLasts` (`AcceptedIsStored`), and
- `RefinesSettings` (`ImplementsSettings`): with `GetValue` for the map in memory and a reader
  of the file for the stored one, each step is a `Begin`, `Set`, `Wipe`, `Save`,
  `Break` or `End` of `Settings`, or a stutter: a failed load is a `Begin` that reads
  nothing, a save that breaks off a `Break`, a death in a save an `End`, both by `CutReads`
  (`CutIsTorn`).

**SequenceFacts** — the library's induction theorems take an operator as their parameter and
cannot be used here. Induction is stated about sets instead (`Induction`, `InductionUpTo`:
a set that has 0 and with each number the next has all), from the least element that
well-founded orders promise (`Least`). On it rest partial sums, which exist, are unique and
grow, and `FlattenSeqFacts`: where the elements of the sequences end up in their
concatenation.

Only model-checked: the liveness properties (`StopInterrupts`, `SoundStops`,
`PlayingStopReturns`), for liveness under fairness is outside what this prover does. No
module uses a RECURSIVE operator.

## 7 Known faults of the code

Runs that show a violation, with the line whose comment they contradict:

1. **Larger frames crash the cache** (`framebuf_crash`, `util/hframe.cpp:56`). The ring is
   sized by the first push. After a restart with larger frames, alloc returns NULL
   where the comment says there certainly is space. Larger than the first ones is not
   necessary: smaller pictures and back again leave a gap that is enough
   (`picture` reaches it too: `PushNoRoom`).
2. **A stop during opening is lost** (`thread_stop`, `hv/base/hthread.h:143`). The worker
   overwrites STOP by RUNNING; the join never returns and the UI hangs.
3. **A late OPEN_FAILED or OPENED crashes** (`widget_crash`, `ui/hvideowidget.cpp:546`).
   Events are not withdrawn when their player is deleted; the handler reads it.
4. **Stopping a paused cell hangs** (`widget_stop`, `video/haudio.cpp:190`). The audio worker
   waits for a paused device and looks at neither quit nor status.
5. **The end of one sound closes SDL's video** (`audio_video`, `video/haudio.cpp:204`).

Faults the models contain as steps, without a run of their own:

6. *Retries that ran out are followed by another start*: the single shot set by an
   earlier retry is not cancelled by the stop that gives up (`ui/hvideowidget.cpp:501`;
   the comment at 504 says "stop directly"). In `HVideoWidget`: `RetryLater`,
   `RetryNoMore`, then `SingleShot`.
7. *OPENED handled after a pause* sets the status to PLAY while the thread is
   paused (`ui/hvideowidget.cpp:515`); the start button then does nothing.
8. *The first chunk of the program may be mixed from NULL*: audio_len is set before
   audio_pos (`video/haudio.cpp:188`). In `HAudio`: `ReadChunk`, then `ReadAudioData`.
9. *close of an HAudio that never got to its doTask frees uninitialised pointers*
   (`video/haudio.cpp:125`, `Finish`). *A medium without sound* passes the test for -1
   (`video/haudio.cpp:44`), since av_find_best_stream returns another error, and
   streams[] is read out of bounds (49, `OpenSilent`). *A failed open closes nothing*:
   pFormatCtx and pCodecCtx stay, are opened again or overwritten by a restart, and lost
   when the object is deleted (`OpenFails`, `Renew`). *A paused sound that is stopped*
   while its worker waits in run begins one more doTask (`hv/base/hthread.h:168`, `Task`).
10. *helper's contexts leak at each start of a cell* (`video/hffplayer.h:38`); the first
    opening also blocks the UI thread for as long as the medium takes to answer.
11. *seek uses FFmpeg's context beside the worker* (`video/hffplayer.cpp:323`, `Seek`).
12. *1000 / fps may divide by zero* (`video/hffplayer.cpp:272`, `Opened`).
13. *A quick click can exchange two cells*: `action` is never initialised and never reset
    after an exchange (`ui/hmultiview.cpp:190`, `MouseRelease`).
14. *A resize, F11 or F12 ends a stretch* (`ui/hmultiview.cpp:174`).
15. *A texture that cannot be locked* stays, with the parameters of the one before it:
    the next picture of the old shape is uploaded to it (`ui/sdl2wnd.cpp:144`, `LockFails`).
16. *A program that dies between the two halves of a save* leaves an empty configuration,
    which exists and so is never replaced by the default (`hv/cpputil/iniparser.cpp:280`,
    `Crash`). *A write that breaks off*, on a full disk, leaves the beginning of one, and the
    program goes on: the results of write and close are ignored (284, `SaveBreaks`), and
    nobody looks at what Save returns (`SaveFails`). *A configuration that exists but does
    not open* at the start is ignored as well (117, `main.cpp:92`): the session finds no
    settings, and its next save overwrites all of them, and all comments (`LoadFromFile`).
17. *A value with a '#' is cut at the next start*, and its rest becomes a comment; each
    further save of such a value adds another (`hv/cpputil/iniparser.cpp:158`, `DumpLine`).
18. *An empty source that the dialog refuses has already replaced the stored one*
    (`ui/hopenmediadlg.cpp:132`, `Accept`, `Saved`).
19. *The root that SetValue makes has no initialised type* and may be written as a line
    (`hv/cpputil/iniparser.cpp:306`, `DumpRoot`). Malformed lines and their comments vanish
    with the first save; blank lines before a section belong to the section before.
20. *Leaving full screen always shows the menu bar*, a hidden one too
    (`ui/mainwindow.cpp:191`), and goes to the normal state, a maximised window too. A start
    in full screen leaves its mark unchecked, and the first F11 sets the geometry to
    QRect() (`MainInit`, `Fullscreen`).
21. *The keyboard is grabbed by F12 and never released*: a dialog opened later cannot be
    typed in, and its Esc and F12 reach the main window (`GetsKeys`).

Seen while reading, without a step in a model: the workers read the configuration without
a lock (`video/hffplayer.cpp:82`, 207); `setAspectRatio`'s caller in the constructor
tests strcmp without `== 0` (`ui/hvideowidget.cpp:75`); F10 does not store what it
changed, the menu's entry does; the window moves by its frame each session, since
x() and y() include it and setGeometry does not; the repository has no default
configuration, whose copy `load_confile` makes.

Properties therefore except what they must: `SoundStops` and `StopInterrupts` are about
workers past their opening (fault 2), `PlayingStopReturns` about cells that are not
paused (fault 4), and several hold up to a crash of the process (3, 8, 9, 11, 12).

## 8 What is not modelled

| part | why |
|---|---|
| hlog (`hv/base/hlog.*`) | a file per day, a limit on its size, a mutex; nothing else depends on it. The next to model. |
| tool bar, title bar, side widgets, central widget, styles, Qt helpers | layout and appearance; which buttons are visible is in `HVideoWidget` |
| of a cell: aspect ratio, progress bar, seeking by the slider (its effect on the cache and on FFmpeg is in `HFrameBuf` and `HFFPlayer`) | arithmetic and widgets |
| of the main window: the other four bars, the status bar | each is one entry of the menu with its mark, as `CheckMenubar` |
| of main: skin, language, font, the log of Qt's messages | appearance and output |
| of `IniParser`: Reload (no caller), typed Get and Set, the byte order mark | conversions of one value |
| a read of the configuration that ends early (`readall`'s result is ignored too) | it would be a load of the beginning of the text, as after `SaveBreaks`, with a whole file |
| a window manager that takes the window out of full screen | `changeEvent` only notes the state, so F11's mark would stay: `MarksAgree` is about the program's own ways in and out |
| the end of the program in `HVideoWidget` and `HAudio`: the destructor closes each cell | it is a close, as modelled, without an event loop after it; it comes before the last save (`main.cpp:199`), so that a join that hangs (fault 4) also loses the settings: in `Confile`, a `Crash` at "exit" |
| of `SDL2Wnd`: `calcFPS` | nothing shows what it counts |
| FFmpeg, SDL2, Qt | external; modelled by what the code calls, with every result it tests for |
| the rest of libhv (event loop, HTTP, MQTT, examples, tests) | vendored, and nothing in the player calls it |

Most lines under `src/` are the last two rows: headers of FFmpeg and SDL2 under
`3rd/` and libhv under `src/hv/` are about 150 000 of 155 000 lines. The program's own code
(`main.cpp`, `ui`, `video`, `util` and the parts of libhv it uses) is some 4 550 lines,
most of it layout; the map of definitions to lines is to be read against these.

Also abstracted: the contents of pictures and sound, file names and error codes, time
stamps, the options dictionaries, the pixel arithmetic of layouts, margins and the
dragged thumbnail. The widget and the players are one cell's; cells share the sound, which
`HAudio` models for all of them, the configuration, and the UI thread: a join that does not
return (faults 2 and 4) therefore stops all cells.

## 9 Plan

The order was the data path first, since every picture goes through it, then the
threads, then the control of a cell, the grid, and what surrounds them.

Done: `FrameQueue`, `HFrameBuf` and `SDL2Wnd`; `HThread` and `HFFPlayer`, composed;
`HAudio`; `HVideoWidget`; `HMultiView` and `MainWindow`, composed; `Settings`, `IniParser` and
`Confile`; proofs about all of them.

Left to model:

1. The log: the daily file, the limit on its size, and the second log of `qLogHandler`.
2. `setAspectRatio` as a pure function, against "inside the cell, multiple of four".
3. Two cells of `HVideoWidget` around one UI thread: a join in one blocks the other.

Left to prove: that `HThread`, seen from its owner, is the thread that `HVideoWidget` and
`HAudio` take it for (running, asked to stop, ended, joined), so that these compositions
rest on a refinement as the three above do.
