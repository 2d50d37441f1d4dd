------------------------------- MODULE SDL2Wnd --------------------------------
(* How a decoded picture gets onto the screen: the decoding thread pushes it   *)
(* into HFrameBuf; in the UI thread the drawing timer of the cell pops it into *)
(* last_frame and paints it, through an SDL texture that is made anew only     *)
(* when the picture has another shape; Qt may ask for a repaint at any time;   *)
(* and the stop of the cell clears last_frame and deletes player and cache.    *)
(*                                                                             *)
(* The shape of a picture (its width, height and type) is abstracted to its    *)
(* length in bytes.  SDL is external.  The frame rate is left out: calcFPS     *)
(* counts what nothing displays.                                               *)
EXTENDS HFrameBuf

VARIABLES
    last_frame, \* the shape of HVideoWnd::last_frame, 0 when it is null; its pixels
                \* are those in shown
    sdlTexture, \* the shape of the texture sdlTexture points to, 0 for NULL
    tex,        \* the shape in tex_w, tex_h and tex_pix_fmt, 0 before the first
    screen,     \* the frames whose pixels the window shows, {} when it is black
    unpopped,   \* history: nothing was popped yet from the player the cell has
    unlocked    \* history: the last texture made could not be locked

wvars == <<last_frame, sdlTexture, tex, screen, unpopped, unlocked>>

WndInit ==
    /\ Init
    /\ last_frame = 0
    /\ sdlTexture = 0
    /\ tex = 0
    /\ screen = {}
    /\ unpopped = TRUE
    /\ unlocked = FALSE

-------------------------------------------------------------------------------
(* paintEvent, of a frame of shape len with the given pixels.                  *)

\* (mutant) a texture is made only once.
Changed_OnlyFirst(len) == sdlTexture = 0
\* The texture there is does not do for a frame of this shape.
Changed(len) == sdlTexture = 0 \/ tex # len

PaintBlack(len) ==
    /\ len = 0
    /\ screen' = {}
    /\ UNCHANGED <<sdlTexture, tex, unlocked>>

\* SDL_CreateTexture fails: nothing is presented.
CreateFails(len) ==
    /\ len # 0 /\ Changed(len)
    /\ sdlTexture' = 0
    /\ UNCHANGED <<tex, screen, unlocked>>

\* SDL_LockTexture fails: the new texture stays, with the parameters of the old one.
LockFails(len) ==
    /\ len # 0 /\ Changed(len)
    /\ sdlTexture' = len
    /\ unlocked' = TRUE
    /\ UNCHANGED <<tex, screen>>

CreateTexture(len) ==
    /\ Changed(len)
    /\ sdlTexture' = len
    /\ tex' = len
    /\ unlocked' = FALSE

\* The pixels are uploaded to the texture and presented.
Draw(len, pixels) ==
    /\ len # 0
    /\ \/ CreateTexture(len)
       \/ ~Changed(len) /\ UNCHANGED <<sdlTexture, tex, unlocked>>
    /\ screen' = pixels

Paint(len, pixels) ==
    PaintBlack(len) \/ CreateFails(len) \/ LockFails(len) \/ Draw(len, pixels)

-------------------------------------------------------------------------------

\* The decoding thread and the slider of the cell use the cache; the window is left
\* alone.
UseCache ==
    /\ Push \/ PushDiscard \/ PushNoRoom \/ Clear \/ Reopen \/ SetPolicy
    /\ UNCHANGED wvars

\* onTimerUpdate; with an empty cache it does nothing.
OnTimerUpdate ==
    /\ Pop
    /\ last_frame' = Head(frames).len
    /\ unpopped' = FALSE
    /\ Paint(last_frame', shown')

\* Qt's own paint event: a cell is uncovered, moved or resized.
Repaint ==
    /\ ~crashed
    /\ Paint(last_frame, shown)
    /\ UNCHANGED vars
    /\ UNCHANGED <<last_frame, unpopped>>

\* (mutant) stop leaves the last picture in place.
StopPaint_Keeps == last_frame' = last_frame /\ Paint(last_frame, shown)
\* stop clears last_frame and paints.
StopPaint == last_frame' = 0 /\ Paint(0, {})

\* stop of the cell.
StopCell ==
    /\ Renew
    /\ StopPaint
    /\ unpopped' = TRUE

WndNext == UseCache \/ OnTimerUpdate \/ Repaint \/ StopCell

WndSpec == WndInit /\ [][WndNext]_<<vars, wvars>>

-------------------------------------------------------------------------------
(* Properties                                                                  *)

Shapes == FrameLens \cup {0}

\* Types.
WndTypeOK ==
    /\ TypeOK
    /\ last_frame \in Shapes
    /\ sdlTexture \in Shapes
    /\ tex \in Shapes
    /\ screen \subseteq 0 .. MaxPush
    /\ unpopped \in BOOLEAN
    /\ unlocked \in BOOLEAN

\* A picture is uploaded to a texture of its own shape, however media of different
\* shapes, failures of SDL and repaints follow one another (paintEvent compares with
\* what it remembers of the texture).  A texture that could not be locked is excepted:
\* the early return keeps it and what is remembered of the one before.
DrawnInShape ==
    [][screen' # screen /\ screen' # {} => sdlTexture' = last_frame' \/ unlocked']_<<vars, wvars>>

\* A cell shows nothing of the player it had before: from its stop until the first
\* picture of the next player was popped it is black, also when Qt repaints it
\* (HVideoWidget::stop cleans last_frame up before it paints).
ScreenIsCurrent == unpopped => screen = {}
===============================================================================
