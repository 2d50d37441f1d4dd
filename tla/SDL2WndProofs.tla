---------------------------- MODULE SDL2WndProofs -----------------------------
(* Proofs about SDL2Wnd.  The window only uses the frame cache, so that all    *)
(* theorems of HFrameBufProofs hold in it; what it shows follows from what the *)
(* texture, its remembered shape and last_frame have to do with each other.    *)
EXTENDS SDL2Wnd, HFrameBufProofs

allvars == <<vars, wvars>>

\* The remembered shape is that of the texture, and a new player's last_frame is null.
TextureInv == sdlTexture # 0 /\ ~unlocked => sdlTexture = tex
PlayerInv == unpopped => last_frame = 0 /\ screen = {}
WndInv == IInv /\ TextureInv /\ PlayerInv

\* Every step of the window is a step of the frame cache or leaves it alone.
LEMMA WndStepsCache == WndNext => [Next]_vars
  BY DEF WndNext, UseCache, OnTimerUpdate, Repaint, StopCell, Next

\* The window is a user of the frame cache: whatever was proved of HFrameBuf holds in it.
THEOREM UsesTheCache == WndSpec => Spec
  <1>1. WndInit => Init
    BY DEF WndInit
  <1>2. [WndNext]_allvars => [Next]_vars
    BY WndStepsCache DEF allvars
  <1> QED
    BY <1>1, <1>2, PTL DEF WndSpec, Spec, allvars

\* Painting keeps the remembered shape true, and draws only what fits.
LEMMA PaintKeepsTexture ==
    ASSUME TextureInv, NEW len \in Nat, NEW pixels, Paint(len, pixels)
    PROVE  /\ TextureInv'
           /\ screen' # screen => (screen' = {} /\ len = 0) \/ sdlTexture' = len \/ unlocked'
  <1>1. CASE PaintBlack(len)
    BY <1>1 DEF PaintBlack, TextureInv
  <1>2. CASE CreateFails(len)
    BY <1>2 DEF CreateFails, TextureInv
  <1>3. CASE LockFails(len)
    BY <1>3 DEF LockFails, TextureInv
  <1>4. CASE Draw(len, pixels)
    <2>1. CASE CreateTexture(len)
      BY <1>4, <2>1 DEF CreateTexture, TextureInv
    <2>2. CASE ~Changed(len) /\ UNCHANGED <<sdlTexture, tex, unlocked>>
      BY <1>4, <2>2 DEF Changed, TextureInv
    <2> QED
      BY <1>4, <2>1, <2>2 DEF Draw
  <1> QED
    BY <1>1, <1>2, <1>3, <1>4 DEF Paint

\* A null last_frame is painted black.
LEMMA NullIsBlack ==
    ASSUME NEW pixels, Paint(0, pixels)
    PROVE  screen' = {}
  BY DEF Paint, PaintBlack, CreateFails, LockFails, Draw

\* A cached frame is not null.
LEMMA PoppedIsFrame ==
    ASSUME TypeOK, Pop
    PROVE  Head(frames).len \in Nat \ {0}
  <1>1. frames \in Seq(Frame) /\ frames # <<>>
    BY DEF TypeOK, Pop
  <1>2. Head(frames) = frames[1] /\ frames[1] \in Frame
    BY <1>1, TailOfFrames
  <1> QED
    BY <1>2, FrameFields

\* What one step does, for any kind of step.
LEMMA WndStep ==
    ASSUME WndInv, last_frame \in Nat, [WndNext]_allvars
    PROVE  /\ WndInv'
           /\ last_frame' \in Nat
           /\ screen' # screen /\ screen' # {} => sdlTexture' = last_frame' \/ unlocked'
  <1>1. IInv'
    <2>1. [Next]_vars
      BY WndStepsCache DEF allvars
    <2> QED
      BY <2>1, NextInv DEF WndInv
  <1>2. CASE UseCache \/ UNCHANGED allvars
    BY <1>1, <1>2 DEF UseCache, allvars, wvars, WndInv, TextureInv, PlayerInv
  <1>3. CASE OnTimerUpdate
    <2>1. last_frame' \in Nat \ {0} /\ unpopped' = FALSE /\ Paint(last_frame', shown')
      BY <1>3, PoppedIsFrame DEF OnTimerUpdate, WndInv, IInv
    <2>2. /\ TextureInv'
          /\ screen' # screen => sdlTexture' = last_frame' \/ unlocked'
      BY <2>1, PaintKeepsTexture DEF WndInv
    <2> QED
      BY <1>1, <2>1, <2>2 DEF WndInv, PlayerInv
  <1>4. CASE Repaint
    <2>1. Paint(last_frame, shown) /\ UNCHANGED <<last_frame, unpopped>>
      BY <1>4 DEF Repaint
    <2>2. /\ TextureInv'
          /\ screen' # screen => screen' = {} \/ sdlTexture' = last_frame' \/ unlocked'
      BY <2>1, PaintKeepsTexture DEF WndInv
    <2>3. PlayerInv'
      <3>1. CASE unpopped
        BY <2>1, <3>1, NullIsBlack DEF WndInv, PlayerInv
      <3>2. CASE ~unpopped
        BY <2>1, <3>2 DEF PlayerInv
      <3> QED
        BY <3>1, <3>2
    <2> QED
      BY <1>1, <2>1, <2>2, <2>3 DEF WndInv
  <1>5. CASE StopCell
    <2>1. last_frame' = 0 /\ Paint(0, {}) /\ screen' = {}
      BY <1>5, NullIsBlack DEF StopCell, StopPaint
    <2>2. TextureInv'
      BY <2>1, PaintKeepsTexture DEF WndInv
    <2> QED
      BY <1>1, <2>1, <2>2 DEF WndInv, PlayerInv
  <1> QED
    BY <1>2, <1>3, <1>4, <1>5 DEF WndNext

\* The invariant holds in the first state and in all that follow.
LEMMA WndInvariance == WndSpec => [](WndInv /\ last_frame \in Nat)
  <1>1. WndInit => WndInv /\ last_frame \in Nat
    BY InitInv DEF WndInit, WndInv, TextureInv, PlayerInv
  <1>2. WndInv /\ last_frame \in Nat /\ [WndNext]_allvars
          => (WndInv /\ last_frame \in Nat)'
    BY WndStep
  <1> QED
    BY <1>1, <1>2, PTL DEF WndSpec, allvars

\* A paint leaves the texture, what is remembered of it and the screen well typed.
LEMMA PaintTypes ==
    ASSUME WndTypeOK, NEW len \in Shapes, NEW pixels \in SUBSET (0 .. MaxPush),
           Paint(len, pixels)
    PROVE  /\ sdlTexture' \in Shapes /\ tex' \in Shapes
           /\ screen' \subseteq 0 .. MaxPush /\ unlocked' \in BOOLEAN
  <1>1. CASE PaintBlack(len)
    BY <1>1 DEF PaintBlack, WndTypeOK
  <1>2. CASE CreateFails(len)
    BY <1>2 DEF CreateFails, WndTypeOK, Shapes
  <1>3. CASE LockFails(len)
    BY <1>3 DEF LockFails, WndTypeOK
  <1>4. CASE Draw(len, pixels)
    BY <1>4 DEF Draw, CreateTexture, WndTypeOK
  <1> QED
    BY <1>1, <1>2, <1>3, <1>4 DEF Paint

\* Cache and window are type correct: what the window remembers are shapes of frames.
THEOREM WndTypeCorrect == WndSpec => []WndTypeOK
  <1>1. WndInit => WndTypeOK
    BY InitInv DEF WndInit, WndTypeOK, IInv, Shapes
  <1>2. WndTypeOK /\ TypeOK' /\ [WndNext]_allvars => WndTypeOK'
    <2> SUFFICES ASSUME WndTypeOK, TypeOK', [WndNext]_allvars
                 PROVE  WndTypeOK'
      OBVIOUS
    <2>1. CASE UseCache \/ UNCHANGED allvars
      BY <2>1 DEF UseCache, allvars, wvars, WndTypeOK
    <2>2. CASE OnTimerUpdate
      <3>1. last_frame' \in Shapes
        <4>1. frames \in Seq(Frame) /\ frames # <<>>
          BY <2>2 DEF WndTypeOK, TypeOK, OnTimerUpdate, Pop
        <4>2. Head(frames) = frames[1] /\ frames[1] \in Frame
          BY <4>1, TailOfFrames
        <4> QED
          BY <2>2, <4>2 DEF OnTimerUpdate, Frame, Shapes
      <3>2. shown' \in SUBSET (0 .. MaxPush)
        BY DEF TypeOK
      <3>3. Paint(last_frame', shown') /\ unpopped' = FALSE
        BY <2>2 DEF OnTimerUpdate
      <3> QED
        BY <3>1, <3>2, <3>3, PaintTypes DEF WndTypeOK
    <2>3. CASE Repaint
      <3>1. last_frame \in Shapes /\ shown \in SUBSET (0 .. MaxPush)
        BY DEF WndTypeOK, TypeOK
      <3>2. Paint(last_frame, shown) /\ UNCHANGED <<last_frame, unpopped>>
        BY <2>3 DEF Repaint
      <3> QED
        BY <3>1, <3>2, PaintTypes DEF WndTypeOK
    <2>4. CASE StopCell
      <3>1. last_frame' = 0 /\ Paint(0, {}) /\ unpopped' = TRUE
        BY <2>4 DEF StopCell, StopPaint
      <3>2. 0 \in Shapes /\ {} \in SUBSET (0 .. MaxPush)
        BY DEF Shapes
      <3> QED
        BY <3>1, <3>2, PaintTypes DEF WndTypeOK
    <2> QED
      BY <2>1, <2>2, <2>3, <2>4 DEF WndNext
  <1>3. WndSpec => []TypeOK
    BY UsesTheCache, TypeCorrect
  <1> QED
    BY <1>1, <1>2, <1>3, PTL DEF WndSpec, allvars

\* After a stop the cell stays black until a picture of the new player was popped
\* (HVideoWidget::stop), for every cache, all shapes and any repaints.
THEOREM BlackUntilPopped == WndSpec => []ScreenIsCurrent
  <1>1. WndInv => ScreenIsCurrent
    BY DEF WndInv, PlayerInv, ScreenIsCurrent
  <1> QED
    BY <1>1, WndInvariance, PTL

\* Pictures are uploaded to textures of their own shape (SDL2Wnd::paintEvent), unless a
\* texture could not be locked.
THEOREM UploadsFit == WndSpec => DrawnInShape
  <1>1. WndInv /\ last_frame \in Nat /\ [WndNext]_allvars
          => [screen' # screen /\ screen' # {} => sdlTexture' = last_frame' \/ unlocked']_allvars
    BY WndStep
  <1> QED
    BY <1>1, WndInvariance, PTL DEF WndSpec, DrawnInShape, allvars
===============================================================================
