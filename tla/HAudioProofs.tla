----------------------------- MODULE HAudioProofs -----------------------------
(* For any number of cells: at most one at a time uses the audio device and    *)
(* the globals of the sound callback, and no chunk is left half played.        *)
EXTENDS HAudio, TLAPS

IInv == TypeOK /\ OneSoundAtATime /\ ChunkFinished

\* A new HAudio has the type of one.
LEMMA NewAudioType ==
    ASSUME NEW p \in {"null", "garbage"}, NEW x \in {"null", "garbage"}
    PROVE  NewAudio(p, x) \in Audio /\ NewAudio(p, x).at = "none"
  <1>1. 0 \in 0 .. MaxChunks
    BY MaxChunksAssumption
  <1> QED
    BY <1>1 DEF NewAudio, Audio

\* The invariant holds initially.
LEMMA InitInv == Init => IInv
  <1> SUFFICES ASSUME Init PROVE IInv
    OBVIOUS
  <1>1. \A c \in Cells : sound[c] \in Audio /\ sound[c].at = "none"
    <2> SUFFICES ASSUME NEW c \in Cells
                 PROVE  sound[c] \in Audio /\ sound[c].at = "none"
      OBVIOUS
    <2>1. PICK p \in {"null", "garbage"}, x \in {"null", "garbage"} :
             sound[c] = NewAudio(p, x)
      BY DEF Init
    <2> QED
      BY <2>1, NewAudioType
  <1>2. sound \in [Cells -> Audio]
    BY <1>1 DEF Init
  <1>3. TypeOK
    <2>1. joining \in Cells \cup {NoCell} /\ device \in Cells \cup {NoCell}
      BY DEF Init
    <2>2. audio_len \in 0 .. 1 /\ audio_pos \in {"null", "set"}
      BY DEF Init
    <2>3. device_paused \in BOOLEAN /\ sdl_video \in BOOLEAN /\ crashed \in BOOLEAN
      BY DEF Init
    <2> QED
      BY <1>2, <2>1, <2>2, <2>3 DEF TypeOK
  <1>4. OneSoundAtATime
    BY <1>1 DEF OneSoundAtATime, Playing
  <1>5. ChunkFinished
    BY DEF Init, ChunkFinished
  <1> QED
    BY <1>3, <1>4, <1>5 DEF IInv

\* The calls of the UI thread keep the invariant: none moves a worker from one place
\* of its doTask to another.
LEMMA UIInv == IInv /\ UI => IInv'
  <1> SUFFICES ASSUME IInv, NEW c \in Cells,
                      Start(c) \/ Renew(c) \/ Pause(c) \/ Resume(c) \/ Seek(c) \/
                      Stop(c) \/ Join(c)
               PROVE  IInv'
    BY DEF UI
  <1>1. sound \in [Cells -> Audio] /\ sound[c] \in Audio
    BY DEF IInv, TypeOK
  <1>2. UNCHANGED <<globals, sdl, crashed>> /\ joining' \in Cells \cup {NoCell}
    BY DEF IInv, TypeOK, Start, Renew, Pause, Resume, Seek, Stop, Join, Goes, Calls
  <1>3. /\ sound' \in [Cells -> Audio]
        /\ \A d \in Cells : d # c => sound'[d] = sound[d]
        /\ \/ sound'[c].at = sound[c].at
           \/ sound[c].at \in {"none", "exited"} /\ sound'[c].at \in {"none", "prepare"}
    <2>1. CASE Start(c)
      BY <1>1, <2>1 DEF Start, Audio
    <2>2. CASE Renew(c)
      <3>1. PICK p \in {"null", "garbage"}, x \in {"null", "garbage"} :
               sound' = [sound EXCEPT ![c] = NewAudio(p, x)]
        BY <2>2 DEF Renew
      <3>2. NewAudio(p, x) \in Audio /\ NewAudio(p, x).at = "none"
        BY NewAudioType
      <3> QED
        BY <1>1, <2>2, <3>1, <3>2 DEF Renew
    <2>3. CASE Pause(c)
      BY <1>1, <2>3 DEF Pause, Audio
    <2>4. CASE Resume(c)
      BY <1>1, <2>4 DEF Resume, Audio
    <2>5. CASE Seek(c)
      BY <1>1, <2>5 DEF Seek, Audio
    <2>6. CASE Stop(c)
      BY <1>1, <2>6 DEF Stop, Audio
    <2>7. CASE Join(c)
      BY <1>1, <2>7 DEF Join, Goes, Audio
    <2> QED
      BY <2>1, <2>2, <2>3, <2>4, <2>5, <2>6, <2>7
  <1>4. TypeOK'
    BY <1>2, <1>3 DEF IInv, TypeOK, globals, sdl
  <1>5. OneSoundAtATime'
    BY <1>2, <1>3 DEF IInv, OneSoundAtATime, Playing, sdl
  <1>6. ChunkFinished'
    BY <1>2, <1>3 DEF IInv, ChunkFinished, globals
  <1> QED
    BY <1>4, <1>5, <1>6 DEF IInv

\* SDL's audio thread keeps the invariant.
LEMMA CallbackInv == IInv /\ ReadAudioData => IInv'
  BY DEF IInv, TypeOK, OneSoundAtATime, ChunkFinished, Playing, ReadAudioData, sdl

\* The type of the state is kept by a worker.
LEMMA WorkerType ==
    ASSUME IInv, NEW c \in Cells, Worker(c)
    PROVE  TypeOK' /\ \A d \in Cells : d # c => sound'[d] = sound[d]
  <1>1. sound \in [Cells -> Audio] /\ sound[c] \in Audio
    BY DEF IInv, TypeOK
  <1> USE DEF globals, sdl
  <1>2. CASE Open(c)
    <2>1. PICK n \in 0 .. MaxChunks :
             sound' = [sound EXCEPT ![c].at = "run", ![c].status = "RUNNING", ![c].chunks = n,
                                    ![c].format = "open", ![c].codec = "open"]
      BY <1>2 DEF Open
    <2>2. sound'[c] \in Audio
      BY <1>1, <2>1 DEF Audio
    <2>3. sound' \in [Cells -> Audio] /\ \A d \in Cells : d # c => sound'[d] = sound[d]
      BY <1>1, <2>1, <2>2
    <2>4. UNCHANGED <<joining, globals, sdl, crashed>>
      BY <1>2 DEF Open
    <2> QED
      BY <2>3, <2>4 DEF IInv, TypeOK
  <1>3. CASE OpenFails(c)
    <2>1. PICK left \in {<<"null", sound[c].codec>>, <<"open", sound[c].codec>>,
                         <<"open", "open">>} :
             sound' = [sound EXCEPT ![c].at = "exited", ![c].format = left[1],
                                    ![c].codec = left[2]]
      BY <1>3 DEF OpenFails
    <2>2. left[1] \in {"null", "open"} /\ left[2] \in {"null", "open"}
      BY <1>1 DEF Audio
    <2>3. sound'[c] \in Audio
      BY <1>1, <2>1, <2>2 DEF Audio
    <2>4. sound' \in [Cells -> Audio] /\ \A d \in Cells : d # c => sound'[d] = sound[d]
      BY <1>1, <2>1, <2>3
    <2>5. UNCHANGED <<joining, globals, sdl, crashed>>
      BY <1>3 DEF OpenFails
    <2> QED
      BY <2>4, <2>5 DEF IInv, TypeOK
  <1>4. CASE Task(c)
    BY <1>1, <1>4 DEF IInv, TypeOK, Task, Audio
  <1>5. CASE OpenDevice(c)
    BY <1>1, <1>5 DEF IInv, TypeOK, OpenDevice, Audio
  <1>6. CASE OpenDeviceFails(c)
    BY <1>1, <1>6 DEF IInv, TypeOK, OpenDeviceFails, Goes, Audio
  <1>7. CASE ReadChunk(c)
    <2>1. sound[c].chunks - 1 \in 0 .. MaxChunks
      BY <1>1, <1>7, MaxChunksAssumption DEF ReadChunk, Audio
    <2> QED
      BY <1>1, <1>7, <2>1 DEF IInv, TypeOK, ReadChunk, Audio
  <1>8. CASE SetPos(c)
    BY <1>1, <1>8 DEF IInv, TypeOK, SetPos, Goes, Audio
  <1>9. CASE Wait(c)
    <2>1. sound[c].flag \in BOOLEAN
      BY <1>1 DEF Audio
    <2> QED
      BY <1>1, <1>9, <2>1 DEF IInv, TypeOK, Wait, Goes, Audio
  <1>10. CASE Drained(c)
    BY <1>1, <1>10 DEF IInv, TypeOK, Drained, Goes, Audio
  <1>11. CASE QuitSDL(c)
    BY <1>1, <1>11 DEF IInv, TypeOK, QuitSDL, Goes, Audio
  <1>12. CASE Finish(c)
    <2>1. sound'[c] \in Audio
      BY <1>1, <1>12 DEF Finish, Audio
    <2>2. sound' \in [Cells -> Audio] /\ \A d \in Cells : d # c => sound'[d] = sound[d]
      BY <1>1, <1>12, <2>1 DEF Finish
    <2>3. crashed' \in BOOLEAN
      BY <1>12 DEF Finish
    <2>4. UNCHANGED <<joining, globals, sdl>>
      BY <1>12 DEF Finish
    <2> QED
      BY <2>2, <2>3, <2>4 DEF IInv, TypeOK
  <1>13. CASE OpenSilent(c)
    BY <1>1, <1>13 DEF IInv, TypeOK, OpenSilent, Audio
  <1>14. CASE Loop(c)
    BY <1>1, <1>14 DEF IInv, TypeOK, Loop, Goes, Audio
  <1> QED
    BY <1>2, <1>3, <1>4, <1>5, <1>6, <1>7, <1>8, <1>9, <1>10, <1>11, <1>12, <1>13, <1>14
       DEF Worker

\* The device goes from no cell to the one that opened it, and back at its SDL_Quit:
\* while a worker plays, no other can have passed SDL_OpenAudio.
LEMMA WorkerOneSound ==
    ASSUME IInv, NEW c \in Cells, Worker(c)
    PROVE  OneSoundAtATime'
  <1>1. sound \in [Cells -> Audio]
    BY DEF IInv, TypeOK
  <1>2. \A d \in Cells : d # c => sound'[d] = sound[d]
    BY WorkerType
  <1>3. \A d \in Cells : Playing(d) => device = d
    BY DEF IInv, OneSoundAtATime
  <1>4. \A d \in Cells : Playing(d)' => device' = d
    <2> USE <1>1, <1>2, <1>3 DEF Playing, sdl, globals
    <2>1. CASE Open(c) \/ OpenFails(c) \/ OpenSilent(c) \/ Loop(c) \/ Task(c) \/
               OpenDeviceFails(c) \/ Finish(c)
      <3>1. ~Playing(c)' /\ device' = device
        <4>1. CASE Open(c)
          BY <4>1 DEF Open
        <4>2. CASE OpenFails(c)
          BY <4>2 DEF OpenFails
        <4>3. CASE OpenSilent(c) \/ Finish(c)
          <5>1. device' = device
            BY <4>3 DEF OpenSilent, Finish
          <5>2. CASE OpenSilent(c)
            BY <5>1, <5>2 DEF OpenSilent
          <5>3. CASE Finish(c)
            BY <5>1, <5>3 DEF Finish
          <5> QED
            BY <4>3, <5>2, <5>3
        <4>4. CASE Loop(c) \/ Task(c) \/ OpenDeviceFails(c)
          <5>1. device' = device
            BY <4>4 DEF Loop, Task, OpenDeviceFails
          <5>2. sound'[c].at \in {"pausing", "open", "run"}
            BY <4>4 DEF Loop, Task, OpenDeviceFails, Goes, Audio
          <5> QED
            BY <5>1, <5>2
        <4> QED
          BY <2>1, <4>1, <4>2, <4>3, <4>4
      <3> QED
        BY <3>1
    <2>2. CASE OpenDevice(c)
      BY <2>2, NoCellAssumption DEF OpenDevice
    <2>3. CASE ReadChunk(c) \/ SetPos(c) \/ Wait(c) \/ Drained(c)
      BY <2>3 DEF ReadChunk, SetPos, Wait, Drained, Goes
    <2>4. CASE QuitSDL(c)
      BY <2>4 DEF QuitSDL, Goes
    <2> QED
      BY <2>1, <2>2, <2>3, <2>4 DEF Worker
  <1> QED
    BY <1>4 DEF OneSoundAtATime

\* audio_len is raised by a worker that goes on to wait for it, and that worker waits
\* until it is 0.
LEMMA WorkerChunk ==
    ASSUME IInv, NEW c \in Cells, Worker(c)
    PROVE  ChunkFinished'
  <1>1. sound \in [Cells -> Audio] /\ audio_len \in 0 .. 1
    BY DEF IInv, TypeOK
  <1>2. \A d \in Cells : d # c => sound'[d] = sound[d]
    BY WorkerType
  <1>3. ChunkFinished
    BY DEF IInv
  <1> USE <1>1, <1>2 DEF globals
  <1>4. CASE ~(ReadChunk(c) \/ SetPos(c) \/ Wait(c) \/ Drained(c))
    <2>1. audio_len' = audio_len /\ sound[c].at \notin {"chunk", "drain"}
      <3>1. CASE Open(c) \/ OpenFails(c) \/ OpenSilent(c)
        BY <3>1 DEF Open, OpenFails, OpenSilent
      <3>2. CASE Loop(c) \/ Task(c) \/ OpenDevice(c) \/ OpenDeviceFails(c)
        BY <3>2 DEF Loop, Task, OpenDevice, OpenDeviceFails, Goes
      <3>3. CASE QuitSDL(c) \/ Finish(c)
        BY <3>3 DEF QuitSDL, Finish, Goes
      <3> QED
        BY <1>4, <3>1, <3>2, <3>3 DEF Worker
    <2> QED
      BY <1>3, <2>1 DEF ChunkFinished
  <1>5. CASE ReadChunk(c)
    BY <1>5 DEF ChunkFinished, ReadChunk
  <1>6. CASE SetPos(c) \/ Wait(c)
    <2>1. sound'[c].at = "drain"
      BY <1>6 DEF SetPos, Wait, Goes, Audio
    <2> QED
      BY <2>1 DEF ChunkFinished
  <1>7. CASE Drained(c)
    BY <1>7 DEF ChunkFinished, Drained, Goes
  <1> QED
    BY <1>4, <1>5, <1>6, <1>7 DEF Worker

\* Every step keeps the invariant.
LEMMA NextInv == IInv /\ [Next]_vars => IInv'
  <1> SUFFICES ASSUME IInv, [Next]_vars PROVE IInv'
    OBVIOUS
  <1>1. CASE UI
    BY <1>1, UIInv
  <1>2. CASE ReadAudioData
    BY <1>2, CallbackInv
  <1>3. CASE \E c \in Cells : Worker(c)
    BY <1>3, WorkerType, WorkerOneSound, WorkerChunk DEF IInv
  <1>4. CASE UNCHANGED vars
    BY <1>4 DEF IInv, TypeOK, OneSoundAtATime, ChunkFinished, Playing, vars, globals, sdl
  <1> QED
    BY <1>1, <1>2, <1>3, <1>4 DEF Next

\* The inductive invariant holds in every reachable state.
THEOREM Invariance == Spec => []IInv
  BY InitInv, NextInv, PTL DEF Spec

\* Type correctness (HAudio::open to HAudio::close): no worker reads past its file.
THEOREM TypeCorrect == Spec => []TypeOK
  <1>1. IInv => TypeOK
    BY DEF IInv
  <1> QED
    BY <1>1, Invariance, PTL

\* HAudio::doTask: the cells exclude one another from the device and its globals.
THEOREM MutualExclusion == Spec => []OneSoundAtATime
  <1>1. IInv => OneSoundAtATime
    BY DEF IInv
  <1> QED
    BY <1>1, Invariance, PTL

\* HAudio::doTask: what is left of a chunk has a worker that waits for it.
THEOREM NoChunkAbandoned == Spec => []ChunkFinished
  <1>1. IInv => ChunkFinished
    BY DEF IInv
  <1> QED
    BY <1>1, Invariance, PTL
===============================================================================
