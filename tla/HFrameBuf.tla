------------------------------ MODULE HFrameBuf -------------------------------
(* The frame cache between the decoding thread (push) and the drawing timer of *)
(* the UI thread (pop): a deque of frames whose pixels live in one ring of     *)
(* bytes, HRingBuf.  Every operation runs under the buffer's mutex, so each is *)
(* one action.  The ring is allocated by the first push, CacheNum times as     *)
(* large as that first frame, and is never resized afterwards; the length of   *)
(* the frames changes when the player reopens a stream.  A stop of the cell    *)
(* deletes the player with its cache.                                          *)
EXTENDS Integers, Sequences

CONSTANTS
    CacheNum,  \* HFrameBuf::cache_num
    FrameLens, \* the frame lengths (bytes) that the opened media may have
    Policies,  \* the policies that setPolicy may be given
    MaxPush    \* bound on the number of frames pushed in a behaviour

ASSUME CacheNumAssumption == CacheNum \in Nat \ {0}
ASSUME FrameLensAssumption == FrameLens \subseteq Nat \ {0} /\ FrameLens # {}
ASSUME PoliciesAssumption == Policies \subseteq {"SQUEEZE", "DISCARD"}
ASSUME MaxPushAssumption == MaxPush \in Nat

VARIABLES
    policy,      \* HFrameBuf::policy, what becomes of a push of a full cache
    ring,        \* HRingBuf: its length and _head, _tail, _size
    mem,         \* the ring's bytes: the frame each was last written for, 0 if none
    frames,      \* HFrameBuf::frames, each with the place of its pixels
    pushed,      \* frame_stats.push_ok_cnt of all the cell's players together, also
                 \* the name of the newest frame
    frame_len,   \* hframe.buf.len of the producer, set when it opens its media
    shown,       \* the frames whose bytes the last successful pop copied out
    mixed,       \* history: a frame was pushed whose length is not the one that sized
                 \* the ring
    crashed      \* the process died copying a frame to a null address

vars == <<policy, ring, mem, frames, pushed, frame_len, shown, mixed, crashed>>

-------------------------------------------------------------------------------
(* HRingBuf: a ring hands out contiguous runs of bytes and takes them back in  *)
(* the order they were handed out.                                             *)

EmptyRing == [cap |-> 0, head |-> 0, tail |-> 0, size |-> 0]

\* The free bytes are [tail, cap) and [0, head); otherwise they are [tail, head).
Unwrapped(r) == r.head < r.tail \/ r.size = 0

FitsAtTail(r, len) == Unwrapped(r) /\ r.cap - r.tail >= len
\* (mutant) one byte too many fits at the base.
FitsAtBase_OneMore(r, len) ==
    Unwrapped(r) /\ r.cap - r.tail < len /\ r.head + 1 >= len
FitsAtBase(r, len) == Unwrapped(r) /\ r.cap - r.tail < len /\ r.head >= len
\* (mutant) one byte too many fits between tail and head.
FitsBetween_OneMore(r, len) == ~Unwrapped(r) /\ r.head - r.tail + 1 >= len
FitsBetween(r, len) == ~Unwrapped(r) /\ r.head - r.tail >= len

\* alloc returns an address, not NULL.
CanAlloc(r, len) ==
    FitsAtTail(r, len) \/ FitsAtBase(r, len) \/ FitsBetween(r, len)

AllocOffset(r, len) == IF FitsAtBase(r, len) THEN 0 ELSE r.tail

AllocTail(r, len) ==
    IF FitsAtTail(r, len) /\ r.tail + len = r.cap
      THEN 0
      ELSE AllocOffset(r, len) + len

Alloc(r, len) == [r EXCEPT !.tail = AllocTail(r, len), !.size = @ + len]

FreeHead(r, len) ==
    IF len <= r.cap - r.head
      THEN IF r.head + len = r.cap THEN 0 ELSE r.head + len
      ELSE len

\* (mutant) free moves the head and forgets the size.
Free_KeepsSize(r, len) == [r EXCEPT !.head = FreeHead(r, len)]
Free(r, len) == [r EXCEPT !.head = FreeHead(r, len), !.size = @ - len]

\* HBuf::isNull
IsNull(r) == r.cap = 0

\* HBuf::resize of a buffer that holds nothing: zeroed memory.
Resize(r, n) == [r EXCEPT !.cap = n]

\* The bytes a frame occupies.
Cells(f) == f.off .. f.off + f.len - 1

-------------------------------------------------------------------------------
(* HFrameBuf                                                                   *)

\* (mutant) the cache is held full one frame too late.
Full_OneLate == Len(frames) > CacheNum
Full == Len(frames) >= CacheNum

\* The ring and the queue after a full cache squeezed its oldest frame out.
\* (mutant) the squeezed frame leaves the ring but stays in the deque.
KeptFrames_All == frames
KeptFrames == IF Full THEN Tail(frames) ELSE frames
KeptRing == IF Full THEN Free(ring, Head(frames).len) ELSE ring

\* The ring the new frame is allocated from: the first push sizes it.
PushRing ==
    IF IsNull(KeptRing) THEN Resize(KeptRing, frame_len * CacheNum) ELSE KeptRing
PushMem ==
    IF IsNull(KeptRing) THEN [c \in 0 .. frame_len * CacheNum - 1 |-> 0] ELSE mem

NewFrame == [id  |-> pushed + 1,
             off |-> AllocOffset(PushRing, frame_len),
             len |-> frame_len]

Init ==
    /\ policy = "SQUEEZE"
    /\ ring = EmptyRing
    /\ mem = [c \in 0 .. -1 |-> 0]
    /\ frames = <<>>
    /\ pushed = 0
    /\ frame_len \in FrameLens
    /\ shown = {}
    /\ mixed = FALSE
    /\ crashed = FALSE

\* push of a full cache under DISCARD: the frame is refused.
PushDiscard ==
    /\ ~crashed
    /\ Full
    /\ policy = "DISCARD"
    /\ UNCHANGED vars

\* (mutant) the policy is ignored.
Pushing_AnyPolicy == ~crashed /\ pushed < MaxPush

Pushing ==
    /\ ~crashed
    /\ pushed < MaxPush
    /\ Full => policy = "SQUEEZE"

\* push: room is made if need be, the pixels are copied into the ring.
Push ==
    /\ Pushing
    /\ CanAlloc(PushRing, frame_len)
    /\ ring' = Alloc(PushRing, frame_len)
    /\ mem' = [c \in DOMAIN PushMem |->
                 IF c \in Cells(NewFrame) THEN NewFrame.id ELSE PushMem[c]]
    /\ frames' = Append(KeptFrames, NewFrame)
    /\ pushed' = pushed + 1
    /\ mixed' = (mixed \/ frame_len * CacheNum # PushRing.cap)
    /\ UNCHANGED <<policy, frame_len, shown, crashed>>

\* push when the ring has no run of frame_len bytes left: alloc returns NULL and
\* copy, whose resize is a no-op, writes the pixels to it.  What the cache was left
\* like no longer matters.
PushNoRoom ==
    /\ Pushing
    /\ ~CanAlloc(PushRing, frame_len)
    /\ crashed' = TRUE
    /\ UNCHANGED <<policy, ring, mem, frames, pushed, frame_len, shown, mixed>>

\* pop: the oldest frame leaves the deque and the ring, then its pixels are copied.
Pop ==
    /\ ~crashed
    /\ ~IsNull(ring)
    /\ frames # <<>>
    /\ frames' = Tail(frames)
    /\ ring' = Free(ring, Head(frames).len)
    /\ shown' = {mem[c] : c \in Cells(Head(frames))}
    /\ UNCHANGED <<policy, mem, pushed, frame_len, mixed, crashed>>

\* (mutant) clear resets the ring and forgets the deque.
Clear_RingOnly ==
    /\ ~crashed
    /\ ring' = [ring EXCEPT !.head = 0, !.tail = 0, !.size = 0]
    /\ UNCHANGED <<policy, mem, frames, pushed, frame_len, shown, mixed, crashed>>

\* clear, called by a seek from the UI thread.
Clear ==
    /\ ~crashed
    /\ frames' = <<>>
    /\ ring' = [ring EXCEPT !.head = 0, !.tail = 0, !.size = 0]
    /\ UNCHANGED <<policy, mem, pushed, frame_len, shown, mixed, crashed>>

\* The producer opens its media again; the cache is left as it is.
Reopen ==
    /\ ~crashed
    /\ frame_len' \in FrameLens
    /\ UNCHANGED <<policy, ring, mem, frames, pushed, shown, mixed, crashed>>

\* stop deletes the player and its cache; the next start makes new ones.
Renew ==
    /\ ~crashed
    /\ policy' = "SQUEEZE"
    /\ ring' = EmptyRing
    /\ mem' = [c \in 0 .. -1 |-> 0]
    /\ frames' = <<>>
    /\ frame_len' \in FrameLens
    /\ mixed' = FALSE
    /\ UNCHANGED <<pushed, shown, crashed>>

\* setPolicy, which takes no lock and touches nothing else.
SetPolicy ==
    /\ ~crashed
    /\ policy' \in Policies
    /\ UNCHANGED <<ring, mem, frames, pushed, frame_len, shown, mixed, crashed>>

Next ==
    SetPolicy \/ PushDiscard \/ Push \/ PushNoRoom \/ Pop \/ Clear \/ Reopen \/ Renew

Spec == Init /\ [][Next]_vars

-------------------------------------------------------------------------------
(* Properties                                                                  *)

Ring == [cap : Nat, head : Nat, tail : Nat, size : Nat]
Frame == [id : Nat \ {0}, off : Nat, len : FrameLens]

\* Types; the fields of the ring are size_t, so that none may fall below zero, and
\* the cache never holds more than cache_num frames (HFrameBuf::push).
TypeOK ==
    /\ policy \in {"SQUEEZE", "DISCARD"}
    /\ ring \in Ring
    /\ mem \in [0 .. ring.cap - 1 -> 0 .. MaxPush]
    /\ frames \in Seq(Frame)
    /\ Len(frames) <= CacheNum
    /\ pushed \in 0 .. MaxPush
    /\ frame_len \in FrameLens
    /\ shown \subseteq 0 .. MaxPush
    /\ mixed \in BOOLEAN
    /\ crashed \in BOOLEAN

\* No two cached frames share a byte of the ring and none runs past its end,
\* whatever lengths were pushed, squeezed out and popped (HRingBuf::alloc, free).
FramesDisjoint ==
    \A i \in 1 .. Len(frames) :
      /\ Cells(frames[i]) \subseteq 0 .. ring.cap - 1
      /\ \A j \in 1 .. i - 1 : Cells(frames[i]) \cap Cells(frames[j]) = {}

\* The bytes of some frames.
Total(fs) ==
    LET total[i \in 0 .. Len(fs)] == IF i = 0 THEN 0 ELSE total[i - 1] + fs[i].len
    IN total[Len(fs)]

\* The ring's _size is the number of bytes of the frames in the cache: what push and
\* pop book in HRingBuf agrees with what the deque holds.
SizeAccounts == ring.size = Total(frames)

\* The pixels of a cached frame are those it was pushed with: no later push wrote
\* over them (the copy in HFrameBuf::push).
FramesIntact ==
    \A i \in 1 .. Len(frames) :
      \A c \in Cells(frames[i]) : mem[c] = frames[i].id

\* The drawing timer never goes back in time: a pop delivers a frame pushed later
\* than the one it delivered before.
ShownForward ==
    [][\A a \in shown, b \in shown' : shown' # shown => a < b]_shown

\* "At this point the buffer certainly has space" (the comment in push): the copy
\* never meets a null address.
SpaceIsLeft == ~crashed

\* It holds of every player whose pictures never change their length.
SpaceIfUniform == crashed => mixed \/ frame_len * CacheNum # ring.cap

\* HFrameBuf is a bounded FIFO of whole frames: memory management is invisible.
Abstract == INSTANCE FrameQueue WITH
    Capacity <- CacheNum,
    dropOldest <- policy = "SQUEEZE",
    queue <- [i \in 1 .. Len(frames) |-> frames[i].id],
    accepted <- pushed

ImplementsQueue == Abstract!Spec
===============================================================================
