--------------------------- MODULE HFrameBufProofs ----------------------------
(* Proofs about HFrameBuf, for every cache size, every set of frame lengths    *)
(* and either policy.  The inductive invariant describes the layout of the     *)
(* ring: the cached frames form at most two ascending runs of bytes, an older  *)
(* one that starts at the head and a younger one that starts at byte 0.        *)
EXTENDS HFrameBuf, SequenceFacts, TLAPS

\* The byte after the last one of a frame.
End(f) == f.off + f.len

\* Booking: pos[i] is the number of bytes of the first i frames, pos[Len(fs)] the
\* ring's _size.
Booked(r, fs, pos) ==
    /\ pos \in [0 .. Len(fs) -> Nat]
    /\ pos[0] = 0
    /\ pos[Len(fs)] = r.size
    /\ \A i \in 1 .. Len(fs) : pos[i] = pos[i - 1] + fs[i].len
    /\ \A i, j \in 0 .. Len(fs) : i <= j => pos[i] <= pos[j]

\* Layout: the first m frames form the older run, the others the younger one.
Starts(r, fs, m) ==
    /\ m >= 1 => fs[1].off = r.head
    /\ m < Len(fs) => fs[m + 1].off = 0

Contiguous(fs, m) ==
    \A i \in 1 .. Len(fs) - 1 : i # m => fs[i + 1].off = End(fs[i])

Within(r, fs, m) ==
    \A i \in 1 .. Len(fs) :
      /\ i <= m => r.head <= fs[i].off /\ End(fs[i]) <= r.cap
      /\ i > m => End(fs[i]) <= r.head

Ascending(fs, m) ==
    \A i, j \in 1 .. Len(fs) : i < j /\ (j <= m \/ i > m) => End(fs[i]) <= fs[j].off

\* The first frame of the younger run did not fit behind the older run.
WrappedForRoom(r, fs, m) ==
    m < Len(fs) => fs[m + 1].len > r.cap - (IF m = 0 THEN r.head ELSE End(fs[m]))

TailFollows(r, fs) ==
    r.tail = IF Len(fs) = 0 THEN r.head
             ELSE IF End(fs[Len(fs)]) = r.cap THEN 0
             ELSE End(fs[Len(fs)])

Layout(r, fs, m) ==
    /\ r.head < r.cap
    /\ Starts(r, fs, m)
    /\ Contiguous(fs, m)
    /\ Within(r, fs, m)
    /\ Ascending(fs, m)
    /\ WrappedForRoom(r, fs, m)
    /\ TailFollows(r, fs)

RingInv(r, fs) ==
    /\ r \in Ring
    /\ fs \in Seq(Frame)
    /\ \E pos \in [0 .. Len(fs) -> Nat] : Booked(r, fs, pos)
    /\ \E m \in 0 .. Len(fs) : Layout(r, fs, m)

-------------------------------------------------------------------------------
\* What Tail and Head of a nonempty sequence of frames are.
LEMMA TailOfFrames ==
    ASSUME NEW fs \in Seq(Frame), fs # <<>>
    PROVE  /\ Tail(fs) \in Seq(Frame)
           /\ Len(fs) \in Nat \ {0}
           /\ Len(Tail(fs)) = Len(fs) - 1
           /\ \A i \in 1 .. Len(fs) - 1 : Tail(fs)[i] = fs[i + 1]
           /\ Head(fs) = fs[1]
           /\ \A i \in 1 .. Len(fs) : fs[i] \in Frame
  OBVIOUS

\* What Append to a sequence of frames is.
LEMMA AppendOfFrames ==
    ASSUME NEW fs \in Seq(Frame), NEW f \in Frame
    PROVE  /\ Append(fs, f) \in Seq(Frame)
           /\ Len(fs) \in Nat
           /\ Len(Append(fs, f)) = Len(fs) + 1
           /\ \A i \in 1 .. Len(fs) : Append(fs, f)[i] = fs[i]
           /\ Append(fs, f)[Len(fs) + 1] = f
           /\ \A i \in 1 .. Len(fs) : fs[i] \in Frame
  OBVIOUS

\* A frame has integer fields and at least one byte.
LEMMA FrameFields ==
    ASSUME NEW f \in Frame
    PROVE  f.off \in Nat /\ f.len \in Nat \ {0} /\ f.id \in Nat \ {0}
  BY FrameLensAssumption DEF Frame

\* The ring's size is zero exactly when no frame is cached, and no cached frame is
\* longer than it.
LEMMA SizeOfRing ==
    ASSUME NEW r, NEW fs, RingInv(r, fs)
    PROVE  /\ r.size = 0 <=> Len(fs) = 0
           /\ fs # <<>> => Head(fs).len <= r.size
  <1>1. fs \in Seq(Frame) /\ Len(fs) \in Nat
    BY DEF RingInv
  <1>2. PICK pos \in [0 .. Len(fs) -> Nat] : Booked(r, fs, pos)
    BY DEF RingInv
  <1>3. CASE fs = <<>>
    BY <1>2, <1>3 DEF Booked
  <1>4. CASE fs # <<>>
    <2>1. Head(fs) = fs[1] /\ Len(fs) \in Nat \ {0} /\ fs[1] \in Frame
      BY <1>1, <1>4, TailOfFrames
    <2>2. fs[1].len \in Nat \ {0}
      BY <2>1, FrameFields
    <2>3. pos[1] = pos[0] + fs[1].len /\ pos[0] = 0 /\ pos[1] <= pos[Len(fs)]
      BY <1>2, <2>1 DEF Booked
    <2>4. pos[Len(fs)] = r.size
      BY <1>2 DEF Booked
    <2> QED
      BY <2>1, <2>2, <2>3, <2>4
  <1> QED
    BY <1>3, <1>4

-------------------------------------------------------------------------------
\* Freeing the oldest frame keeps the books.
LEMMA FreeBooked ==
    ASSUME NEW r \in Ring, NEW fs \in Seq(Frame), fs # <<>>,
           \E pos \in [0 .. Len(fs) -> Nat] : Booked(r, fs, pos)
    PROVE  \E pos \in [0 .. Len(Tail(fs)) -> Nat] :
             Booked(Free(r, Head(fs).len), Tail(fs), pos)
  <1> DEFINE n == Len(fs)
             ts == Tail(fs)
             r2 == Free(r, Head(fs).len)
  <1>1. PICK pos \in [0 .. n -> Nat] : Booked(r, fs, pos)
    OBVIOUS
  <1>2. /\ n \in Nat \ {0} /\ Len(ts) = n - 1 /\ Head(fs) = fs[1]
        /\ \A i \in 1 .. n - 1 : ts[i] = fs[i + 1]
        /\ \A i \in 1 .. n : fs[i].len \in Nat \ {0}
    BY TailOfFrames, FrameFields
  <1>3. /\ pos[0] = 0 /\ pos[n] = r.size
        /\ \A i \in 1 .. n : pos[i] = pos[i - 1] + fs[i].len
        /\ \A i, j \in 0 .. n : i <= j => pos[i] <= pos[j]
        /\ \A i \in 0 .. n : pos[i] \in Nat
    BY <1>1 DEF Booked
  <1>4. pos[1] = fs[1].len
    BY <1>2, <1>3
  <1>5. r2.size = r.size - fs[1].len
    BY <1>2 DEF Free, Ring
  <1> DEFINE pos2 == [i \in 0 .. n - 1 |-> pos[i + 1] - pos[1]]
  <1>6. \A i \in 0 .. n - 1 : pos[i + 1] - pos[1] \in Nat
    BY <1>2, <1>3
  <1>7. pos2 \in [0 .. Len(ts) -> Nat]
    BY <1>2, <1>6
  <1>8. pos2[0] = 0 /\ pos2[Len(ts)] = r2.size
    BY <1>2, <1>3, <1>4, <1>5
  <1>9. \A i \in 1 .. Len(ts) : pos2[i] = pos2[i - 1] + ts[i].len
    <2>1. SUFFICES ASSUME NEW i \in 1 .. n - 1
                   PROVE  pos2[i] = pos2[i - 1] + ts[i].len
      BY <1>2
    <2>2. pos[i + 1] = pos[i] + fs[i + 1].len
      BY <1>2, <1>3
    <2>3. pos2[i] = pos[i + 1] - pos[1] /\ pos2[i - 1] = pos[i] - pos[1]
      BY <1>2
    <2> QED
      BY <1>2, <1>3, <2>2, <2>3
  <1>10. \A i, j \in 0 .. Len(ts) : i <= j => pos2[i] <= pos2[j]
    BY <1>2, <1>3
  <1> QED
    BY <1>7, <1>8, <1>9, <1>10 DEF Booked

\* Allocating a frame keeps the books.
LEMMA AllocBooked ==
    ASSUME NEW r \in Ring, NEW fs \in Seq(Frame), NEW f \in Frame,
           \E pos \in [0 .. Len(fs) -> Nat] : Booked(r, fs, pos)
    PROVE  \E pos \in [0 .. Len(Append(fs, f)) -> Nat] :
             Booked(Alloc(r, f.len), Append(fs, f), pos)
  <1> DEFINE n == Len(fs)
             ts == Append(fs, f)
             r2 == Alloc(r, f.len)
  <1>1. PICK pos \in [0 .. n -> Nat] : Booked(r, fs, pos)
    OBVIOUS
  <1>2. /\ n \in Nat /\ Len(ts) = n + 1
        /\ \A i \in 1 .. n : ts[i] = fs[i] /\ fs[i].len \in Nat
        /\ ts[n + 1] = f /\ f.len \in Nat
    BY AppendOfFrames, FrameFields
  <1>3. /\ pos[0] = 0 /\ pos[n] = r.size
        /\ \A i \in 1 .. n : pos[i] = pos[i - 1] + fs[i].len
        /\ \A i, j \in 0 .. n : i <= j => pos[i] <= pos[j]
        /\ \A i \in 0 .. n : pos[i] \in Nat
    BY <1>1 DEF Booked
  <1>4. r2.size = r.size + f.len
    BY <1>2 DEF Alloc, Ring
  <1> DEFINE pos2 == [i \in 0 .. n + 1 |-> IF i <= n THEN pos[i] ELSE pos[n] + f.len]
  <1>5. pos2 \in [0 .. Len(ts) -> Nat]
    BY <1>2, <1>3
  <1>6. pos2[0] = 0 /\ pos2[Len(ts)] = r2.size
    BY <1>2, <1>3, <1>4
  <1>7. \A i \in 1 .. Len(ts) : pos2[i] = pos2[i - 1] + ts[i].len
    BY <1>2, <1>3
  <1>8. \A i, j \in 0 .. Len(ts) : i <= j => pos2[i] <= pos2[j]
    BY <1>2, <1>3
  <1> QED
    BY <1>5, <1>6, <1>7, <1>8 DEF Booked

\* The fields of a ring after free and after alloc.
LEMMA RingFields ==
    ASSUME NEW r \in Ring, NEW len \in Nat
    PROVE  /\ Free(r, len).head = FreeHead(r, len)
           /\ Free(r, len).tail = r.tail
           /\ Free(r, len).cap = r.cap
           /\ Free(r, len).size = r.size - len
           /\ Alloc(r, len).tail = AllocTail(r, len)
           /\ Alloc(r, len).head = r.head
           /\ Alloc(r, len).cap = r.cap
           /\ Alloc(r, len).size = r.size + len
           /\ r.cap \in Nat /\ r.head \in Nat /\ r.tail \in Nat /\ r.size \in Nat
  BY DEF Free, Alloc, Ring

\* Freeing the oldest frame moves the head to the next frame, or to where the
\* younger run begins.
LEMMA FreeLayout ==
    ASSUME NEW r \in Ring, NEW fs \in Seq(Frame), fs # <<>>,
           NEW m \in 0 .. Len(fs), Layout(r, fs, m)
    PROVE  \E k \in 0 .. Len(Tail(fs)) :
             Layout(Free(r, Head(fs).len), Tail(fs), k)
  <1> DEFINE n == Len(fs)
             ts == Tail(fs)
             r2 == Free(r, Head(fs).len)
  <1>1. n \in Nat \ {0} /\ Len(ts) = n - 1 /\ Head(fs) = fs[1]
    BY TailOfFrames
  <1>2. \A i \in 1 .. n : /\ fs[i].len \in Nat /\ fs[i].off \in Nat /\ End(fs[i]) \in Nat
                          /\ fs[i].len > 0 /\ End(fs[i]) = fs[i].off + fs[i].len
    <2>1. \A i \in 1 .. n : fs[i] \in Frame
      BY TailOfFrames
    <2> QED
      BY <2>1, FrameFields DEF End
  <1>3. \A i \in 1 .. n - 1 : i + 1 \in 1 .. n /\ ts[i] = fs[i + 1]
    BY TailOfFrames
  <1>4. /\ r2.head = FreeHead(r, fs[1].len) /\ r2.tail = r.tail /\ r2.cap = r.cap
        /\ r.cap \in Nat /\ r.head \in Nat /\ r.tail \in Nat
    <2>1. fs[1].len \in Nat
      BY <1>1, <1>2
    <2> QED
      BY <1>1, <2>1, RingFields
  <1>5. /\ r.head < r.cap
        /\ m >= 1 => fs[1].off = r.head
        /\ m < n => fs[m + 1].off = 0
        /\ \A i \in 1 .. n - 1 : i # m => fs[i + 1].off = End(fs[i])
        /\ \A i \in 1 .. n : i <= m => r.head <= fs[i].off /\ End(fs[i]) <= r.cap
        /\ \A i \in 1 .. n : i > m => End(fs[i]) <= r.head
        /\ \A i, j \in 1 .. n : i < j /\ (j <= m \/ i > m) => End(fs[i]) <= fs[j].off
        /\ m < n => fs[m + 1].len > r.cap - (IF m = 0 THEN r.head ELSE End(fs[m]))
        /\ r.tail = IF End(fs[n]) = r.cap THEN 0 ELSE End(fs[n])
    BY <1>1 DEF Layout, Starts, Contiguous, Within, Ascending, WrappedForRoom, TailFollows
  <1>6. m \in 0 .. n
    OBVIOUS
  <1> HIDE DEF ts, n, r2
  \* It suffices to give the new length of the older run.
  <1>7. SUFFICES \E k \in 0 .. n - 1 :
           /\ r2.head < r2.cap
           /\ k >= 1 => fs[2].off = r2.head
           /\ k < n - 1 => fs[k + 2].off = 0
           /\ \A i \in 1 .. n - 2 : i # k => fs[i + 2].off = End(fs[i + 1])
           /\ \A i \in 1 .. n - 1 : i <= k => r2.head <= fs[i + 1].off /\ End(fs[i + 1]) <= r2.cap
           /\ \A i \in 1 .. n - 1 : i > k => End(fs[i + 1]) <= r2.head
           /\ \A i, j \in 1 .. n - 1 : i < j /\ (j <= k \/ i > k) => End(fs[i + 1]) <= fs[j + 1].off
           /\ k < n - 1 => fs[k + 2].len > r2.cap - (IF k = 0 THEN r2.head ELSE End(fs[k + 1]))
           /\ n = 1 => r2.tail = r2.head
           /\ n # 1 => r2.tail = IF End(fs[n]) = r2.cap THEN 0 ELSE End(fs[n])
    <2>1. PICK k \in 0 .. n - 1 :
           /\ r2.head < r2.cap
           /\ k >= 1 => fs[2].off = r2.head
           /\ k < n - 1 => fs[k + 2].off = 0
           /\ \A i \in 1 .. n - 2 : i # k => fs[i + 2].off = End(fs[i + 1])
           /\ \A i \in 1 .. n - 1 : i <= k => r2.head <= fs[i + 1].off /\ End(fs[i + 1]) <= r2.cap
           /\ \A i \in 1 .. n - 1 : i > k => End(fs[i + 1]) <= r2.head
           /\ \A i, j \in 1 .. n - 1 : i < j /\ (j <= k \/ i > k) => End(fs[i + 1]) <= fs[j + 1].off
           /\ k < n - 1 => fs[k + 2].len > r2.cap - (IF k = 0 THEN r2.head ELSE End(fs[k + 1]))
           /\ n = 1 => r2.tail = r2.head
           /\ n # 1 => r2.tail = IF End(fs[n]) = r2.cap THEN 0 ELSE End(fs[n])
      BY <1>7
    <2>2. Starts(r2, ts, k)
      BY <1>1, <1>3, <2>1 DEF Starts
    <2>3. Contiguous(ts, k)
      BY <1>1, <1>3, <2>1 DEF Contiguous
    <2>4. Within(r2, ts, k)
      BY <1>1, <1>3, <2>1 DEF Within
    <2>5. Ascending(ts, k)
      <3>1. SUFFICES ASSUME NEW i \in 1 .. n - 1, NEW j \in 1 .. n - 1,
                            i < j, j <= k \/ i > k
                     PROVE  End(ts[i]) <= ts[j].off
        BY <1>1 DEF Ascending
      <3>2. End(fs[i + 1]) <= fs[j + 1].off
        BY <2>1, <3>1
      <3> QED
        BY <1>3, <3>2
    <2>6. WrappedForRoom(r2, ts, k)
      BY <1>1, <1>3, <2>1 DEF WrappedForRoom
    <2>7. TailFollows(r2, ts)
      BY <1>1, <1>3, <2>1 DEF TailFollows
    <2>8. Layout(r2, ts, k)
      BY <2>1, <2>2, <2>3, <2>4, <2>5, <2>6, <2>7 DEF Layout
    <2> QED
      BY <1>1, <2>1, <2>8 DEF ts, r2, n
  \* Between the frames that stay, nothing changes.
  <1>8. \A i \in 1 .. n - 2 : i + 1 \in 1 .. n - 1 /\ (i + 1) + 1 = i + 2
    BY <1>1
  <1>9. \A i \in 1 .. n - 1 : i + 1 \in 1 .. n /\ End(fs[1]) \in Nat
    BY <1>1, <1>2
  \* Only the younger run was left: it becomes the older run.
  <1>10. CASE m = 0
    <2>1. 1 \in 1 .. n /\ m + 1 = 1
      BY <1>1, <1>10
    <2>2. fs[1].off = 0 /\ End(fs[1]) = fs[1].len /\ fs[1].len <= r.head
          /\ fs[1].len > r.cap - r.head /\ fs[1].len \in Nat
      <3>1. fs[1].off = 0 /\ fs[1].len > r.cap - r.head
        BY <1>1, <1>5, <1>10, <2>1
      <3>2. End(fs[1]) <= r.head
        BY <1>5, <1>10, <2>1
      <3>3. fs[1].len \in Nat /\ End(fs[1]) = fs[1].off + fs[1].len
        BY <1>2, <2>1
      <3> QED
        BY <3>1, <3>2, <3>3
    <2>3. r2.head = fs[1].len
      BY <1>4, <2>2 DEF FreeHead
    <2>4. r2.head < r2.cap
      BY <1>4, <1>5, <2>2, <2>3
    <2>5. n - 1 >= 1 => fs[2].off = r2.head
      BY <1>1, <1>5, <1>10, <2>2, <2>3
    <2>6. \A i \in 1 .. n - 2 : fs[i + 2].off = End(fs[i + 1])
      BY <1>5, <1>8, <1>10
    <2>7. \A i \in 1 .. n - 1 : r2.head <= fs[i + 1].off /\ End(fs[i + 1]) <= r2.cap
      <3>1. SUFFICES ASSUME NEW i \in 1 .. n - 1
                     PROVE  r2.head <= fs[i + 1].off /\ End(fs[i + 1]) <= r2.cap
        OBVIOUS
      <3>2. i + 1 \in 1 .. n /\ 1 < i + 1 /\ i + 1 > 0 /\ 1 > 0
        BY <1>1
      <3>3. End(fs[1]) <= fs[i + 1].off
        BY <1>5, <1>10, <2>1, <3>2
      <3>4. End(fs[i + 1]) <= r.head /\ End(fs[i + 1]) \in Nat
        BY <1>2, <1>5, <1>10, <3>2
      <3> QED
        BY <1>4, <1>5, <2>2, <2>3, <3>3, <3>4
    <2>8. \A i, j \in 1 .. n - 1 : i < j => End(fs[i + 1]) <= fs[j + 1].off
      BY <1>5, <1>9, <1>10
    <2>9. n = 1 => r2.tail = r2.head
      BY <1>4, <1>5, <2>2, <2>3
    <2>10. n # 1 => r2.tail = IF End(fs[n]) = r2.cap THEN 0 ELSE End(fs[n])
      BY <1>4, <1>5
    <2>11. n - 1 \in 0 .. n - 1
      BY <1>1
    <2> QED
      BY <1>1, <2>4, <2>5, <2>6, <2>7, <2>8, <2>9, <2>10, <2>11
  \* The oldest frame ended at the end of the ring.
  <1>11. CASE m # 0 /\ End(fs[1]) = r.cap
    <2>1. 1 \in 1 .. n /\ 1 <= m
      BY <1>1, <1>6, <1>11
    <2>2. fs[1].off = r.head /\ fs[1].len \in Nat /\ r.head + fs[1].len = r.cap
      BY <1>2, <1>5, <1>11, <2>1
    <2>3. r2.head = 0
      BY <1>4, <2>2 DEF FreeHead
    <2>4. m = 1
      <3>1. SUFFICES ASSUME m >= 2 PROVE FALSE
        BY <1>6, <2>1
      <3>2. 2 \in 1 .. n /\ 2 <= m /\ 1 < 2
        BY <1>1, <1>6, <3>1
      <3>3. End(fs[2]) <= r.cap /\ End(fs[1]) <= fs[2].off
        BY <1>5, <2>1, <3>2
      <3>4. End(fs[2]) = fs[2].off + fs[2].len /\ fs[2].len > 0
            /\ fs[2].len \in Nat /\ fs[2].off \in Nat
        BY <1>2, <3>2
      <3> QED
        BY <1>4, <1>11, <3>3, <3>4
    <2>5. n - 1 >= 1 => fs[2].off = r2.head
      BY <1>1, <1>5, <2>3, <2>4
    <2>6. \A i \in 1 .. n - 2 : fs[i + 2].off = End(fs[i + 1])
      <3>1. SUFFICES ASSUME NEW i \in 1 .. n - 2
                     PROVE  fs[i + 2].off = End(fs[i + 1])
        OBVIOUS
      <3>2. i + 1 \in 1 .. n - 1 /\ i + 1 # m /\ (i + 1) + 1 = i + 2
        BY <1>1, <2>4
      <3>3. fs[(i + 1) + 1].off = End(fs[i + 1])
        BY <1>5, <3>2
      <3> QED
        BY <3>2, <3>3
    <2>7. \A i \in 1 .. n - 1 : r2.head <= fs[i + 1].off /\ End(fs[i + 1]) <= r2.cap
      <3>1. SUFFICES ASSUME NEW i \in 1 .. n - 1
                     PROVE  r2.head <= fs[i + 1].off /\ End(fs[i + 1]) <= r2.cap
        OBVIOUS
      <3>2. i + 1 \in 1 .. n /\ i + 1 > m
        BY <1>1, <2>4
      <3>3. End(fs[i + 1]) <= r.head /\ End(fs[i + 1]) \in Nat /\ fs[i + 1].off \in Nat
        BY <1>2, <1>5, <3>2
      <3> QED
        BY <1>4, <1>5, <2>3, <3>3
    <2>8. \A i, j \in 1 .. n - 1 : i < j => End(fs[i + 1]) <= fs[j + 1].off
      <3>1. SUFFICES ASSUME NEW i \in 1 .. n - 1, NEW j \in 1 .. n - 1, i < j
                     PROVE  End(fs[i + 1]) <= fs[j + 1].off
        OBVIOUS
      <3>2. i + 1 \in 1 .. n /\ j + 1 \in 1 .. n /\ i + 1 < j + 1 /\ i + 1 > m
        BY <1>1, <2>4, <3>1
      <3> QED
        BY <1>5, <3>2
    <2>9. n = 1 => r2.tail = r2.head
      BY <1>4, <1>5, <1>11, <2>3
    <2>10. n # 1 => r2.tail = IF End(fs[n]) = r2.cap THEN 0 ELSE End(fs[n])
      BY <1>4, <1>5
    <2>11. n - 1 \in 0 .. n - 1 /\ r2.head < r2.cap
      BY <1>1, <1>4, <1>5, <2>3
    <2> QED
      BY <1>1, <2>5, <2>6, <2>7, <2>8, <2>9, <2>10, <2>11
  \* The oldest frame ended before the end of the ring.
  <1>12. CASE m # 0 /\ End(fs[1]) # r.cap
    <2>1. 1 \in 1 .. n /\ 1 <= m
      BY <1>1, <1>6, <1>12
    <2>2. fs[1].off = r.head /\ fs[1].len \in Nat /\ r.head + fs[1].len = End(fs[1])
          /\ End(fs[1]) <= r.cap /\ End(fs[1]) \in Nat /\ fs[1].len > 0
      BY <1>2, <1>5, <2>1
    <2>3. r2.head = End(fs[1]) /\ r2.head < r2.cap
      BY <1>4, <1>12, <2>2 DEF FreeHead
    <2>4. m - 1 \in 0 .. n - 1 /\ (m - 1) + 2 = m + 1 /\ (m - 1) + 1 = m
      BY <1>1, <1>6, <2>1
    <2>5. m - 1 >= 1 => fs[2].off = r2.head
      <3>1. SUFFICES ASSUME m - 1 >= 1 PROVE fs[2].off = r2.head
        OBVIOUS
      <3>2. 1 \in 1 .. n - 1 /\ 1 # m /\ 1 + 1 = 2
        BY <1>1, <1>6, <3>1
      <3>3. fs[1 + 1].off = End(fs[1])
        BY <1>5, <3>2
      <3> QED
        BY <2>3, <3>2, <3>3
    <2>6. \A i \in 1 .. n - 2 : i # m - 1 => fs[i + 2].off = End(fs[i + 1])
      <3>1. SUFFICES ASSUME NEW i \in 1 .. n - 2, i # m - 1
                     PROVE  fs[i + 2].off = End(fs[i + 1])
        OBVIOUS
      <3>2. i + 1 \in 1 .. n - 1 /\ i + 1 # m /\ (i + 1) + 1 = i + 2
        BY <1>1, <1>6, <3>1
      <3>3. fs[(i + 1) + 1].off = End(fs[i + 1])
        BY <1>5, <3>2
      <3> QED
        BY <3>2, <3>3
    <2>7. \A i \in 1 .. n - 1 : i <= m - 1 => r2.head <= fs[i + 1].off /\ End(fs[i + 1]) <= r2.cap
      <3>1. SUFFICES ASSUME NEW i \in 1 .. n - 1, i <= m - 1
                     PROVE  r2.head <= fs[i + 1].off /\ End(fs[i + 1]) <= r2.cap
        OBVIOUS
      <3>2. i + 1 \in 1 .. n /\ i + 1 <= m /\ 1 < i + 1
        BY <1>1, <1>6, <3>1
      <3>3. End(fs[i + 1]) <= r.cap /\ End(fs[1]) <= fs[i + 1].off
        BY <1>5, <2>1, <3>2
      <3> QED
        BY <1>4, <2>3, <3>3
    <2>8. \A i \in 1 .. n - 1 : i > m - 1 => End(fs[i + 1]) <= r2.head
      <3>1. SUFFICES ASSUME NEW i \in 1 .. n - 1, i > m - 1
                     PROVE  End(fs[i + 1]) <= r2.head
        OBVIOUS
      <3>2. i + 1 \in 1 .. n /\ i + 1 > m
        BY <1>1, <1>6, <3>1
      <3>3. End(fs[i + 1]) <= r.head /\ End(fs[i + 1]) \in Nat
        BY <1>2, <1>5, <3>2
      <3> QED
        BY <1>4, <2>2, <2>3, <3>3
    <2>9. \A i, j \in 1 .. n - 1 :
            i < j /\ (j <= m - 1 \/ i > m - 1) => End(fs[i + 1]) <= fs[j + 1].off
      <3>1. SUFFICES ASSUME NEW i \in 1 .. n - 1, NEW j \in 1 .. n - 1, i < j,
                            j <= m - 1 \/ i > m - 1
                     PROVE  End(fs[i + 1]) <= fs[j + 1].off
        OBVIOUS
      <3>2. i + 1 \in 1 .. n /\ j + 1 \in 1 .. n /\ i + 1 < j + 1
            /\ (j + 1 <= m \/ i + 1 > m)
        BY <1>1, <1>6, <3>1
      <3> QED
        BY <1>5, <3>2
    <2>10. m - 1 < n - 1 =>
             /\ fs[m + 1].off = 0
             /\ fs[m + 1].len > r2.cap - (IF m - 1 = 0 THEN r2.head ELSE End(fs[m]))
      <3>1. SUFFICES ASSUME m < n
                     PROVE  /\ fs[m + 1].off = 0
                            /\ fs[m + 1].len > r2.cap - (IF m - 1 = 0 THEN r2.head ELSE End(fs[m]))
        BY <1>1, <1>6
      <3>2. fs[m + 1].off = 0 /\ fs[m + 1].len > r.cap - End(fs[m])
        BY <1>5, <1>12, <3>1
      <3>3. CASE m = 1
        BY <1>4, <2>3, <3>2, <3>3
      <3>4. CASE m # 1
        <4>1. m - 1 # 0
          BY <1>6, <3>4
        <4> QED
          BY <1>4, <3>2, <4>1
      <3> QED
        BY <3>3, <3>4
    <2>11. n = 1 => r2.tail = r2.head
      BY <1>4, <1>5, <1>12, <2>3
    <2>12. n # 1 => r2.tail = IF End(fs[n]) = r2.cap THEN 0 ELSE End(fs[n])
      BY <1>4, <1>5
    <2> QED
      BY <2>3, <2>4, <2>5, <2>6, <2>7, <2>8, <2>9, <2>10, <2>11, <2>12
  <1> QED
    BY <1>10, <1>11, <1>12

\* Allocating a frame appends it to the older run while that one ends below the
\* end of the ring and leaves room, and to the younger run otherwise.
LEMMA AllocLayout ==
    ASSUME NEW r \in Ring, NEW fs \in Seq(Frame), NEW f \in Frame,
           NEW m \in 0 .. Len(fs), Layout(r, fs, m),
           r.size = 0 <=> Len(fs) = 0,
           CanAlloc(r, f.len), f.off = AllocOffset(r, f.len)
    PROVE  \E k \in 0 .. Len(Append(fs, f)) :
             Layout(Alloc(r, f.len), Append(fs, f), k)
  <1> DEFINE n == Len(fs)
             ts == Append(fs, f)
             r2 == Alloc(r, f.len)
             len == f.len
             end == f.off + f.len
  <1>1. n \in Nat /\ Len(ts) = n + 1 /\ ts[n + 1] = f /\ \A i \in 1 .. n : ts[i] = fs[i]
    BY AppendOfFrames
  <1>2. /\ \A i \in 1 .. n : /\ fs[i].len \in Nat /\ fs[i].off \in Nat /\ End(fs[i]) \in Nat
                             /\ fs[i].len > 0 /\ End(fs[i]) = fs[i].off + fs[i].len
        /\ len \in Nat /\ len > 0 /\ f.off \in Nat /\ end \in Nat /\ End(f) = end
    <2>1. \A i \in 1 .. n : fs[i] \in Frame
      BY AppendOfFrames
    <2> QED
      BY <2>1, FrameFields DEF End
  <1>3. /\ r2.tail = AllocTail(r, len) /\ r2.head = r.head /\ r2.cap = r.cap
        /\ r.cap \in Nat /\ r.head \in Nat /\ r.tail \in Nat /\ r.size \in Nat
    BY <1>2, RingFields
  <1>4. /\ r.head < r.cap
        /\ m >= 1 => fs[1].off = r.head
        /\ m < n => fs[m + 1].off = 0
        /\ \A i \in 1 .. n - 1 : i # m => fs[i + 1].off = End(fs[i])
        /\ \A i \in 1 .. n : i <= m => r.head <= fs[i].off /\ End(fs[i]) <= r.cap
        /\ \A i \in 1 .. n : i > m => End(fs[i]) <= r.head
        /\ \A i, j \in 1 .. n : i < j /\ (j <= m \/ i > m) => End(fs[i]) <= fs[j].off
        /\ m < n => fs[m + 1].len > r.cap - (IF m = 0 THEN r.head ELSE End(fs[m]))
        /\ r.tail = IF n = 0 THEN r.head ELSE IF End(fs[n]) = r.cap THEN 0 ELSE End(fs[n])
    BY DEF Layout, Starts, Contiguous, Within, Ascending, WrappedForRoom, TailFollows
  <1>5. m \in 0 .. n /\ (r.size = 0 <=> n = 0)
    OBVIOUS
  <1>6. n > 0 => /\ n \in 1 .. n
                 /\ m < n => End(fs[n]) <= r.head /\ r.tail = End(fs[n])
                 /\ m = n => r.head < End(fs[n]) /\ End(fs[n]) <= r.cap
    <2>1. SUFFICES ASSUME n > 0
                   PROVE  /\ n \in 1 .. n
                          /\ m < n => End(fs[n]) <= r.head /\ r.tail = End(fs[n])
                          /\ m = n => r.head < End(fs[n]) /\ End(fs[n]) <= r.cap
      OBVIOUS
    <2>2. n \in 1 .. n
      BY <1>1, <2>1
    <2>3. m < n => End(fs[n]) <= r.head /\ r.tail = End(fs[n])
      BY <1>2, <1>3, <1>4, <2>1, <2>2
    <2>4. m = n => r.head < End(fs[n]) /\ End(fs[n]) <= r.cap
      BY <1>2, <1>3, <1>4, <2>1, <2>2, SMTT(30)
    <2> QED
      BY <2>2, <2>3, <2>4
  \* What the address says of the runs.
  <1>7. \/ m = n /\ f.off = r.tail /\ r.cap - r.tail >= len /\ FitsAtTail(r, len)
           /\ (n > 0 => r.tail = End(fs[n]))
        \/ m = n /\ f.off = 0 /\ len <= r.head /\ ~FitsAtTail(r, len)
           /\ len > r.cap - (IF n = 0 THEN r.head ELSE End(fs[n]))
        \/ m < n /\ f.off = End(fs[n]) /\ end <= r.head /\ ~FitsAtTail(r, len)
    <2>1. CASE FitsAtTail(r, len)
      <3>1. r.head < r.tail \/ n = 0
        BY <1>5, <2>1 DEF FitsAtTail, Unwrapped
      <3>2. m = n /\ (n > 0 => r.tail = End(fs[n]))
        BY <1>1, <1>3, <1>4, <1>5, <1>6, <3>1
      <3>3. r.cap - r.tail >= len /\ ~FitsAtBase(r, len)
        BY <1>2, <1>3, <2>1 DEF FitsAtTail, FitsAtBase
      <3> QED
        BY <2>1, <3>2, <3>3 DEF AllocOffset
    <2>2. CASE FitsAtBase(r, len)
      <3>1. r.head < r.tail \/ n = 0
        BY <1>5, <2>2 DEF FitsAtBase, Unwrapped
      <3>2. m = n /\ r.tail = (IF n = 0 THEN r.head ELSE End(fs[n]))
        BY <1>1, <1>3, <1>4, <1>5, <1>6, <3>1
      <3>3. r.cap - r.tail < len /\ len <= r.head /\ ~FitsAtTail(r, len)
        BY <1>2, <1>3, <2>2 DEF FitsAtTail, FitsAtBase
      <3>4. f.off = 0
        BY <2>2 DEF AllocOffset
      <3>5. len > r.cap - (IF n = 0 THEN r.head ELSE End(fs[n]))
        BY <1>2, <1>3, <3>2, <3>3
      <3> QED
        BY <3>2, <3>3, <3>4, <3>5
    <2>3. CASE ~FitsAtTail(r, len) /\ FitsBetween(r, len)
      <3>1. n > 0 /\ r.tail <= r.head /\ ~Unwrapped(r) /\ r.head - r.tail >= len
        BY <1>1, <1>3, <1>5, <2>3 DEF FitsBetween, Unwrapped
      <3>2. f.off = r.tail
        BY <3>1 DEF AllocOffset, FitsAtBase
      <3>3. CASE m < n
        BY <1>2, <1>3, <1>6, <2>3, <3>1, <3>2, <3>3
      <3>4. CASE m = n
        <4>1. End(fs[n]) = r.cap /\ r.tail = 0
          BY <1>3, <1>4, <1>6, <3>1, <3>4
        <4> QED
          BY <1>2, <1>3, <2>3, <3>1, <3>2, <3>4, <4>1
      <3> QED
        BY <1>5, <3>3, <3>4
    <2> QED
      BY <2>1, <2>2, <2>3 DEF CanAlloc
  <1>8. r2.tail = IF end = r2.cap THEN 0 ELSE end
    <2>1. CASE FitsAtTail(r, len)
      <3>1. f.off = r.tail
        BY <1>2, <1>3, <2>1 DEF FitsAtTail, FitsAtBase, AllocOffset
      <3> QED
        BY <1>2, <1>3, <2>1, <3>1 DEF AllocTail
    <2>2. CASE ~FitsAtTail(r, len)
      <3>1. end <= r.head
        BY <1>1, <1>2, <1>3, <1>7, <2>2
      <3> QED
        BY <1>2, <1>3, <1>4, <2>2, <3>1 DEF AllocTail
    <2> QED
      BY <2>1, <2>2
  <1> HIDE DEF ts, n, r2, len, end
  \* It suffices to give the new length of the older run.
  <1>9. ASSUME NEW k \in {m, m + 1},
               k = m + 1 => m = n /\ f.off = r.tail /\ r.cap - r.tail >= len
                            /\ (n > 0 => r.tail = End(fs[n])),
               k = m => \/ m = n /\ f.off = 0 /\ len <= r.head
                           /\ len > r.cap - (IF n = 0 THEN r.head ELSE End(fs[n]))
                        \/ m < n /\ f.off = End(fs[n]) /\ end <= r.head
        PROVE  k \in 0 .. n + 1 /\ Layout(r2, ts, k)
    <2>1. k \in 0 .. n + 1 /\ end = f.off + len
      BY <1>1, <1>5, <1>9 DEF end, len
    <2>2. Starts(r2, ts, k)
      <3>1. k >= 1 => ts[1].off = r2.head
        BY <1>1, <1>3, <1>4, <1>5, <1>9
      <3>2. k < n + 1 => ts[k + 1].off = 0
        BY <1>1, <1>3, <1>4, <1>5, <1>9
      <3> QED
        BY <1>1, <3>1, <3>2 DEF Starts
    <2>3. Contiguous(ts, k)
      <3>1. SUFFICES ASSUME NEW i \in 1 .. n, i # k
                     PROVE  ts[i + 1].off = End(ts[i])
        BY <1>1 DEF Contiguous
      <3>2. CASE i = n
        BY <1>1, <1>4, <1>5, <1>9, <3>1, <3>2
      <3>3. CASE i # n
        <4>1. i \in 1 .. n - 1 /\ i + 1 \in 1 .. n /\ i # m
          BY <1>1, <1>5, <1>9, <3>1, <3>3
        <4> QED
          BY <1>1, <1>4, <4>1
      <3> QED
        BY <3>2, <3>3
    <2>4. Within(r2, ts, k)
      <3>1. SUFFICES ASSUME NEW i \in 1 .. n + 1
                     PROVE  /\ i <= k => r.head <= ts[i].off /\ End(ts[i]) <= r.cap
                            /\ i > k => End(ts[i]) <= r.head
        BY <1>1, <1>3 DEF Within
      <3>2. CASE i = n + 1
        <4>1. k = m + 1 => r.head <= f.off /\ end <= r.cap
          BY <1>1, <1>2, <1>3, <1>4, <1>6, <1>9, <2>1
        <4>2. k = m => end <= r.head
          BY <1>1, <1>2, <1>3, <1>9, <2>1
        <4> QED
          BY <1>1, <1>2, <1>5, <1>9, <3>2, <4>1, <4>2
      <3>3. CASE i # n + 1
        <4>1. i \in 1 .. n /\ (i <= k <=> i <= m)
          BY <1>1, <1>5, <1>9, <3>1, <3>3
        <4> QED
          BY <1>1, <1>4, <4>1
      <3> QED
        BY <3>2, <3>3
    <2>5. Ascending(ts, k)
      <3>1. SUFFICES ASSUME NEW i \in 1 .. n + 1, NEW j \in 1 .. n + 1, i < j,
                            j <= k \/ i > k
                     PROVE  End(ts[i]) <= ts[j].off
        BY <1>1 DEF Ascending
      <3>2. i \in 1 .. n /\ ts[i] = fs[i]
        BY <1>1, <3>1
      <3>3. CASE j = n + 1
        <4>1. n > 0 /\ f.off = End(fs[n])
          BY <1>1, <1>5, <1>9, <3>1, <3>2, <3>3
        <4>2. CASE i = n
          BY <1>1, <1>2, <3>2, <3>3, <4>1, <4>2
        <4>3. CASE i # n
          <5>1. n \in 1 .. n /\ i < n /\ (n <= m \/ i > m)
            BY <1>1, <1>5, <1>9, <3>1, <3>2, <3>3, <4>3
          <5>2. End(fs[i]) <= fs[n].off
            BY <1>4, <3>2, <5>1
          <5> QED
            BY <1>1, <1>2, <3>2, <3>3, <4>1, <5>1, <5>2, SMTT(30)
        <4> QED
          BY <4>2, <4>3
      <3>4. CASE j # n + 1
        <4>1. j \in 1 .. n /\ (j <= m \/ i > m)
          BY <1>1, <1>5, <1>9, <3>1, <3>2, <3>4
        <4> QED
          BY <1>1, <1>4, <3>1, <3>2, <4>1
      <3> QED
        BY <3>3, <3>4
    <2>6. WrappedForRoom(r2, ts, k)
      <3>1. SUFFICES ASSUME k < n + 1
                     PROVE  ts[k + 1].len > r.cap - (IF k = 0 THEN r.head ELSE End(ts[k]))
        BY <1>1, <1>3 DEF WrappedForRoom
      <3>2. k = m
        BY <1>1, <1>5, <1>9, <3>1
      <3>3. m # 0 => m \in 1 .. n /\ ts[m] = fs[m]
        BY <1>1, <1>5
      <3>4. CASE m = n
        BY <1>1, <1>9, <3>2, <3>3, <3>4 DEF len
      <3>5. CASE m < n
        <4>1. m + 1 \in 1 .. n /\ ts[m + 1] = fs[m + 1]
          BY <1>1, <1>5, <3>5
        <4> QED
          BY <1>4, <3>2, <3>3, <3>5, <4>1
      <3> QED
        <4>1. m = n \/ m < n
          BY <1>1, <1>5
        <4> QED
          BY <3>4, <3>5, <4>1
    <2>7. TailFollows(r2, ts)
      BY <1>1, <1>2, <1>8 DEF TailFollows
    <2> QED
      BY <1>3, <1>4, <2>1, <2>2, <2>3, <2>4, <2>5, <2>6, <2>7 DEF Layout
  <1>10. \E k \in 0 .. n + 1 : Layout(r2, ts, k)
    <2>1. m # m + 1
      BY <1>5
    <2> QED
      BY <1>7, <1>9, <2>1
  <1>11. Len(ts) = n + 1
    BY <1>1
  <1> QED
    BY <1>10, <1>11 DEF ts, r2, n, len

\* The runs of bytes of a layout lie inside the ring and do not meet.
LEMMA LayoutDisjoint ==
    ASSUME NEW r \in Ring, NEW fs \in Seq(Frame), NEW m \in 0 .. Len(fs),
           Layout(r, fs, m)
    PROVE  \A i \in 1 .. Len(fs) :
             /\ Cells(fs[i]) \subseteq 0 .. r.cap - 1
             /\ \A j \in 1 .. i - 1 : Cells(fs[i]) \cap Cells(fs[j]) = {}
  <1> DEFINE n == Len(fs)
  <1>1. n \in Nat /\ m \in 0 .. n /\ r.cap \in Nat /\ r.head \in Nat
    BY DEF Ring
  <1>2. \A i \in 1 .. n : /\ fs[i].len \in Nat /\ fs[i].off \in Nat /\ End(fs[i]) \in Nat
                          /\ fs[i].len > 0 /\ End(fs[i]) = fs[i].off + fs[i].len
    BY FrameFields DEF End
  <1>3. \A i \in 1 .. n : Cells(fs[i]) = {c \in Nat : fs[i].off <= c /\ c < End(fs[i])}
    BY <1>2 DEF Cells
  <1>4. /\ r.head < r.cap
        /\ \A i \in 1 .. n : i <= m => r.head <= fs[i].off /\ End(fs[i]) <= r.cap
        /\ \A i \in 1 .. n : i > m => End(fs[i]) <= r.head
        /\ \A i, j \in 1 .. n : i < j /\ (j <= m \/ i > m) => End(fs[i]) <= fs[j].off
    BY DEF Layout, Within, Ascending
  <1> HIDE DEF n
  <1>5. SUFFICES ASSUME NEW i \in 1 .. n
                 PROVE  /\ Cells(fs[i]) \subseteq 0 .. r.cap - 1
                        /\ \A j \in 1 .. i - 1 : Cells(fs[i]) \cap Cells(fs[j]) = {}
    BY DEF n
  <1>6. End(fs[i]) <= r.cap
    <2>1. End(fs[i]) \in Nat
      BY <1>2
    <2>2. CASE i <= m
      BY <1>4, <2>2
    <2>3. CASE i > m
      <3>1. End(fs[i]) <= r.head
        BY <1>4, <2>3
      <3> QED
        BY <1>1, <1>4, <2>1, <3>1
    <2> QED
      BY <1>1, <2>2, <2>3
  <1>7. Cells(fs[i]) \subseteq 0 .. r.cap - 1
    <2>1. SUFFICES ASSUME NEW c \in Cells(fs[i]) PROVE c \in 0 .. r.cap - 1
      OBVIOUS
    <2>2. c \in Nat /\ c < End(fs[i]) /\ End(fs[i]) \in Nat
      BY <1>2, <1>3
    <2> QED
      BY <1>1, <1>6, <2>2
  <1>8. ASSUME NEW j \in 1 .. i - 1
        PROVE  Cells(fs[i]) \cap Cells(fs[j]) = {}
    <2>1. j \in 1 .. n /\ j < i
      BY <1>1
    <2>2. End(fs[j]) <= fs[i].off \/ End(fs[i]) <= fs[j].off
      <3>1. CASE i <= m \/ j > m
        BY <1>4, <2>1, <3>1
      <3>2. CASE i > m /\ j <= m
        BY <1>1, <1>2, <1>4, <2>1, <3>2
      <3> QED
        BY <1>1, <2>1, <3>1, <3>2
    <2>3. SUFFICES ASSUME NEW c \in Cells(fs[i]), c \in Cells(fs[j]) PROVE FALSE
      OBVIOUS
    <2>4. c \in Nat /\ fs[i].off <= c /\ c < End(fs[i]) /\ fs[j].off <= c /\ c < End(fs[j])
      BY <1>3, <2>1, <2>3
    <2>5. fs[i].off \in Nat /\ End(fs[i]) \in Nat /\ fs[j].off \in Nat /\ End(fs[j]) \in Nat
      BY <1>2, <2>1
    <2> QED
      BY <2>2, <2>4, <2>5
  <1> QED
    BY <1>7, <1>8

-------------------------------------------------------------------------------
(* The invariant of HFrameBuf                                                  *)

\* Before the first push the ring has no bytes and the deque is empty.
Unsized == IsNull(ring) => ring = EmptyRing /\ frames = <<>>

\* Once sized, the ring has room for at least one byte, its books agree with the
\* deque and its layout is that of the two runs.
Sized ==
    ~IsNull(ring) => RingInv(ring, frames)

IInv == TypeOK /\ Unsized /\ Sized /\ FramesIntact

\* The number of bytes of a new ring is a positive natural number.
LEMMA NewCapacity ==
    ASSUME NEW len \in FrameLens
    PROVE  len * CacheNum \in Nat /\ len * CacheNum > 0 /\ len \in Nat /\ len > 0
  <1>1. len \in Nat \ {0} /\ CacheNum \in Nat \ {0}
    BY FrameLensAssumption, CacheNumAssumption
  <1>2. \A a, b \in Nat \ {0} : a * b \in Nat /\ a * b > 0
    OBVIOUS
  <1> QED
    BY <1>1, <1>2

\* The empty ring, once it has bytes, is laid out as no frames.
LEMMA FreshRing ==
    ASSUME NEW n \in Nat, n > 0
    PROVE  RingInv([EmptyRing EXCEPT !.cap = n], <<>>)
  <1> DEFINE r == [EmptyRing EXCEPT !.cap = n]
  <1>1. r = [cap |-> n, head |-> 0, tail |-> 0, size |-> 0]
    BY DEF EmptyRing
  <1>2. r \in Ring /\ <<>> \in Seq(Frame) /\ Len(<<>>) = 0
    BY <1>1 DEF Ring
  <1>3. \E pos \in [0 .. 0 -> Nat] : Booked(r, <<>>, pos)
    <2>1. [i \in 0 .. 0 |-> 0] \in [0 .. 0 -> Nat]
      OBVIOUS
    <2>2. Booked(r, <<>>, [i \in 0 .. 0 |-> 0])
      BY <1>1, <1>2 DEF Booked
    <2> QED
      BY <2>1, <2>2
  <1>4. Layout(r, <<>>, 0)
    BY <1>1, <1>2 DEF Layout, Starts, Contiguous, Within, Ascending, WrappedForRoom,
                      TailFollows
  <1> HIDE DEF r
  <1>5. RingInv(r, <<>>)
    <2>1. 0 \in 0 .. 0
      OBVIOUS
    <2> QED
      BY <1>2, <1>3, <1>4, <2>1 DEF RingInv
  <1> QED
    BY <1>5 DEF r

\* free keeps the invariant of the ring.
LEMMA FreeRingInv ==
    ASSUME NEW r, NEW fs, RingInv(r, fs), fs # <<>>
    PROVE  /\ RingInv(Free(r, Head(fs).len), Tail(fs))
           /\ Free(r, Head(fs).len).cap = r.cap
  <1>1. r \in Ring /\ fs \in Seq(Frame)
    BY DEF RingInv
  <1>2. Head(fs) \in Frame /\ Head(fs).len \in Nat /\ Head(fs).len <= r.size
        /\ Tail(fs) \in Seq(Frame)
    BY <1>1, TailOfFrames, FrameFields, SizeOfRing
  <1>3. PICK m \in 0 .. Len(fs) : Layout(r, fs, m)
    BY DEF RingInv
  <1>4. \E k \in 0 .. Len(Tail(fs)) : Layout(Free(r, Head(fs).len), Tail(fs), k)
    BY <1>1, <1>3, FreeLayout
  <1>5. \E pos \in [0 .. Len(Tail(fs)) -> Nat] :
          Booked(Free(r, Head(fs).len), Tail(fs), pos)
    BY <1>1, FreeBooked DEF RingInv
  <1>6. Free(r, Head(fs).len) \in Ring /\ Free(r, Head(fs).len).cap = r.cap
    <2>1. r.head \in Nat /\ r.cap \in Nat /\ r.size \in Nat
      BY <1>1, <1>2, RingFields
    <2>2. FreeHead(r, Head(fs).len) \in Nat /\ r.size - Head(fs).len \in Nat
      BY <1>2, <2>1 DEF FreeHead
    <2>3. Free(r, Head(fs).len) \in Ring
      BY <1>1, <2>2 DEF Free, Ring
    <2> QED
      BY <1>1, <1>2, <2>3, RingFields
  <1> QED
    BY <1>2, <1>4, <1>5, <1>6 DEF RingInv

\* alloc keeps the invariant of the ring, and the new frame's bytes are in the ring
\* and meet those of no cached frame.
LEMMA AllocRingInv ==
    ASSUME NEW r, NEW fs, RingInv(r, fs), NEW f \in Frame,
           CanAlloc(r, f.len), f.off = AllocOffset(r, f.len)
    PROVE  /\ RingInv(Alloc(r, f.len), Append(fs, f))
           /\ Alloc(r, f.len).cap = r.cap
           /\ Cells(f) \subseteq 0 .. r.cap - 1
           /\ \A j \in 1 .. Len(fs) : Cells(f) \cap Cells(fs[j]) = {}
  <1>1. r \in Ring /\ fs \in Seq(Frame) /\ f.len \in Nat
    BY FrameFields DEF RingInv
  <1>2. PICK m \in 0 .. Len(fs) : Layout(r, fs, m)
    BY DEF RingInv
  <1>3. r.size = 0 <=> Len(fs) = 0
    BY SizeOfRing
  <1>4. PICK k \in 0 .. Len(Append(fs, f)) : Layout(Alloc(r, f.len), Append(fs, f), k)
    BY <1>1, <1>2, <1>3, AllocLayout
  <1>5. \E pos \in [0 .. Len(Append(fs, f)) -> Nat] :
          Booked(Alloc(r, f.len), Append(fs, f), pos)
    BY <1>1, AllocBooked DEF RingInv
  <1>6. /\ Append(fs, f) \in Seq(Frame) /\ Len(Append(fs, f)) = Len(fs) + 1
        /\ Len(fs) \in Nat /\ Append(fs, f)[Len(fs) + 1] = f
        /\ \A i \in 1 .. Len(fs) : Append(fs, f)[i] = fs[i]
    BY <1>1, AppendOfFrames
  <1>7. Alloc(r, f.len) \in Ring /\ Alloc(r, f.len).cap = r.cap
    <2>1. r.tail \in Nat /\ r.cap \in Nat /\ r.size \in Nat
      BY <1>1, RingFields
    <2>2. AllocTail(r, f.len) \in Nat /\ r.size + f.len \in Nat
      BY <1>1, <2>1 DEF AllocTail, AllocOffset
    <2>3. Alloc(r, f.len) \in Ring
      BY <1>1, <2>2 DEF Alloc, Ring
    <2> QED
      BY <1>1, <2>3, RingFields
  <1>8. /\ Cells(f) \subseteq 0 .. r.cap - 1
        /\ \A j \in 1 .. Len(fs) : Cells(f) \cap Cells(fs[j]) = {}
    <2>1. \A i \in 1 .. Len(fs) + 1 :
            /\ Cells(Append(fs, f)[i]) \subseteq 0 .. r.cap - 1
            /\ \A j \in 1 .. i - 1 : Cells(Append(fs, f)[i]) \cap Cells(Append(fs, f)[j]) = {}
      BY <1>4, <1>6, <1>7, LayoutDisjoint
    <2>2. Len(fs) + 1 \in 1 .. Len(fs) + 1 /\ (Len(fs) + 1) - 1 = Len(fs)
      BY <1>6
    <2> QED
      BY <1>6, <2>1, <2>2
  <1>9. RingInv(Alloc(r, f.len), Append(fs, f))
    BY <1>4, <1>5, <1>6, <1>7 DEF RingInv
  <1> QED
    BY <1>7, <1>8, <1>9

-------------------------------------------------------------------------------
\* The invariant holds initially.
LEMMA InitInv == Init => IInv
  <1> SUFFICES ASSUME Init PROVE IInv
    OBVIOUS
  <1>1. ring \in Ring /\ IsNull(ring)
    BY DEF Init, EmptyRing, Ring, IsNull
  <1>2. frames \in Seq(Frame) /\ Len(frames) = 0 /\ frames = <<>>
    BY DEF Init
  <1>3. mem \in [0 .. ring.cap - 1 -> 0 .. MaxPush]
    <2>1. ring.cap = 0
      BY DEF Init, EmptyRing
    <2>2. 0 .. -1 = {}
      OBVIOUS
    <2>3. ring.cap - 1 = -1
      BY <2>1
    <2> QED
      BY <2>2, <2>3 DEF Init
  <1>4. Len(frames) <= CacheNum /\ 0 \in 0 .. MaxPush
    BY <1>2, CacheNumAssumption, MaxPushAssumption
  <1>5. TypeOK
    BY <1>1, <1>2, <1>3, <1>4 DEF TypeOK, Init
  <1>6. FramesIntact
    BY <1>2 DEF FramesIntact, Init
  <1> QED
    BY <1>1, <1>2, <1>5, <1>6 DEF IInv, Unsized, Sized, Init

\* Pop keeps the invariant.
LEMMA PopInv == IInv /\ Pop => IInv'
  <1> SUFFICES ASSUME IInv, Pop PROVE IInv'
    OBVIOUS
  <1> USE DEF IInv
  <1>1. /\ RingInv(ring, frames) /\ frames # <<>> /\ ~IsNull(ring)
        /\ frames' = Tail(frames) /\ ring' = Free(ring, Head(frames).len)
        /\ shown' = {mem[c] : c \in Cells(Head(frames))}
        /\ UNCHANGED <<policy, mem, pushed, frame_len, mixed, crashed>>
    BY DEF Pop, Sized
  <1>2. RingInv(ring', frames') /\ ring'.cap = ring.cap
    BY <1>1, FreeRingInv
  <1>3. ring' \in Ring /\ frames' \in Seq(Frame)
    BY <1>2 DEF RingInv
  <1>4. /\ Len(frames) \in Nat \ {0} /\ Len(frames') = Len(frames) - 1
        /\ \A i \in 1 .. Len(frames) - 1 : frames'[i] = frames[i + 1]
        /\ Head(frames) = frames[1]
    BY <1>1, TailOfFrames DEF TypeOK
  <1>5. \A c \in Cells(frames[1]) : mem[c] = frames[1].id /\ c \in 0 .. ring.cap - 1
    <2>1. 1 \in 1 .. Len(frames)
      BY <1>4
    <2>2. PICK m \in 0 .. Len(frames) : Layout(ring, frames, m)
      BY <1>1 DEF RingInv
    <2>3. Cells(frames[1]) \subseteq 0 .. ring.cap - 1
      BY <2>1, <2>2, LayoutDisjoint DEF TypeOK
    <2> QED
      BY <2>1, <2>3 DEF FramesIntact
  <1>6. shown' \subseteq 0 .. MaxPush
    BY <1>1, <1>4, <1>5 DEF TypeOK
  <1>7. TypeOK'
    BY <1>1, <1>2, <1>3, <1>4, <1>6, CacheNumAssumption DEF TypeOK
  <1>8. FramesIntact'
    BY <1>1, <1>4 DEF FramesIntact
  <1>9. Unsized' /\ Sized'
    BY <1>1, <1>2 DEF Unsized, Sized, IsNull
  <1> QED
    BY <1>6, <1>7, <1>8, <1>9

\* Clear keeps the invariant.
LEMMA ClearInv == IInv /\ Clear => IInv'
  <1> SUFFICES ASSUME IInv, Clear PROVE IInv'
    OBVIOUS
  <1> USE DEF IInv
  <1>1. /\ frames' = <<>> /\ ring' = [ring EXCEPT !.head = 0, !.tail = 0, !.size = 0]
        /\ UNCHANGED <<policy, mem, pushed, frame_len, shown, mixed, crashed>>
    BY DEF Clear
  <1>2. /\ ring' = [cap |-> ring.cap, head |-> 0, tail |-> 0, size |-> 0]
        /\ ring.cap \in Nat /\ ring' \in Ring
    BY <1>1 DEF TypeOK, Ring
  <1>3. frames' \in Seq(Frame) /\ Len(frames') = 0
    BY <1>1
  <1>4. TypeOK'
    BY <1>1, <1>2, <1>3, CacheNumAssumption DEF TypeOK
  <1>5. FramesIntact'
    BY <1>1, <1>3 DEF FramesIntact
  <1>6. Unsized'
    BY <1>1, <1>2 DEF Unsized, IsNull, EmptyRing
  <1>7. Sized'
    <2>1. SUFFICES ASSUME ring.cap # 0 PROVE RingInv(ring', frames')
      BY <1>2 DEF Sized, IsNull
    <2>2. RingInv([EmptyRing EXCEPT !.cap = ring.cap], <<>>)
      BY <1>2, <2>1, FreshRing
    <2>3. [EmptyRing EXCEPT !.cap = ring.cap] = ring'
      BY <1>2 DEF EmptyRing
    <2> QED
      BY <1>1, <2>2, <2>3
  <1> QED
    BY <1>4, <1>5, <1>6, <1>7

\* What a push starts from: the ring after squeezing and sizing.
LEMMA PushStart ==
    ASSUME IInv, Pushing
    PROVE  /\ RingInv(PushRing, KeptFrames)
           /\ ~IsNull(PushRing)
           /\ PushMem \in [0 .. PushRing.cap - 1 -> 0 .. MaxPush]
           /\ KeptFrames \in Seq(Frame)
           /\ Len(KeptFrames) < CacheNum
           /\ \A i \in 1 .. Len(KeptFrames) : \A c \in Cells(KeptFrames[i]) :
                PushMem[c] = KeptFrames[i].id
  <1> USE DEF IInv
  <1>1. CASE IsNull(ring)
    <2>1. frames = <<>> /\ ring = EmptyRing /\ Len(frames) = 0
      BY <1>1 DEF Unsized
    <2>2. ~Full
      BY <2>1, CacheNumAssumption DEF Full
    <2>3. KeptFrames = <<>> /\ KeptRing = EmptyRing
      BY <2>1, <2>2 DEF KeptFrames, KeptRing
    <2>4. /\ PushRing = [EmptyRing EXCEPT !.cap = frame_len * CacheNum]
          /\ PushMem = [c \in 0 .. frame_len * CacheNum - 1 |-> 0]
      BY <2>3 DEF PushRing, PushMem, IsNull, EmptyRing, Resize
    <2>5. frame_len * CacheNum \in Nat /\ frame_len * CacheNum > 0
      BY NewCapacity DEF TypeOK
    <2>6. RingInv(PushRing, KeptFrames)
      BY <2>3, <2>4, <2>5, FreshRing
    <2>7. PushRing.cap = frame_len * CacheNum
      BY <2>4 DEF EmptyRing
    <2>8. PushMem \in [0 .. PushRing.cap - 1 -> 0 .. MaxPush]
      BY <2>4, <2>7, MaxPushAssumption
    <2> QED
      BY <2>3, <2>5, <2>6, <2>7, <2>8, CacheNumAssumption DEF IsNull
  <1>2. CASE ~IsNull(ring) /\ ~Full
    <2>1. KeptFrames = frames /\ KeptRing = ring /\ PushRing = ring /\ PushMem = mem
      BY <1>2 DEF KeptFrames, KeptRing, PushRing, PushMem
    <2>2. Len(frames) < CacheNum
      BY <1>2, CacheNumAssumption DEF Full, TypeOK
    <2> QED
      BY <1>2, <2>1, <2>2 DEF Sized, TypeOK, FramesIntact
  <1>3. CASE ~IsNull(ring) /\ Full
    <2>1. frames # <<>> /\ frames \in Seq(Frame) /\ Len(frames) \in Nat
      BY <1>3, CacheNumAssumption DEF Full, TypeOK
    <2>2. /\ Len(Tail(frames)) = Len(frames) - 1 /\ Tail(frames) \in Seq(Frame)
          /\ \A i \in 1 .. Len(frames) - 1 : Tail(frames)[i] = frames[i + 1]
      BY <2>1, TailOfFrames
    <2>3. KeptFrames = Tail(frames) /\ KeptRing = Free(ring, Head(frames).len)
      BY <1>3 DEF KeptFrames, KeptRing
    <2>4. RingInv(KeptRing, KeptFrames) /\ KeptRing.cap = ring.cap
      BY <1>3, <2>1, <2>3, FreeRingInv DEF Sized
    <2>5. PushRing = KeptRing /\ PushMem = mem /\ ~IsNull(KeptRing)
      BY <1>3, <2>4 DEF PushRing, PushMem, IsNull
    <2>6. Len(KeptFrames) < CacheNum
      BY <2>1, <2>2, <2>3, CacheNumAssumption DEF TypeOK
    <2>7. \A i \in 1 .. Len(KeptFrames) : \A c \in Cells(KeptFrames[i]) :
            PushMem[c] = KeptFrames[i].id
      BY <2>1, <2>2, <2>3, <2>5 DEF FramesIntact
    <2> QED
      BY <2>2, <2>3, <2>4, <2>5, <2>6, <2>7 DEF TypeOK
  <1> QED
    BY <1>1, <1>2, <1>3

\* Push keeps the invariant.
LEMMA PushInv == IInv /\ Push => IInv'
  <1> SUFFICES ASSUME IInv, Push PROVE IInv'
    OBVIOUS
  <1>1. TypeOK /\ Pushing /\ CanAlloc(PushRing, frame_len)
    BY DEF IInv, Push
  <1>2. /\ ring' = Alloc(PushRing, frame_len)
        /\ mem' = [c \in DOMAIN PushMem |->
                     IF c \in Cells(NewFrame) THEN NewFrame.id ELSE PushMem[c]]
        /\ frames' = Append(KeptFrames, NewFrame)
        /\ pushed' = pushed + 1
        /\ mixed' \in BOOLEAN
        /\ UNCHANGED <<policy, frame_len, shown, crashed>>
    BY DEF Push
  <1>3. /\ RingInv(PushRing, KeptFrames) /\ ~IsNull(PushRing)
        /\ PushMem \in [0 .. PushRing.cap - 1 -> 0 .. MaxPush]
        /\ KeptFrames \in Seq(Frame) /\ Len(KeptFrames) < CacheNum
        /\ \A i \in 1 .. Len(KeptFrames) : \A c \in Cells(KeptFrames[i]) :
             PushMem[c] = KeptFrames[i].id
    BY <1>1, PushStart
  <1>4. pushed + 1 \in 0 .. MaxPush /\ pushed + 1 \in Nat \ {0}
    BY <1>1, MaxPushAssumption DEF TypeOK, Pushing
  <1>5. PushRing \in Ring /\ PushRing.cap \in Nat /\ PushRing.tail \in Nat
    BY <1>3 DEF RingInv, Ring
  <1>6. /\ NewFrame \in Frame /\ NewFrame.id = pushed + 1
        /\ NewFrame.len = frame_len /\ NewFrame.off = AllocOffset(PushRing, frame_len)
    <2>1. AllocOffset(PushRing, frame_len) \in Nat
      BY <1>5 DEF AllocOffset
    <2> QED
      BY <1>1, <1>4, <2>1 DEF NewFrame, Frame, TypeOK
  <1>7. /\ RingInv(ring', frames') /\ ring'.cap = PushRing.cap
        /\ Cells(NewFrame) \subseteq 0 .. PushRing.cap - 1
        /\ \A j \in 1 .. Len(KeptFrames) : Cells(NewFrame) \cap Cells(KeptFrames[j]) = {}
    BY <1>1, <1>2, <1>3, <1>6, AllocRingInv
  <1>8. /\ Len(KeptFrames) \in Nat /\ Len(frames') = Len(KeptFrames) + 1
        /\ \A i \in 1 .. Len(KeptFrames) : frames'[i] = KeptFrames[i]
        /\ frames'[Len(KeptFrames) + 1] = NewFrame
    BY <1>2, <1>3, <1>6, AppendOfFrames
  <1>9. mem' \in [0 .. ring'.cap - 1 -> 0 .. MaxPush]
    BY <1>2, <1>3, <1>4, <1>6, <1>7
  <1>10. TypeOK'
    <2>1. ring' \in Ring /\ frames' \in Seq(Frame)
      BY <1>7 DEF RingInv
    <2>2. Len(frames') <= CacheNum
      BY <1>3, <1>8, CacheNumAssumption
    <2> QED
      BY <1>1, <1>2, <1>4, <1>9, <2>1, <2>2 DEF TypeOK
  <1>11. FramesIntact'
    <2>1. SUFFICES ASSUME NEW i \in 1 .. Len(frames'), NEW c \in Cells(frames'[i])
                   PROVE  mem'[c] = frames'[i].id
      BY DEF FramesIntact, Cells
    <2>2. CASE i = Len(KeptFrames) + 1
      <3>1. c \in Cells(NewFrame) /\ frames'[i] = NewFrame
        BY <1>8, <2>1, <2>2
      <3>2. c \in DOMAIN PushMem
        BY <1>3, <1>7, <3>1
      <3> QED
        BY <1>2, <3>1, <3>2
    <2>3. CASE i # Len(KeptFrames) + 1
      <3>1. i \in 1 .. Len(KeptFrames) /\ frames'[i] = KeptFrames[i]
        BY <1>8, <2>1, <2>3
      <3>2. PICK m \in 0 .. Len(KeptFrames) : Layout(PushRing, KeptFrames, m)
        BY <1>3 DEF RingInv
      <3>3. c \in 0 .. PushRing.cap - 1
        BY <1>3, <1>5, <2>1, <3>1, <3>2, LayoutDisjoint
      <3>4. c \in DOMAIN PushMem /\ c \notin Cells(NewFrame)
        BY <1>3, <1>7, <2>1, <3>1, <3>3
      <3>5. PushMem[c] = KeptFrames[i].id
        BY <1>3, <2>1, <3>1
      <3> QED
        BY <1>2, <3>1, <3>4, <3>5
    <2> QED
      BY <2>2, <2>3
  <1>12. Unsized' /\ Sized'
    BY <1>3, <1>7 DEF Unsized, Sized, IsNull
  <1> QED
    BY <1>10, <1>11, <1>12 DEF IInv

\* A new player's cache satisfies the invariant.
LEMMA RenewInv == IInv /\ Renew => IInv'
  <1> SUFFICES ASSUME IInv, Renew PROVE IInv'
    OBVIOUS
  <1>1. /\ policy' = "SQUEEZE" /\ ring' = EmptyRing /\ frames' = <<>>
        /\ mem' = [c \in 0 .. -1 |-> 0] /\ frame_len' \in FrameLens /\ mixed' = FALSE
        /\ UNCHANGED <<pushed, shown, crashed>>
    BY DEF Renew
  <1>2. ring' \in Ring /\ ring'.cap = 0
    BY <1>1 DEF EmptyRing, Ring
  <1>3. frames' \in Seq(Frame) /\ Len(frames') = 0
    BY <1>1
  <1>4. mem' \in [0 .. ring'.cap - 1 -> 0 .. MaxPush]
    BY <1>1, <1>2
  <1>5. TypeOK'
    <2>1. Len(frames') <= CacheNum
      BY <1>3, CacheNumAssumption
    <2>2. /\ pushed \in 0 .. MaxPush /\ shown \subseteq 0 .. MaxPush
          /\ crashed \in BOOLEAN
      BY DEF TypeOK, IInv
    <2> QED
      BY <1>1, <1>2, <1>3, <1>4, <2>1, <2>2 DEF TypeOK
  <1>6. FramesIntact'
    BY <1>1, <1>3 DEF FramesIntact, IInv
  <1>7. Unsized' /\ Sized'
    BY <1>1, <1>2 DEF Unsized, Sized, IsNull
  <1> QED
    BY <1>5, <1>6, <1>7 DEF IInv

\* Every step keeps the invariant.
LEMMA NextInv == IInv /\ [Next]_vars => IInv'
  <1> SUFFICES ASSUME IInv, [Next]_vars PROVE IInv'
    OBVIOUS
  <1>1. CASE PushDiscard
    BY <1>1 DEF PushDiscard, vars, IInv, TypeOK, Unsized, Sized, FramesIntact
  <1>2. CASE Push
    BY <1>2, PushInv
  <1>3. CASE PushNoRoom
    BY <1>3 DEF PushNoRoom, IInv, TypeOK, Unsized, Sized, FramesIntact
  <1>4. CASE Pop
    BY <1>4, PopInv
  <1>5. CASE Clear
    BY <1>5, ClearInv
  <1>6. CASE Reopen
    BY <1>6 DEF Reopen, IInv, TypeOK, Unsized, Sized, FramesIntact
  <1>7. CASE SetPolicy
    BY <1>7, PoliciesAssumption
       DEF SetPolicy, IInv, TypeOK, Unsized, Sized, FramesIntact
  <1>8. CASE UNCHANGED vars
    BY <1>8 DEF vars, IInv, TypeOK, Unsized, Sized, FramesIntact
  <1>9. CASE Renew
    BY <1>9, RenewInv
  <1> QED
    BY <1>1, <1>2, <1>3, <1>4, <1>5, <1>6, <1>7, <1>8, <1>9 DEF Next

\* The invariant implies that cached frames share no byte.
LEMMA InvDisjoint == IInv => FramesDisjoint
  <1> SUFFICES ASSUME IInv PROVE FramesDisjoint
    OBVIOUS
  <1>1. CASE IsNull(ring)
    BY <1>1 DEF IInv, Unsized, FramesDisjoint
  <1>2. CASE ~IsNull(ring)
    <2>1. RingInv(ring, frames)
      BY <1>2 DEF IInv, Sized
    <2>2. PICK m \in 0 .. Len(frames) : Layout(ring, frames, m)
      BY <2>1 DEF RingInv
    <2> QED
      BY <2>1, <2>2, LayoutDisjoint DEF RingInv, FramesDisjoint
  <1> QED
    BY <1>1, <1>2

\* The invariant holds in every reachable state of the frame cache.
THEOREM Invariance == Spec => []IInv
  BY InitInv, NextInv, PTL DEF Spec

\* The frame cache is type correct: no counter of HRingBuf falls below zero and the
\* deque never holds more than cache_num frames (HFrameBuf::push, pop, clear).
THEOREM TypeCorrect == Spec => []TypeOK
  <1>1. IInv => TypeOK
    BY DEF IInv
  <1> QED
    BY Invariance, <1>1, PTL

\* HRingBuf never gives two cached frames a common byte and never runs past its end,
\* for frames of any lengths.
THEOREM NoFramesOverlap == Spec => []FramesDisjoint
  BY Invariance, InvDisjoint, PTL

\* A cached frame keeps the pixels it was pushed with until it is popped or dropped: no
\* later push writes over them (HFrameBuf::push).
THEOREM PixelsIntact == Spec => []FramesIntact
  <1>1. IInv => FramesIntact
    BY DEF IInv
  <1> QED
    BY Invariance, <1>1, PTL

-------------------------------------------------------------------------------
(* A player whose pictures keep their length never lacks space                  *)

Times(a, u) == a * u

\* In slots of u bytes: the ring is CacheNum slots, of which n are used, from slot h on.
Wrap(x) == IF x < CacheNum THEN x ELSE x - CacheNum

Slots(r, n, u, h) ==
    /\ r.cap = Times(CacheNum, u)
    /\ r.head = Times(h, u)
    /\ r.tail = Times(Wrap(h + n), u)
    /\ r.size = Times(n, u)

Uniform(r, fs) ==
    \E u \in Nat \ {0}, h \in 0 .. CacheNum - 1 :
        /\ Slots(r, Len(fs), u, h)
        /\ \A i \in 1 .. Len(fs) : fs[i].len = u

UniformInv ==
    /\ ~mixed /\ ~IsNull(ring) => Uniform(ring, frames)
    /\ SpaceIfUniform

\* The arithmetic of slots.
LEMMA TimesFacts ==
    ASSUME NEW u \in Nat \ {0}
    PROVE  /\ \A a \in Int : Times(a, u) \in Int
           /\ \A a \in Nat : Times(a, u) \in Nat
           /\ Times(0, u) = 0 /\ Times(1, u) = u
           /\ \A a \in Int : Times(a + 1, u) = Times(a, u) + u
           /\ \A a, b \in Int : a < b => Times(a, u) + u <= Times(b, u)
           /\ \A a, b \in Int : Times(a, u) = Times(b, u) => a = b
  <1>1. \A a \in Int : a * u \in Int
    OBVIOUS
  <1>2. \A a \in Nat : a * u \in Nat
    OBVIOUS
  <1>3. \A a \in Int : (a + 1) * u = a * u + u
    OBVIOUS
  <1>4. ASSUME NEW a \in Int, NEW b \in Int, a < b PROVE a * u + u <= b * u
    <2> DEFINE d == b - a - 1
    <2>1. d \in Nat /\ b = a + 1 + d
      BY <1>4
    <2> HIDE DEF d
    <2>2. d * u \in Nat
      BY <2>1
    <2>3. b * u = a * u + u + d * u
      BY <2>1
    <2>4. a * u \in Int /\ b * u \in Int
      OBVIOUS
    <2> QED
      BY <2>2, <2>3, <2>4
  <1>5. ASSUME NEW a \in Int, NEW b \in Int, a * u = b * u PROVE a = b
    <2>1. a * u \in Int /\ b * u \in Int
      OBVIOUS
    <2>2. ~(a < b) /\ ~(b < a)
      BY <1>4, <1>5, <2>1
    <2> QED
      BY <2>2
  <1>6. 0 * u = 0 /\ 1 * u = u
    OBVIOUS
  <1> QED
    BY <1>1, <1>2, <1>3, <1>4, <1>5, <1>6 DEF Times

\* A ring of equal slots that is not full hands out the next slot.
LEMMA SlotAlloc ==
    ASSUME NEW r \in Ring, NEW n \in 0 .. CacheNum - 1, NEW u \in Nat \ {0},
           NEW h \in 0 .. CacheNum - 1, Slots(r, n, u, h)
    PROVE  CanAlloc(r, u) /\ Slots(Alloc(r, u), n + 1, u, h)
  <1> DEFINE t == Wrap(h + n)
  <1> USE CacheNumAssumption
  <1>t. /\ Times(0, u) = 0
        /\ \A a \in Int : Times(a, u) \in Int
    BY TimesFacts
  <1>n. \A a \in Int : Times(a + 1, u) = Times(a, u) + u
    BY TimesFacts
  <1>l. \A a, b \in Int : a < b => Times(a, u) + u <= Times(b, u)
    BY TimesFacts
  <1>e. \A a, b \in Int : Times(a, u) = Times(b, u) => a = b
    BY TimesFacts
  <1>1. /\ t \in 0 .. CacheNum - 1
        /\ Wrap(h + (n + 1)) = IF t + 1 = CacheNum THEN 0 ELSE t + 1
        /\ n = 0 => t = h
        /\ n # 0 /\ ~(h < t) => t < h
    BY DEF Wrap
  <1> HIDE DEF t
  <1>2. /\ r.cap = Times(CacheNum, u) /\ r.head = Times(h, u) /\ r.tail = Times(t, u)
        /\ r.size = Times(n, u)
        /\ r.cap \in Nat /\ r.head \in Nat /\ r.tail \in Nat /\ r.size \in Nat
    BY DEF Slots, Ring, t
  <1>3. r.tail + u <= r.cap
    <2>1. t \in Int /\ CacheNum \in Int /\ t < CacheNum
      BY <1>1
    <2> QED
      BY <1>2, <1>l, <2>1
  <1>4. r.size = 0 <=> n = 0
    BY <1>2, <1>t, <1>e
  <1>5. r.head < r.tail <=> h < t
    <2>1. h \in Int /\ t \in Int
      BY <1>1
    <2>2. h < t => r.head < r.tail
      BY <1>2, <1>l, <2>1
    <2>3. t < h => r.tail < r.head
      BY <1>2, <1>l, <2>1
    <2>4. t = h => r.tail = r.head
      BY <1>2
    <2> QED
      BY <1>2, <2>1, <2>2, <2>3, <2>4
  <1>6. Alloc(r, u).cap = r.cap /\ Alloc(r, u).head = r.head
        /\ Alloc(r, u).size = r.size + u /\ Alloc(r, u).tail = AllocTail(r, u)
    BY DEF Alloc, Ring
  <1>7. Times(t + 1, u) = r.tail + u /\ Times(n + 1, u) = r.size + u
    BY <1>1, <1>2, <1>n
  <1>8. r.tail + u = r.cap <=> t + 1 = CacheNum
    <2>1. t + 1 \in Int /\ CacheNum \in Int
      BY <1>1
    <2>2. Times(t + 1, u) = Times(CacheNum, u) <=> t + 1 = CacheNum
      BY <1>e, <2>1
    <2> QED
      BY <1>2, <1>7, <2>2
  <1>9. CASE Unwrapped(r)
    <2>1. FitsAtTail(r, u) /\ ~FitsAtBase(r, u)
      BY <1>2, <1>3, <1>9 DEF FitsAtTail, FitsAtBase
    <2>2. AllocTail(r, u) = Times(Wrap(h + (n + 1)), u)
      <3>1. CASE t + 1 = CacheNum
        BY <1>1, <1>8, <1>2, <1>t, <2>1, <3>1 DEF AllocTail
      <3>2. CASE t + 1 # CacheNum
        BY <1>1, <1>2, <1>7, <1>8, <2>1, <3>2 DEF AllocTail, AllocOffset
      <3> QED
        BY <3>1, <3>2
    <2> QED
      BY <1>2, <1>6, <1>7, <2>1, <2>2 DEF CanAlloc, Slots
  <1>10. CASE ~Unwrapped(r)
    <2>1. t < h
      BY <1>1, <1>4, <1>5, <1>10 DEF Unwrapped
    <2>2. r.tail + u <= r.head
      <3>1. h \in Int /\ t \in Int
        BY <1>1
      <3> QED
        BY <1>2, <1>l, <2>1, <3>1
    <2>3. FitsBetween(r, u) /\ ~FitsAtTail(r, u) /\ ~FitsAtBase(r, u)
      BY <1>2, <1>10, <2>2 DEF FitsBetween, FitsAtTail, FitsAtBase
    <2>4. t + 1 # CacheNum
      BY <1>1, <2>1
    <2>5. AllocTail(r, u) = Times(Wrap(h + (n + 1)), u)
      BY <1>1, <1>2, <1>7, <2>3, <2>4 DEF AllocTail, AllocOffset
    <2> QED
      BY <1>2, <1>6, <1>7, <2>3, <2>5 DEF CanAlloc, Slots
  <1> QED
    BY <1>9, <1>10

\* It takes its oldest slot back.
LEMMA SlotFree ==
    ASSUME NEW r \in Ring, NEW n \in 1 .. CacheNum, NEW u \in Nat \ {0},
           NEW h \in 0 .. CacheNum - 1, Slots(r, n, u, h)
    PROVE  Slots(Free(r, u), n - 1, u, Wrap(h + 1)) /\ Wrap(h + 1) \in 0 .. CacheNum - 1
  <1> USE CacheNumAssumption
  <1>t. /\ Times(0, u) = 0
        /\ \A a \in Int : Times(a, u) \in Int
    BY TimesFacts
  <1>n. \A a \in Int : Times(a + 1, u) = Times(a, u) + u
    BY TimesFacts
  <1>l. \A a, b \in Int : a < b => Times(a, u) + u <= Times(b, u)
    BY TimesFacts
  <1>e. \A a, b \in Int : Times(a, u) = Times(b, u) => a = b
    BY TimesFacts
  <1>1. /\ Wrap(h + 1) = IF h + 1 = CacheNum THEN 0 ELSE h + 1
        /\ Wrap(h + 1) \in 0 .. CacheNum - 1
        /\ Wrap(Wrap(h + 1) + (n - 1)) = Wrap(h + n)
    BY DEF Wrap
  <1>2. /\ r.cap = Times(CacheNum, u) /\ r.head = Times(h, u)
        /\ r.tail = Times(Wrap(h + n), u) /\ r.size = Times(n, u)
        /\ r.cap \in Nat /\ r.head \in Nat /\ r.tail \in Nat /\ r.size \in Nat
    BY DEF Slots, Ring
  <1>3. r.head + u <= r.cap
    <2>1. h \in Int /\ CacheNum \in Int /\ h < CacheNum
      OBVIOUS
    <2> QED
      BY <1>2, <1>l, <2>1
  <1>4. Times(h + 1, u) = r.head + u /\ Times(n - 1, u) = r.size - u
    <2>1. (n - 1) + 1 = n /\ n - 1 \in Int
      OBVIOUS
    <2>2. Times(n, u) = Times(n - 1, u) + u /\ Times(n - 1, u) \in Int
      BY <1>n, <1>t, <2>1
    <2>3. Times(h + 1, u) = Times(h, u) + u
      BY <1>n
    <2> QED
      BY <1>2, <2>2, <2>3
  <1>5. r.head + u = r.cap <=> h + 1 = CacheNum
    <2>1. h + 1 \in Int /\ CacheNum \in Int
      OBVIOUS
    <2>2. Times(h + 1, u) = Times(CacheNum, u) <=> h + 1 = CacheNum
      BY <1>e, <2>1
    <2> QED
      BY <1>2, <1>4, <2>2
  <1>6. FreeHead(r, u) = Times(Wrap(h + 1), u)
    <2>1. u <= r.cap - r.head
      BY <1>2, <1>3
    <2>2. CASE h + 1 = CacheNum
      BY <1>1, <1>2, <1>5, <1>t, <2>1, <2>2 DEF FreeHead
    <2>3. CASE h + 1 # CacheNum
      BY <1>1, <1>2, <1>4, <1>5, <2>1, <2>3 DEF FreeHead
    <2> QED
      BY <2>2, <2>3
  <1>7. /\ Free(r, u).cap = r.cap /\ Free(r, u).tail = r.tail
        /\ Free(r, u).size = r.size - u /\ Free(r, u).head = FreeHead(r, u)
    BY DEF Free, Ring
  <1> QED
    BY <1>1, <1>2, <1>4, <1>6, <1>7 DEF Slots
\* What a push finds, when the pictures have the length that sized the ring.
LEMMA UniformStart ==
    ASSUME IInv, UniformInv, Pushing, ~mixed, frame_len * CacheNum = PushRing.cap
    PROVE  /\ PushRing \in Ring /\ KeptFrames \in Seq(Frame)
           /\ Len(KeptFrames) \in 0 .. CacheNum - 1
           /\ frame_len \in Nat \ {0}
           /\ \E h \in 0 .. CacheNum - 1 : Slots(PushRing, Len(KeptFrames), frame_len, h)
           /\ \A i \in 1 .. Len(KeptFrames) : KeptFrames[i].len = frame_len
  <1> USE CacheNumAssumption
  <1>1. /\ PushRing \in Ring /\ KeptFrames \in Seq(Frame)
        /\ Len(KeptFrames) \in 0 .. CacheNum - 1
    <2>1. Len(KeptFrames) \in Nat /\ Len(KeptFrames) < CacheNum
      BY PushStart
    <2> QED
      BY <2>1, PushStart DEF RingInv
  <1>2. frame_len \in Nat \ {0} /\ frames \in Seq(Frame) /\ Len(frames) <= CacheNum
        /\ ring \in Ring
    BY FrameLensAssumption DEF IInv, TypeOK
  <1>3. CASE IsNull(ring)
    <2>1. frames = <<>> /\ ring = EmptyRing /\ Len(frames) = 0
      BY <1>3 DEF IInv, Unsized
    <2>2. ~Full
      BY <2>1 DEF Full
    <2>3. KeptFrames = <<>> /\ KeptRing = EmptyRing
      BY <2>1, <2>2 DEF KeptFrames, KeptRing
    <2>4. PushRing = [EmptyRing EXCEPT !.cap = frame_len * CacheNum]
      BY <2>3 DEF PushRing, IsNull, EmptyRing, Resize
    <2>5. /\ PushRing.head = 0 /\ PushRing.tail = 0 /\ PushRing.size = 0
          /\ PushRing.cap = frame_len * CacheNum
      BY <2>4 DEF EmptyRing
    <2>6. frame_len * CacheNum = Times(CacheNum, frame_len)
      BY <1>2 DEF Times
    <2>7. Times(0, frame_len) = 0 /\ Wrap(0 + 0) = 0
      BY <1>2, TimesFacts DEF Wrap
    <2>8. Slots(PushRing, 0, frame_len, 0) /\ 0 \in 0 .. CacheNum - 1
      BY <2>5, <2>6, <2>7 DEF Slots
    <2> QED
      BY <1>1, <1>2, <2>3, <2>8
  <1>4. CASE ~IsNull(ring)
    <2>1. PICK u \in Nat \ {0}, h \in 0 .. CacheNum - 1 :
              /\ Slots(ring, Len(frames), u, h)
              /\ \A i \in 1 .. Len(frames) : frames[i].len = u
      BY <1>4 DEF UniformInv, Uniform
    <2>2. PushRing = KeptRing /\ KeptRing.cap = ring.cap
      <3>1. KeptRing.cap = ring.cap
        BY <1>2 DEF KeptRing, Free, Ring
      <3> QED
        BY <1>4, <3>1 DEF PushRing, IsNull
    <2>3. u = frame_len
      <3>1. Times(CacheNum, u) = frame_len * CacheNum
        BY <2>1, <2>2 DEF Slots
      <3>2. u * CacheNum = frame_len * CacheNum
        BY <1>2, <3>1 DEF Times
      <3>3. Times(u, CacheNum) = Times(frame_len, CacheNum)
        BY <3>2 DEF Times
      <3>4. \A a, b \in Int : Times(a, CacheNum) = Times(b, CacheNum) => a = b
        BY TimesFacts
      <3> QED
        BY <1>2, <3>3, <3>4
    <2>4. CASE ~Full
      <3>1. KeptFrames = frames /\ PushRing = ring
        BY <2>2, <2>4 DEF KeptFrames, KeptRing
      <3> QED
        BY <1>1, <1>2, <2>1, <2>3, <3>1
    <2>5. CASE Full
      <3>1. Len(frames) \in 1 .. CacheNum /\ frames # <<>>
        BY <1>2, <2>5 DEF Full
      <3>2. /\ KeptFrames = Tail(frames) /\ Head(frames).len = u
            /\ PushRing = Free(ring, u) /\ Len(KeptFrames) = Len(frames) - 1
            /\ \A i \in 1 .. Len(KeptFrames) : KeptFrames[i].len = u
        BY <1>2, <2>1, <2>2, <2>5, <3>1, TailOfFrames DEF KeptFrames, KeptRing
      <3>3. /\ Slots(Free(ring, u), Len(frames) - 1, u, Wrap(h + 1))
            /\ Wrap(h + 1) \in 0 .. CacheNum - 1
        BY <1>2, <2>1, <3>1, SlotFree
      <3> QED
        BY <1>1, <1>2, <2>3, <3>2, <3>3
    <2> QED
      BY <2>4, <2>5
  <1> QED
    BY <1>3, <1>4

LEMMA UniformNext == IInv /\ UniformInv /\ [Next]_vars => UniformInv'
  <1> SUFFICES ASSUME IInv, UniformInv, [Next]_vars PROVE UniformInv'
    OBVIOUS
  <1> USE CacheNumAssumption
  <1>1. frames \in Seq(Frame) /\ Len(frames) <= CacheNum /\ ring \in Ring
        /\ frame_len \in Nat \ {0} /\ mixed \in BOOLEAN
    BY FrameLensAssumption DEF IInv, TypeOK
  <1>2. CASE Push
    <2>1. /\ ~crashed /\ crashed' = crashed /\ Pushing
          /\ mixed' = (mixed \/ frame_len * CacheNum # PushRing.cap)
          /\ ring' = Alloc(PushRing, frame_len) /\ frames' = Append(KeptFrames, NewFrame)
      BY <1>2 DEF Push, Pushing
    <2>2. ASSUME ~mixed' PROVE Uniform(ring', frames')
      <3>1. ~mixed /\ frame_len * CacheNum = PushRing.cap
        BY <2>1, <2>2
      <3>2. PICK h \in 0 .. CacheNum - 1 : Slots(PushRing, Len(KeptFrames), frame_len, h)
        BY <2>1, <3>1, UniformStart
      <3>3. /\ PushRing \in Ring /\ KeptFrames \in Seq(Frame)
            /\ Len(KeptFrames) \in 0 .. CacheNum - 1
            /\ \A i \in 1 .. Len(KeptFrames) : KeptFrames[i].len = frame_len
        BY <2>1, <3>1, UniformStart
      <3>4. Slots(ring', Len(KeptFrames) + 1, frame_len, h)
        BY <1>1, <2>1, <3>2, <3>3, SlotAlloc
      <3>5. NewFrame \in Frame /\ NewFrame.len = frame_len
        <4>1. /\ AllocOffset(PushRing, frame_len) \in Nat
              /\ pushed + 1 \in Nat \ {0} /\ frame_len \in FrameLens
          BY <3>3 DEF AllocOffset, Ring, IInv, TypeOK
        <4> QED
          BY <4>1 DEF NewFrame, Frame
      <3>6. /\ Len(frames') = Len(KeptFrames) + 1
            /\ \A i \in 1 .. Len(frames') : frames'[i].len = frame_len
        BY <2>1, <3>3, <3>5, AppendOfFrames
      <3> QED
        BY <1>1, <3>4, <3>6 DEF Uniform
    <2> QED
      BY <2>1, <2>2 DEF UniformInv, SpaceIfUniform
  <1>3. CASE PushNoRoom
    <2>1. /\ Pushing /\ ~CanAlloc(PushRing, frame_len)
          /\ UNCHANGED <<ring, frames, frame_len, mixed>>
      BY <1>3 DEF PushNoRoom
    <2>2. ASSUME ~mixed, frame_len * CacheNum = ring.cap PROVE FALSE
      <3>1. ~IsNull(ring)
        <4>1. frame_len * CacheNum > 0
          BY NewCapacity DEF IInv, TypeOK
        <4> QED
          BY <2>2, <4>1 DEF IsNull
      <3>2. PushRing.cap = ring.cap
        <4>1. KeptRing.cap = ring.cap
          BY <1>1 DEF KeptRing, Free, Ring
        <4> QED
          BY <3>1, <4>1 DEF PushRing, IsNull
      <3>3. PICK h \in 0 .. CacheNum - 1 : Slots(PushRing, Len(KeptFrames), frame_len, h)
        BY <2>1, <2>2, <3>2, UniformStart
      <3>4. PushRing \in Ring /\ Len(KeptFrames) \in 0 .. CacheNum - 1
        BY <2>1, <2>2, <3>2, UniformStart
      <3> QED
        BY <1>1, <2>1, <3>3, <3>4, SlotAlloc
    <2> QED
      BY <2>1, <2>2 DEF UniformInv, SpaceIfUniform, IsNull
  <1>4. CASE Pop
    <2>1. /\ ~crashed /\ UNCHANGED <<crashed, mixed>> /\ ~IsNull(ring) /\ frames # <<>>
          /\ frames' = Tail(frames) /\ ring' = Free(ring, Head(frames).len)
      BY <1>4 DEF Pop
    <2>2. ASSUME ~mixed PROVE Uniform(ring', frames')
      <3>1. PICK u \in Nat \ {0}, h \in 0 .. CacheNum - 1 :
                /\ Slots(ring, Len(frames), u, h)
                /\ \A i \in 1 .. Len(frames) : frames[i].len = u
        BY <2>1, <2>2 DEF UniformInv, Uniform
      <3>2. /\ Len(frames) \in 1 .. CacheNum /\ Head(frames).len = u
            /\ Len(frames') = Len(frames) - 1
            /\ \A i \in 1 .. Len(frames') : frames'[i].len = u
        BY <1>1, <2>1, <3>1, TailOfFrames
      <3>3. /\ Slots(ring', Len(frames) - 1, u, Wrap(h + 1))
            /\ Wrap(h + 1) \in 0 .. CacheNum - 1
        BY <1>1, <2>1, <3>1, <3>2, SlotFree
      <3> QED
        BY <3>2, <3>3 DEF Uniform
    <2> QED
      BY <2>1, <2>2 DEF UniformInv, SpaceIfUniform
  <1>5. CASE Clear
    <2>1. /\ ~crashed /\ UNCHANGED <<crashed, mixed>> /\ frames' = <<>>
          /\ ring' = [ring EXCEPT !.head = 0, !.tail = 0, !.size = 0]
      BY <1>5 DEF Clear
    <2>2. ASSUME ~mixed, ~IsNull(ring) PROVE Uniform(ring', frames')
      <3>1. PICK u \in Nat \ {0} : ring.cap = Times(CacheNum, u)
        BY <2>2 DEF UniformInv, Uniform, Slots
      <3>2. /\ ring'.cap = ring.cap /\ ring'.head = 0 /\ ring'.tail = 0 /\ ring'.size = 0
            /\ Len(frames') = 0
        BY <1>1, <2>1 DEF Ring
      <3>3. Times(0, u) = 0 /\ Wrap(0 + 0) = 0
        BY TimesFacts DEF Wrap
      <3>4. Slots(ring', 0, u, 0) /\ 0 \in 0 .. CacheNum - 1
        BY <3>1, <3>2, <3>3 DEF Slots
      <3> QED
        BY <3>2, <3>4 DEF Uniform
    <2>3. IsNull(ring') <=> IsNull(ring)
      BY <1>1, <2>1 DEF IsNull, Ring
    <2> QED
      BY <2>1, <2>2, <2>3 DEF UniformInv, SpaceIfUniform
  <1>6. CASE Renew
    BY <1>6 DEF Renew, UniformInv, SpaceIfUniform, IsNull, EmptyRing
  <1>7. CASE SetPolicy \/ PushDiscard \/ Reopen \/ UNCHANGED vars
    BY <1>7 DEF SetPolicy, PushDiscard, Reopen, vars, UniformInv, SpaceIfUniform, Uniform,
                IsNull, Slots
  <1> QED
    BY <1>2, <1>3, <1>4, <1>5, <1>6, <1>7 DEF Next

\* The copy in HFrameBuf::push meets a null address only after pictures of different
\* lengths went through one player: with cache_num pictures' worth of bytes for pictures
\* of one length, HRingBuf::alloc always finds a run.
THEOREM RoomIfUniform == Spec => []SpaceIfUniform
  <1>1. Init => UniformInv
    BY DEF Init, UniformInv, SpaceIfUniform, IsNull, EmptyRing
  <1>2. UniformInv => SpaceIfUniform
    BY DEF UniformInv
  <1> QED
    BY <1>1, <1>2, Invariance, UniformNext, PTL DEF Spec
-------------------------------------------------------------------------------
(* The order of pictures, and the queue                                        *)

\* Pictures wait in the order they were pushed, and what was shown is older.
Ranks ==
    /\ \A i, j \in DOMAIN frames : i < j => frames[i].id < frames[j].id
    /\ \A i \in DOMAIN frames : frames[i].id <= pushed
    /\ \A a \in shown : a <= pushed /\ \A i \in DOMAIN frames : a < frames[i].id

\* What a pop shows.
LEMMA PopShows ==
    ASSUME IInv, Pop
    PROVE  /\ shown' = {Head(frames).id} /\ Head(frames) = frames[1]
           /\ frames \in Seq(Frame) /\ frames # <<>> /\ 1 \in DOMAIN frames
           /\ frames' = Tail(frames)
  <1>1. /\ frames \in Seq(Frame) /\ frames # <<>> /\ frames' = Tail(frames)
        /\ shown' = {mem[c] : c \in Cells(Head(frames))}
    BY DEF IInv, TypeOK, Pop
  <1>2. Head(frames) = frames[1] /\ 1 \in 1 .. Len(frames) /\ frames[1] \in Frame
    BY <1>1, TailOfFrames
  <1>3. \A c \in Cells(frames[1]) : mem[c] = frames[1].id
    BY <1>2 DEF IInv, FramesIntact
  <1>4. frames[1].off \in Cells(frames[1])
    BY <1>2, FrameFields DEF Cells
  <1>5. shown' = {frames[1].id}
    BY <1>1, <1>2, <1>3, <1>4
  <1>6. shown' = {Head(frames).id}
    BY <1>2, <1>5, Zenon
  <1>7. 1 \in DOMAIN frames
    BY <1>1, <1>2
  <1> QED
    BY <1>1, <1>2, <1>6, <1>7

\* What a push leaves in the deque.
LEMMA PushLeaves ==
    ASSUME IInv, Push
    PROVE  /\ KeptFrames \in Seq(Frame) /\ NewFrame \in Frame
           /\ NewFrame.id = pushed + 1 /\ frames' = Append(KeptFrames, NewFrame)
           /\ KeptFrames = IF Len(frames) >= CacheNum THEN Tail(frames) ELSE frames
           /\ frames \in Seq(Frame)
           /\ Len(frames) >= CacheNum => frames # <<>>
  <1>1. /\ KeptFrames \in Seq(Frame) /\ PushRing \in Ring
        /\ frames' = Append(KeptFrames, NewFrame)
    BY PushStart DEF Push, RingInv
  <1>2. frames \in Seq(Frame) /\ pushed + 1 \in Nat \ {0} /\ frame_len \in FrameLens
    BY MaxPushAssumption DEF IInv, TypeOK
  <1>3. AllocOffset(PushRing, frame_len) \in Nat
    BY <1>1 DEF AllocOffset, Ring
  <1>4. NewFrame \in Frame /\ NewFrame.id = pushed + 1
    BY <1>2, <1>3 DEF NewFrame, Frame
  <1>5. Len(frames) >= CacheNum => frames # <<>>
    BY CacheNumAssumption
  <1> QED
    BY <1>1, <1>2, <1>4, <1>5 DEF KeptFrames, Full

LEMMA RanksKept == IInv /\ Ranks /\ [Next]_vars => Ranks'
  <1> SUFFICES ASSUME IInv, Ranks, [Next]_vars PROVE Ranks'
    OBVIOUS
  <1>1. /\ frames \in Seq(Frame) /\ pushed \in Nat /\ shown \subseteq Nat
        /\ \A i \in DOMAIN frames : frames[i].id \in Nat
    BY FrameFields, MaxPushAssumption DEF IInv, TypeOK
  <1>2. CASE Push
    <2>1. /\ KeptFrames \in Seq(Frame) /\ NewFrame \in Frame /\ NewFrame.id = pushed + 1
          /\ frames' = Append(KeptFrames, NewFrame)
          /\ pushed' = pushed + 1 /\ shown' = shown
      BY <1>2, PushLeaves DEF Push
    <2>2. /\ \A i, j \in 1 .. Len(KeptFrames) : i < j => KeptFrames[i].id < KeptFrames[j].id
          /\ \A i \in 1 .. Len(KeptFrames) :
                /\ KeptFrames[i].id \in Nat /\ KeptFrames[i].id <= pushed
                /\ \A a \in shown : a < KeptFrames[i].id
      <3>1. CASE KeptFrames = frames
        BY <1>1, <3>1 DEF Ranks
      <3>2. CASE KeptFrames = Tail(frames) /\ frames # <<>>
        <4>1. /\ Len(KeptFrames) = Len(frames) - 1
              /\ \A i \in 1 .. Len(KeptFrames) :
                    i + 1 \in 1 .. Len(frames) /\ KeptFrames[i] = frames[i + 1]
          BY <1>1, <3>2, TailOfFrames
        <4>2. \A i \in DOMAIN frames :
                 /\ frames[i].id \in Nat /\ frames[i].id <= pushed
                 /\ \A a \in shown : a < frames[i].id
          BY <1>1 DEF Ranks
        <4>3. \A i, j \in 1 .. Len(KeptFrames) :
                 i < j => KeptFrames[i].id < KeptFrames[j].id
          <5> SUFFICES ASSUME NEW i \in 1 .. Len(KeptFrames),
                              NEW j \in 1 .. Len(KeptFrames), i < j
                       PROVE  KeptFrames[i].id < KeptFrames[j].id
            OBVIOUS
          <5>1. i + 1 \in DOMAIN frames /\ j + 1 \in DOMAIN frames /\ i + 1 < j + 1
            BY <1>1, <4>1
          <5>2. frames[i + 1].id < frames[j + 1].id
            BY <5>1 DEF Ranks
          <5> QED
            BY <4>1, <5>2
        <4>4. DOMAIN frames = 1 .. Len(frames)
          BY <1>1
        <4> QED
          BY <4>1, <4>2, <4>3, <4>4
      <3> QED
        BY <1>2, <3>1, <3>2, PushLeaves
    <2>3. /\ Len(frames') = Len(KeptFrames) + 1 /\ DOMAIN frames' = 1 .. Len(frames')
          /\ \A i \in 1 .. Len(KeptFrames) : frames'[i] = KeptFrames[i]
          /\ frames'[Len(KeptFrames) + 1] = NewFrame /\ Len(KeptFrames) \in Nat
      BY <2>1, AppendOfFrames
    <2>4. \A i \in DOMAIN frames' :
             \/ i \in 1 .. Len(KeptFrames) /\ frames'[i] = KeptFrames[i]
             \/ i = Len(KeptFrames) + 1 /\ frames'[i].id = pushed + 1
      BY <2>1, <2>3
    <2> QED
      BY <1>1, <2>1, <2>2, <2>3, <2>4 DEF Ranks
  <1>3. CASE Pop
    <2>1. /\ shown' = {frames[1].id} /\ frames # <<>> /\ 1 \in DOMAIN frames
          /\ frames' = Tail(frames) /\ pushed' = pushed
      BY <1>3, PopShows DEF Pop
    <2>2. /\ Len(frames') = Len(frames) - 1 /\ DOMAIN frames' = 1 .. Len(frames')
          /\ \A i \in 1 .. Len(frames') :
                i + 1 \in DOMAIN frames /\ 1 < i + 1 /\ frames'[i] = frames[i + 1]
      BY <1>1, <2>1, TailOfFrames
    <2> QED
      BY <1>1, <2>1, <2>2 DEF Ranks
  <1>4. CASE Clear \/ Renew
    BY <1>4 DEF Clear, Renew, Ranks
  <1>5. CASE PushNoRoom \/ SetPolicy \/ PushDiscard \/ Reopen \/ UNCHANGED vars
    BY <1>5 DEF PushNoRoom, SetPolicy, PushDiscard, Reopen, vars, Ranks
  <1> QED
    BY <1>2, <1>3, <1>4, <1>5 DEF Next

\* What is booked is the total: Booked says that there are partial sums of the lengths
\* that end in the ring's _size, and there is but one sequence of them.
LEMMA BookedIsTotal ==
    ASSUME NEW r \in Ring, NEW fs \in Seq(Frame), NEW pos, Booked(r, fs, pos)
    PROVE  r.size = Total(fs)
  <1> DEFINE a == [i \in 1 .. Len(fs) |-> fs[i].len]
             t == CHOOSE total : total = [i \in 0 .. Len(fs) |->
                                             IF i = 0 THEN 0 ELSE total[i - 1] + fs[i].len]
  <1>1. Len(fs) \in Nat
    OBVIOUS
  <1>2. PartialSums(Len(fs), a, pos)
    BY DEF Booked, PartialSums
  <1>3. pos = [i \in 0 .. Len(fs) |-> IF i = 0 THEN 0 ELSE pos[i - 1] + fs[i].len]
    <2>1. /\ pos = [i \in 0 .. Len(fs) |-> pos[i]]
          /\ \A i \in 0 .. Len(fs) : pos[i] = IF i = 0 THEN 0 ELSE pos[i - 1] + fs[i].len
      BY <1>1 DEF Booked
    <2> QED
      BY <2>1
  <1>4. t = [i \in 0 .. Len(fs) |-> IF i = 0 THEN 0 ELSE t[i - 1] + fs[i].len]
    BY <1>3
  <1>5. t = [i \in 0 .. Len(fs) |-> IF i = 0 THEN 0 ELSE t[i - 1] + a[i]]
    <2>1. \A i \in 0 .. Len(fs) : i # 0 => a[i] = fs[i].len
      BY <1>1
    <2> QED
      BY <1>4, <2>1
  <1> HIDE DEF a, t
  <1>6. \A i \in 0 .. Len(fs) : t[i] = pos[i]
    BY <1>1, <1>2, <1>5, PartialSumsUnique
  <1>7. Total(fs) = t[Len(fs)]
    BY DEF Total, t
  <1> QED
    BY <1>1, <1>6, <1>7 DEF Booked

\* The books of HRingBuf (alloc, free, clear) are right: its _size is the sum of the
\* lengths of the cached frames, however many there are and whatever their lengths.
THEOREM SizesAgree == Spec => []SizeAccounts
  <1>1. IInv => SizeAccounts
    <2> SUFFICES ASSUME IInv PROVE ring.size = Total(frames)
      BY DEF SizeAccounts
    <2>1. ring \in Ring /\ frames \in Seq(Frame)
      BY DEF IInv, TypeOK
    <2>2. \E pos : Booked(ring, frames, pos)
      <3>1. CASE IsNull(ring)
        <4>1. Len(frames) = 0 /\ ring.size = 0
          BY <3>1 DEF IInv, Unsized, EmptyRing
        <4>2. Booked(ring, frames, [i \in 0 .. 0 |-> 0])
          BY <4>1 DEF Booked
        <4> QED
          BY <4>2
      <3>2. CASE ~IsNull(ring)
        BY <3>2 DEF IInv, Sized, RingInv
      <3> QED
        BY <3>1, <3>2
    <2> QED
      BY <2>1, <2>2, BookedIsTotal
  <1> QED
    BY <1>1, Invariance, PTL

\* The drawing timer never goes back in time: a pop delivers a frame that was pushed
\* after the one it delivered before (HFrameBuf::push, pop), also across a stop.
THEOREM TimeMovesForward == Spec => ShownForward
  <1>1. Init => Ranks
    BY DEF Init, Ranks
  <1>2. IInv /\ Ranks /\ [Next]_vars =>
            [\A a \in shown, b \in shown' : shown' # shown => a < b]_shown
    <2> SUFFICES ASSUME IInv, Ranks, Next
                 PROVE  \A a \in shown, b \in shown' : shown' # shown => a < b
      BY DEF vars
    <2>1. CASE Pop
      BY <2>1, PopShows DEF Ranks
    <2>2. CASE ~Pop
      BY <2>2 DEF Next, PushNoRoom, SetPolicy, PushDiscard, Reopen, Clear, Renew, Push, vars
    <2> QED
      BY <2>1, <2>2
  <1> QED
    BY <1>1, <1>2, Invariance, RanksKept, PTL DEF Spec, ShownForward
Ids(fs) == [i \in 1 .. Len(fs) |-> fs[i].id]

LEMMA IdsFacts ==
    ASSUME NEW fs \in Seq(Frame)
    PROVE  /\ Ids(fs) \in Seq(Nat) /\ Len(Ids(fs)) = Len(fs)
           /\ \A i \in 1 .. Len(fs) : Ids(fs)[i] = fs[i].id
           /\ fs = <<>> <=> Ids(fs) = <<>>
  <1>1. \A i \in 1 .. Len(fs) : fs[i].id \in Nat
    BY FrameFields
  <1>2. Len(fs) \in Nat
    OBVIOUS
  <1>3. Ids(fs) \in [1 .. Len(fs) -> Nat]
    BY <1>1 DEF Ids
  <1>4. Ids(fs) \in Seq(Nat) /\ Len(Ids(fs)) = Len(fs)
    BY <1>2, <1>3
  <1>5. \A i \in 1 .. Len(fs) : Ids(fs)[i] = fs[i].id
    BY DEF Ids
  <1>6. fs = <<>> <=> Len(fs) = 0
    BY EmptySeq
  <1>7. Ids(fs) = <<>> <=> Len(Ids(fs)) = 0
    BY <1>4, EmptySeq
  <1> QED
    BY <1>4, <1>5, <1>6, <1>7

LEMMA IdsTail ==
    ASSUME NEW fs \in Seq(Frame), fs # <<>>
    PROVE  Ids(Tail(fs)) = Tail(Ids(fs)) /\ Head(Ids(fs)) = Head(fs).id
  <1>1. /\ Ids(fs) \in Seq(Nat) /\ Len(Ids(fs)) = Len(fs) /\ Ids(fs) # <<>>
        /\ \A i \in 1 .. Len(fs) : Ids(fs)[i] = fs[i].id
    BY IdsFacts
  <1>2. /\ Tail(fs) \in Seq(Frame) /\ Len(fs) \in Nat \ {0}
        /\ Len(Tail(fs)) = Len(fs) - 1 /\ Head(fs) = fs[1]
        /\ \A i \in 1 .. Len(fs) - 1 : Tail(fs)[i] = fs[i + 1]
    BY TailOfFrames, SMTT(30)
  <1>3. /\ Ids(Tail(fs)) \in Seq(Nat) /\ Len(Ids(Tail(fs))) = Len(fs) - 1
        /\ \A i \in 1 .. Len(fs) - 1 : Ids(Tail(fs))[i] = Tail(fs)[i].id
    BY <1>2, IdsFacts
  <1>4. /\ Tail(Ids(fs)) \in Seq(Nat) /\ Len(Tail(Ids(fs))) = Len(fs) - 1
        /\ \A i \in 1 .. Len(fs) - 1 : Tail(Ids(fs))[i] = Ids(fs)[i + 1]
    BY <1>1, HeadTailProperties
  <1>5. \A i \in 1 .. Len(fs) - 1 : Ids(Tail(fs))[i] = Tail(Ids(fs))[i]
    BY <1>1, <1>2, <1>3, <1>4
  <1>6. Ids(Tail(fs)) = Tail(Ids(fs))
    BY <1>3, <1>4, <1>5, SeqEqual
  <1> QED
    BY <1>1, <1>2, <1>6

LEMMA IdsAppend ==
    ASSUME NEW fs \in Seq(Frame), NEW f \in Frame
    PROVE  Ids(Append(fs, f)) = Append(Ids(fs), f.id)
  <1>1. /\ Ids(fs) \in Seq(Nat) /\ Len(Ids(fs)) = Len(fs) /\ f.id \in Nat
        /\ \A i \in 1 .. Len(fs) : Ids(fs)[i] = fs[i].id
    BY IdsFacts, FrameFields
  <1>2. /\ Append(fs, f) \in Seq(Frame) /\ Len(fs) \in Nat
        /\ Len(Append(fs, f)) = Len(fs) + 1
        /\ \A i \in 1 .. Len(fs) : Append(fs, f)[i] = fs[i]
        /\ Append(fs, f)[Len(fs) + 1] = f
    BY AppendOfFrames
  <1>3. /\ Ids(Append(fs, f)) \in Seq(Nat) /\ Len(Ids(Append(fs, f))) = Len(fs) + 1
        /\ \A i \in 1 .. Len(fs) + 1 : Ids(Append(fs, f))[i] = Append(fs, f)[i].id
    BY <1>2, IdsFacts
  <1>4. /\ Append(Ids(fs), f.id) \in Seq(Nat)
        /\ Len(Append(Ids(fs), f.id)) = Len(fs) + 1
        /\ \A i \in 1 .. Len(fs) : Append(Ids(fs), f.id)[i] = Ids(fs)[i]
        /\ Append(Ids(fs), f.id)[Len(fs) + 1] = f.id
    BY <1>1, AppendProperties
  <1>5. \A i \in 1 .. Len(fs) + 1 : Ids(Append(fs, f))[i] = Append(Ids(fs), f.id)[i]
    BY <1>1, <1>2, <1>3, <1>4, SMTT(30)
  <1> QED
    BY <1>3, <1>4, <1>5, SeqEqual

\* What each step is for the queue.
LEMMA QueueStep ==
    IInv /\ [Next]_vars => [Abstract!Next]_(Abstract!qvars)
  <1> SUFFICES ASSUME IInv, [Next]_vars
               PROVE  Abstract!Next \/ UNCHANGED Abstract!qvars
    OBVIOUS
  <1>1. /\ frames \in Seq(Frame) /\ policy \in {"SQUEEZE", "DISCARD"}
        /\ Ids(frames) \in Seq(Nat) /\ Len(Ids(frames)) = Len(frames)
        /\ CacheNum \in Nat
    BY IdsFacts, CacheNumAssumption DEF IInv, TypeOK
  <1>2. CASE Push
    <2>1. /\ pushed < MaxPush
          /\ Len(frames) < CacheNum \/ policy = "SQUEEZE"
          /\ pushed' = pushed + 1 /\ UNCHANGED <<policy, shown>>
      BY <1>1, <1>2 DEF Push, Pushing, Full
    <2>2. Ids(frames') = Append(Ids(KeptFrames), pushed + 1)
      BY <1>2, PushLeaves, IdsAppend
    <2>3. Ids(KeptFrames) = IF Len(Ids(frames)) >= CacheNum THEN Tail(Ids(frames))
                            ELSE Ids(frames)
      BY <1>1, <1>2, PushLeaves, IdsTail
    <2>4. Ids(frames') =
              Append(IF Len(Ids(frames)) >= CacheNum THEN Tail(Ids(frames)) ELSE Ids(frames),
                     pushed + 1)
      BY <2>2, <2>3, Zenon
    <2>5. Len(Ids(frames)) < CacheNum \/ policy = "SQUEEZE"
      BY <1>1, <2>1
    <2> QED
      BY <2>1, <2>4, <2>5 DEF Abstract!Next, Abstract!Put, Ids
  <1>3. CASE Pop
    <2>1. /\ Ids(frames) # <<>> /\ Ids(frames') = Tail(Ids(frames))
          /\ shown' = {Head(Ids(frames))} /\ UNCHANGED <<policy, pushed>>
      BY <1>1, <1>3, PopShows, IdsFacts, IdsTail DEF Pop
    <2> QED
      BY <2>1 DEF Abstract!Next, Abstract!Take, Ids
  <1>4. CASE Clear
    BY <1>4 DEF Clear, Abstract!Next, Abstract!Flush
  <1>5. CASE Renew
    BY <1>5 DEF Renew, Abstract!Next, Abstract!Replace
  <1>6. CASE SetPolicy
    BY <1>6 DEF SetPolicy, Abstract!Next, Abstract!Choose
  <1>7. CASE PushDiscard \/ PushNoRoom \/ Reopen \/ UNCHANGED vars
    BY <1>7 DEF PushDiscard, PushNoRoom, Reopen, vars, Abstract!qvars
  <1> QED
    BY <1>2, <1>3, <1>4, <1>5, <1>6, <1>7 DEF Next

\* HFrameBuf is a bounded FIFO of whole frames that drops its oldest one or refuses the
\* new one, as its owner last chose: the ring of bytes below it (HRingBuf) is invisible.
THEOREM RefinesQueue == Spec => ImplementsQueue
  <1>1. Init => Abstract!Init
    BY DEF Init, Abstract!Init
  <1> QED
    BY <1>1, Invariance, QueueStep, PTL DEF Spec, ImplementsQueue, Abstract!Spec
===============================================================================
