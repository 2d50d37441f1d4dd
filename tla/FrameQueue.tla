------------------------------ MODULE FrameQueue ------------------------------
(* What HFrameBuf promises to its two users, the decoding thread that pushes   *)
(* frames and the drawing timer that pops them: a FIFO of at most Capacity     *)
(* frames that, when full, gives up its oldest frame (SQUEEZE) or refuses the  *)
(* new one (DISCARD), as its owner last chose.  Nothing is said of bytes,      *)
(* offsets or memory.                                                          *)
EXTENDS Integers, Sequences

CONSTANTS
    Capacity, \* how many frames the queue holds
    MaxPush   \* bound on the number of frames accepted in a behaviour

VARIABLES
    dropOldest, \* TRUE: a full queue drops its oldest frame
    queue,      \* the frames held, oldest first, each named by its rank of arrival
    accepted,   \* how many frames were accepted so far
    shown       \* what the last pop handed out: a set with the frame's name

qvars == <<dropOldest, queue, accepted, shown>>

Init ==
    /\ dropOldest = TRUE
    /\ queue = <<>>
    /\ accepted = 0
    /\ shown = {}

Put ==
    /\ accepted < MaxPush
    /\ Len(queue) < Capacity \/ dropOldest
    /\ queue' = Append(IF Len(queue) >= Capacity THEN Tail(queue) ELSE queue,
                       accepted + 1)
    /\ accepted' = accepted + 1
    /\ UNCHANGED <<dropOldest, shown>>

Take ==
    /\ queue # <<>>
    /\ shown' = {Head(queue)}
    /\ queue' = Tail(queue)
    /\ UNCHANGED <<dropOldest, accepted>>

Flush ==
    /\ queue' = <<>>
    /\ UNCHANGED <<dropOldest, accepted, shown>>

Choose ==
    /\ dropOldest' \in BOOLEAN
    /\ UNCHANGED <<queue, accepted, shown>>

\* The queue is replaced by a new one.
Replace ==
    /\ dropOldest' = TRUE
    /\ queue' = <<>>
    /\ UNCHANGED <<accepted, shown>>

Next == Choose \/ Put \/ Take \/ Flush \/ Replace

Spec == Init /\ [][Next]_qvars
===============================================================================
