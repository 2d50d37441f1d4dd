-------------------------- MODULE HVideoWidgetProofs --------------------------
(* What a cell keeps through any sequence of clicks, late events, timers and   *)
(* interrupted handlers.                                                       *)
(*                                                                             *)
(* The invariant says which statements may be on the stack todo, by what each  *)
(* of them needs of those before it.                                           *)
EXTENDS HVideoWidget, SequenceTheorems, TLAPS

\* Only the topmost handler has statements left to run: below a box or dialog there are
\* boxes and dialogs.
BoxesBelow ==
    \A i, j \in DOMAIN todo : i <= j /\ todo[i] \in Modal => todo[j] \in Modal

\* A player is deleted, and started again, right after it was joined.
JoinedBefore ==
    \A i \in DOMAIN todo : todo[i].op \in {"delete", "start"} =>
        IF i = 1
          THEN /\ thread[todo[i].of].at = "none"
               /\ thread[todo[i].of].status = "STOP"
          ELSE todo[i - 1] = Do("join", todo[i].of)

\* Between the deletion of a player and the end of stop, there is the end of stop.
SettlesAfter ==
    \A i \in DOMAIN todo : todo[i].op = "delete" =>
        \E j \in DOMAIN todo : i < j /\ todo[j] = Do("settle", "STOP")

\* When stop and close end, both players were deleted.
DeletedBefore ==
    \A j \in DOMAIN todo, t \in Threads :
        todo[j].op \in {"settle", "forget"} =>
            \/ ~object[t]
            \/ \E i \in DOMAIN todo : i < j /\ todo[i] = Do("delete", t)

\* A worker that does not run has not overwritten its STOP; a player that does not exist
\* has no thread.
Threading ==
    \A t \in Threads :
        /\ thread[t].at \in {"none", "prepare", "opened", "exited"} =>
              thread[t].status = "STOP"
        /\ ~object[t] => thread[t] = Fresh

\* Unless it is being stopped, the cell knows whether it has players, and so do the
\* buttons that are shown.
Knows ==
    (\A i \in DOMAIN todo : todo[i].op # "settle") =>
        /\ object["video"] = object["audio"]
        /\ ~crashed => /\ status = "STOP" <=> ~object["video"]
                       /\ shown_status # "STOP" => object["video"]

\* A closed cell has no medium to start again, or is about to have none.
Forgotten ==
    closed => \/ \E i \in DOMAIN todo : todo[i].op = "forget"
              \/ media = "NONE" /\ ~object["video"]

CellInv ==
    /\ TypeOK
    /\ BoxesBelow /\ JoinedBefore /\ SettlesAfter /\ DeletedBefore
    /\ Threading /\ Knows /\ Forgotten
-------------------------------------------------------------------------------
(* The stack                                                                   *)

Steps == [op : {"stop", "join", "start", "delete", "settle", "forget", "box", "dialog"},
          of : Threads \cup {"STOP", "media", "failed", "info", "cell", "menu"}]

Stack == BoxesBelow /\ JoinedBefore /\ SettlesAfter /\ DeletedBefore

AllModal(stack) == \A i \in DOMAIN stack : stack[i] \in Modal

\* What holds of a program that a handler pushes.
Program(program) ==
    /\ program \in Seq(Steps)
    /\ \A i \in DOMAIN program : program[i].op \notin {"box", "dialog"}
    /\ \A i \in DOMAIN program : program[i].op \in {"delete", "start"} =>
          i # 1 /\ program[i - 1] = Do("join", program[i].of)
    /\ \A i \in DOMAIN program : program[i].op = "delete" =>
          \E j \in DOMAIN program : i < j /\ program[j] = Do("settle", "STOP")
    /\ \A j \in DOMAIN program, t \in Threads : program[j].op \in {"settle", "forget"} =>
          \E i \in DOMAIN program : i < j /\ program[i] = Do("delete", t)

LEMMA StopIsProgram ==
    /\ Program(StopProgram)
    /\ \E i \in DOMAIN StopProgram : StopProgram[i].op = "settle"
  <1> DEFINE p == StopProgram
  <1>1. /\ p \in Seq(Steps) /\ Len(p) = 7 /\ DOMAIN p = 1 .. 7
        /\ p[1] = Do("stop", "video") /\ p[2] = Do("join", "video")
        /\ p[3] = Do("delete", "video") /\ p[4] = Do("stop", "audio")
        /\ p[5] = Do("join", "audio") /\ p[6] = Do("delete", "audio")
        /\ p[7] = Do("settle", "STOP")
    BY DEF StopProgram, StopOf, Steps, Do, Threads
  <1> HIDE DEF p
  <1>2. \A i \in 1 .. 7 : i \in {1, 2, 3, 4, 5, 6, 7}
    OBVIOUS
  <1>3. Program(p) /\ \E i \in DOMAIN p : p[i].op = "settle"
    BY <1>1, <1>2 DEF Program, Do, Threads
  <1> QED
    BY <1>3 DEF p

LEMMA CloseIsProgram ==
    /\ Program(CloseProgram)
    /\ \E i \in DOMAIN CloseProgram : CloseProgram[i].op = "settle"
    /\ \E i \in DOMAIN CloseProgram : CloseProgram[i].op = "forget"
  <1> DEFINE p == CloseProgram
  <1>1. /\ p \in Seq(Steps) /\ Len(p) = 8 /\ DOMAIN p = 1 .. 8
        /\ p[1] = Do("stop", "video") /\ p[2] = Do("join", "video")
        /\ p[3] = Do("delete", "video") /\ p[4] = Do("stop", "audio")
        /\ p[5] = Do("join", "audio") /\ p[6] = Do("delete", "audio")
        /\ p[7] = Do("settle", "STOP") /\ p[8] = Do("forget", "media")
    BY DEF CloseProgram, StopProgram, StopOf, Steps, Do, Threads
  <1> HIDE DEF p
  <1>2. \A i \in 1 .. 8 : i \in {1, 2, 3, 4, 5, 6, 7, 8}
    OBVIOUS
  <1>3. /\ Program(p)
        /\ \E i \in DOMAIN p : p[i].op = "settle"
        /\ \E i \in DOMAIN p : p[i].op = "forget"
    BY <1>1, <1>2 DEF Program, Do, Threads
  <1> QED
    BY <1>3 DEF p

LEMMA RestartIsProgram ==
    /\ Program(RestartProgram)
    /\ \A i \in DOMAIN RestartProgram : RestartProgram[i].op # "settle"
  <1> DEFINE p == RestartProgram
  <1>1. /\ p \in Seq(Steps) /\ Len(p) = 6 /\ DOMAIN p = 1 .. 6
        /\ p[1] = Do("stop", "video") /\ p[2] = Do("join", "video")
        /\ p[3] = Do("start", "video") /\ p[4] = Do("stop", "audio")
        /\ p[5] = Do("join", "audio") /\ p[6] = Do("start", "audio")
    BY DEF RestartProgram, RestartOf, Steps, Do, Threads
  <1> HIDE DEF p
  <1>2. \A i \in 1 .. 6 : i \in {1, 2, 3, 4, 5, 6}
    OBVIOUS
  <1>3. Program(p) /\ \A i \in DOMAIN p : p[i].op # "settle"
    BY <1>1, <1>2 DEF Program, Do, Threads
  <1> QED
    BY <1>3 DEF p

LEMMA WaitIsProgram ==
    /\ Program(WaitProgram)
    /\ \A i \in DOMAIN WaitProgram : WaitProgram[i].op # "settle"
  <1> DEFINE p == WaitProgram
  <1>1. /\ p \in Seq(Steps) /\ Len(p) = 2 /\ DOMAIN p = 1 .. 2
        /\ p[1] = Do("stop", "video") /\ p[2] = Do("join", "video")
    BY DEF WaitProgram, Steps, Do, Threads
  <1> HIDE DEF p
  <1>2. \A i \in 1 .. 2 : i \in {1, 2}
    OBVIOUS
  <1>3. Program(p) /\ \A i \in DOMAIN p : p[i].op # "settle"
    BY <1>1, <1>2 DEF Program, Do, Threads
  <1> QED
    BY <1>3 DEF p

LEMMA ModalSteps ==
    /\ Modal \subseteq Steps
    /\ \A m \in Modal : m.op \in {"box", "dialog"}
  BY DEF Modal, FailedBox, InfoBox, CellDialog, MenuDialog, Do, Steps

\* A handler that runs finds nothing but boxes and dialogs below it.
LEMMA AtLoop ==
    ASSUME TypeOK, BoxesBelow, Dispatching
    PROVE  /\ todo \in Seq(Steps) /\ AllModal(todo)
           /\ todo # <<>> => Tail(todo) \in Seq(Steps) /\ AllModal(Tail(todo))
  <1>1. todo \in Seq(Steps)
    BY DEF TypeOK, Steps
  <1>2. AllModal(todo)
    <2>1. CASE todo = <<>>
      BY <2>1 DEF AllModal
    <2>2. CASE todo # <<>>
      <3>1. todo[1] = Head(todo) /\ 1 \in DOMAIN todo /\ todo[1] \in Steps
        BY <1>1, <2>2
      <3>2. todo[1].op # "idle"
        BY <3>1 DEF Steps
      <3>3. Idle.op = "idle"
        BY DEF Idle, Do
      <3>4. todo[1] \in Modal
        BY <2>2, <3>1, <3>2, <3>3 DEF Dispatching, Doing
      <3> QED
        BY <1>1, <3>1, <3>4 DEF BoxesBelow, AllModal
    <2> QED
      BY <2>1, <2>2
  <1>3. todo # <<>> => Tail(todo) \in Seq(Steps) /\ AllModal(Tail(todo))
    BY <1>1, <1>2 DEF AllModal
  <1> QED
    BY <1>1, <1>2, <1>3

\* A stack of boxes and dialogs.
LEMMA Boxes ==
    ASSUME todo' \in Seq(Steps), AllModal(todo')
    PROVE  Stack'
  BY ModalSteps DEF AllModal, Stack, BoxesBelow, JoinedBefore, SettlesAfter, DeletedBefore

\* A program on top of boxes and dialogs.
LEMMA Pushed ==
    ASSUME NEW rest \in Seq(Steps), AllModal(rest),
           NEW program, Program(program),
           todo' = program \o rest
    PROVE  /\ todo' \in Seq(Steps)
           /\ Stack'
           /\ \A i \in DOMAIN program : i \in DOMAIN todo' /\ todo'[i] = program[i]
           /\ (\A i \in DOMAIN program : program[i].op # "settle") =>
                 \A i \in DOMAIN todo' : todo'[i].op # "settle"
  <1>1. program \in Seq(Steps)
    BY DEF Program
  <1>2. /\ todo' \in Seq(Steps)
        /\ Len(todo') = Len(program) + Len(rest)
        /\ \A i \in 1 .. Len(todo') : todo'[i] = IF i <= Len(program) THEN program[i]
                                                 ELSE rest[i - Len(program)]
    BY <1>1, ConcatProperties
  <1>3. \A i \in 1 .. Len(todo') : i > Len(program) =>
            todo'[i] \in Modal /\ todo'[i].op \in {"box", "dialog"}
    BY <1>1, <1>2, ModalSteps DEF AllModal
  <1>4. \A i \in 1 .. Len(program) :
            i \in 1 .. Len(todo') /\ todo'[i] = program[i] /\ todo'[i] \notin Modal
    BY <1>1, <1>2, ModalSteps DEF Program
  <1>5. BoxesBelow'
    BY <1>1, <1>2, <1>3, <1>4 DEF BoxesBelow
  <1>6. JoinedBefore'
    <2> SUFFICES ASSUME NEW i \in DOMAIN todo', todo'[i].op \in {"delete", "start"}
                 PROVE  i # 1 /\ todo'[i - 1] = Do("join", todo'[i].of)
      BY DEF JoinedBefore
    <2>0. i \in 1 .. Len(todo') /\ todo'[i].op \notin {"box", "dialog"}
      BY <1>2
    <2>1. i \in 1 .. Len(program) /\ i \in DOMAIN program
      BY <1>1, <1>2, <1>3, <2>0
    <2>2. i # 1 /\ program[i - 1] = Do("join", program[i].of)
      BY <1>4, <2>1 DEF Program
    <2> QED
      BY <1>1, <1>4, <2>1, <2>2
  <1>7. SettlesAfter'
    <2> SUFFICES ASSUME NEW i \in DOMAIN todo', todo'[i].op = "delete"
                 PROVE  \E j \in DOMAIN todo' : i < j /\ todo'[j] = Do("settle", "STOP")
      BY DEF SettlesAfter
    <2>1. i \in 1 .. Len(program) /\ i \in DOMAIN program
      BY <1>1, <1>2, <1>3
    <2>2. PICK j \in DOMAIN program : i < j /\ program[j] = Do("settle", "STOP")
      BY <1>4, <2>1 DEF Program
    <2> QED
      BY <1>1, <1>2, <1>4, <2>1, <2>2
  <1>8. DeletedBefore'
    <2> SUFFICES ASSUME NEW j \in DOMAIN todo', NEW t \in Threads,
                        todo'[j].op \in {"settle", "forget"}
                 PROVE  \E i \in DOMAIN todo' : i < j /\ todo'[i] = Do("delete", t)
      BY DEF DeletedBefore
    <2>1. j \in 1 .. Len(program) /\ j \in DOMAIN program
      BY <1>1, <1>2, <1>3
    <2>2. PICK i \in DOMAIN program : i < j /\ program[i] = Do("delete", t)
      BY <1>4, <2>1 DEF Program
    <2> QED
      BY <1>1, <1>2, <1>4, <2>1, <2>2, SMTT(30)
  <1>9. (\A i \in DOMAIN program : program[i].op # "settle") =>
            \A i \in DOMAIN todo' : todo'[i].op # "settle"
    BY <1>1, <1>2, <1>3, <1>4, SMTT(30)
  <1> QED
    BY <1>1, <1>2, <1>4, <1>5, <1>6, <1>7, <1>8, <1>9 DEF Stack

\* The statement on top was run.
LEMMA Popped ==
    ASSUME TypeOK, Stack, todo # <<>>, todo' = Tail(todo),
           \A t : todo[1] = Do("join", t) =>
               thread'[t].at = "none" /\ thread'[t].status = "STOP",
           \A t \in Threads : todo[1] = Do("delete", t) => ~object'[t],
           \A t \in Threads : ~object[t] => ~object'[t]
    PROVE  todo' \in Seq(Steps) /\ Stack'
  <1>1. /\ todo \in Seq(Steps) /\ todo' \in Seq(Steps)
        /\ Len(todo') = Len(todo) - 1
        /\ \A i \in 1 .. Len(todo') : i + 1 \in 1 .. Len(todo) /\ todo'[i] = todo[i + 1]
        /\ \A i \in 1 .. Len(todo) : i # 1 => i - 1 \in 1 .. Len(todo')
    BY DEF TypeOK, Steps
  <1>2. BoxesBelow'
    BY <1>1 DEF Stack, BoxesBelow
  <1>3. JoinedBefore'
    <2> SUFFICES ASSUME NEW i \in DOMAIN todo', todo'[i].op \in {"delete", "start"}
                 PROVE  IF i = 1
                          THEN /\ thread'[todo'[i].of].at = "none"
                               /\ thread'[todo'[i].of].status = "STOP"
                          ELSE todo'[i - 1] = Do("join", todo'[i].of)
      BY DEF JoinedBefore
    <2>1. /\ i \in 1 .. Len(todo') /\ i + 1 \in DOMAIN todo
          /\ todo[i + 1].op \in {"delete", "start"}
          /\ todo[i] = Do("join", todo[i + 1].of)
      BY <1>1 DEF Stack, JoinedBefore
    <2>2. CASE i = 1
      <3>1. todo[1] = Do("join", todo[2].of)
        BY <2>1, <2>2
      <3> QED
        BY <1>1, <2>2, <3>1
    <2>3. CASE i # 1
      BY <1>1, <2>1, <2>3
    <2> QED
      BY <2>2, <2>3
  <1>4. SettlesAfter'
    <2> SUFFICES ASSUME NEW i \in DOMAIN todo', todo'[i].op = "delete"
                 PROVE  \E j \in DOMAIN todo' : i < j /\ todo'[j] = Do("settle", "STOP")
      BY DEF SettlesAfter
    <2>1. PICK j \in DOMAIN todo : i + 1 < j /\ todo[j] = Do("settle", "STOP")
      BY <1>1 DEF Stack, SettlesAfter
    <2>2. j - 1 \in DOMAIN todo' /\ i < j - 1 /\ todo'[j - 1] = todo[j]
      BY <1>1, <2>1
    <2> QED
      BY <2>1, <2>2
  <1>5. DeletedBefore'
    <2> SUFFICES ASSUME NEW j \in DOMAIN todo', NEW t \in Threads,
                        todo'[j].op \in {"settle", "forget"}, object'[t]
                 PROVE  \E i \in DOMAIN todo' : i < j /\ todo'[i] = Do("delete", t)
      BY DEF DeletedBefore
    <2>1. PICK i \in DOMAIN todo : i < j + 1 /\ todo[i] = Do("delete", t)
      BY <1>1 DEF Stack, DeletedBefore
    <2>2. i # 1
      BY <2>1
    <2>3. i - 1 \in DOMAIN todo' /\ i - 1 < j /\ todo'[i - 1] = todo[i]
      BY <1>1, <2>1, <2>2
    <2> QED
      BY <2>1, <2>3
  <1> QED
    BY <1>1, <1>2, <1>3, <1>4, <1>5 DEF Stack

-------------------------------------------------------------------------------
(* The slots                                                                   *)

ThreadStates ==
    [status : {"STOP", "RUNNING", "PAUSE"},
     at : {"none", "prepare", "opened", "run", "task", "drain", "exited"},
     quit : BOOLEAN, flag : BOOLEAN]

PlayerTypes ==
    /\ {status, shown_status} \subseteq {"STOP", "PLAY", "PAUSE"}
    /\ object \in [Threads -> BOOLEAN]
    /\ thread \in [Threads -> ThreadStates]

RetryTypes ==
    /\ retry_cnt \in Nat /\ (retry_maxcnt >= 0 => retry_cnt <= retry_maxcnt)
    /\ since \in Int /\ since <= retry_interval
    /\ timers \in Seq(Nat)

LEMMA Types ==
    TypeOK <=> /\ media \in {"NONE", "FILE", "NETWORK"}
               /\ PlayerTypes
               /\ events \in Seq({"OPENED", "OPEN_FAILED", "EOF", "ERROR"})
               /\ todo \in Seq(Steps)
               /\ RetryTypes
               /\ {crashed, closed} \subseteq BOOLEAN
  BY DEF TypeOK, PlayerTypes, ThreadStates, Steps, RetryTypes

\* What Knows says while the cell is not being stopped.
Agree ==
    /\ object["video"] = object["audio"]
    /\ status = "STOP" <=> ~object["video"]
    /\ shown_status # "STOP" => object["video"]

\* What a handler does to the cell.
Handled ==
    /\ todo' \in Seq(Steps) /\ Stack'
    /\ PlayerTypes' /\ Threading'
    /\ (\A i \in DOMAIN todo' : todo'[i].op # "settle") => Agree'
    /\ media = "NONE" /\ ~object["video"] => ~object'["video"]

LEMMA Box ==
    ASSUME NEW box \in Modal, NEW rest \in Seq(Steps), AllModal(rest)
    PROVE  <<box>> \o rest \in Seq(Steps) /\ AllModal(<<box>> \o rest)
  <1>1. <<box>> \in Seq(Steps) /\ Len(<<box>>) = 1 /\ <<box>>[1] = box
    BY ModalSteps
  <1>2. /\ <<box>> \o rest \in Seq(Steps)
        /\ Len(<<box>> \o rest) = 1 + Len(rest)
        /\ \A i \in 1 .. 1 + Len(rest) :
              (<<box>> \o rest)[i] = IF i <= 1 THEN <<box>>[i] ELSE rest[i - 1]
    BY <1>1, ConcatProperties
  <1> QED
    BY <1>1, <1>2 DEF AllModal

LEMMA FreshThread == Fresh \in ThreadStates /\ Started(Fresh) \in ThreadStates
                     /\ Started(Fresh).at = "prepare" /\ Started(Fresh).status = "STOP"
  BY DEF Fresh, Started, ThreadStates

LEMMA StartCell ==
    ASSUME PlayerTypes, Threading, Agree,
           NEW m, NEW rest \in Seq(Steps), AllModal(rest), Start(m, rest)
    PROVE  /\ todo' \in Seq(Steps) /\ Stack'
           /\ PlayerTypes' /\ Threading' /\ Agree'
           /\ m = "NONE" /\ ~object["video"] => ~object'["video"]
  <1>1. CASE m = "NONE" /\ todo' = <<InfoBox>> \o rest /\ UNCHANGED player
    <2>1. todo' \in Seq(Steps) /\ AllModal(todo')
      BY <1>1, Box DEF Modal
    <2> QED
      BY <1>1, <2>1, Boxes DEF player, PlayerTypes, Threading, Agree
  <1>2. CASE /\ m # "NONE"
             /\ object' = [t \in Threads |-> TRUE]
             /\ thread' = [t \in Threads |-> Started(Fresh)]
             /\ status' = "PLAY" /\ shown_status' = "PLAY"
             /\ todo' = rest
    <2>1. PlayerTypes' /\ Threading' /\ Agree'
      BY <1>2, FreshThread DEF PlayerTypes, Threading, Agree, Threads
    <2> QED
      BY <1>2, <2>1, Boxes
  <1>3. CASE /\ m # "NONE" /\ object["video"]
             /\ thread' = [t \in Threads |-> Resumed(thread[t])]
             /\ status' = "PLAY" /\ shown_status' = "PLAY"
             /\ todo' = rest
             /\ UNCHANGED object
    <2>1. \A t \in Threads :
             /\ Resumed(thread[t]) \in ThreadStates
             /\ Resumed(thread[t]).at = thread[t].at
             /\ thread[t].status = "STOP" => Resumed(thread[t]).status = "STOP"
      BY DEF PlayerTypes, ThreadStates, Resumed
    <2>2. object["audio"] /\ \A t \in Threads : object[t]
      BY <1>3 DEF Agree, Threads
    <2>3. PlayerTypes' /\ Threading' /\ Agree'
      BY <1>3, <2>1, <2>2 DEF PlayerTypes, Threading, Agree, Threads
    <2> QED
      BY <1>3, <2>3, Boxes
  <1>4. CASE todo' = rest /\ UNCHANGED player
    BY <1>4, Boxes DEF player, PlayerTypes, Threading, Agree
  <1> QED
    BY <1>1, <1>2, <1>3, <1>4 DEF Start

LEMMA StopCell ==
    ASSUME PlayerTypes, Threading, NEW rest \in Seq(Steps), AllModal(rest), Stop(rest)
    PROVE  Handled
  <1>1. /\ todo' \in Seq(Steps) /\ Stack'
        /\ \E i \in DOMAIN todo' : todo'[i].op = "settle"
    BY StopIsProgram, Pushed, ZenonT(60) DEF Stop, Run
  <1> QED
    BY <1>1 DEF Stop, Run, Handled, player, PlayerTypes, Threading

LEMMA RestartCell ==
    ASSUME PlayerTypes, Threading, Agree, NEW rest \in Seq(Steps), AllModal(rest),
           Restart(rest)
    PROVE  Handled
  <1>1. CASE Run(RestartProgram, rest)
    <2>1. todo' \in Seq(Steps) /\ Stack'
      BY <1>1, RestartIsProgram, Pushed DEF Run
    <2> QED
      BY <1>1, <2>1 DEF Run, Handled, player, PlayerTypes, Threading, Agree
  <1>2. CASE Start(media, rest)
    BY <1>2, StartCell DEF Handled
  <1> QED
    BY <1>1, <1>2 DEF Restart

LEMMA RetryCell ==
    ASSUME PlayerTypes, Threading, Agree, RetryTypes,
           NEW rest \in Seq(Steps), AllModal(rest), Retry(rest)
    PROVE  Handled /\ RetryTypes'
  <1>1. CASE RetryNow(rest)
    <2>1. Handled
      BY <1>1, RestartCell DEF RetryNow
    <2>2. RetryTypes'
      BY <1>1, RetryAssumption DEF RetryNow, RetriesLeft, RetryTypes
    <2> QED
      BY <2>1, <2>2
  <1>2. CASE RetryLater(rest)
    <2>1. RetryTypes'
      BY <1>2, RetryAssumption DEF RetryLater, RetriesLeft, RetryTypes
    <2>2. CASE object["video"]
      <3>1. Run(WaitProgram, rest)
        BY <1>2, <2>2 DEF RetryLater
      <3>2. todo' \in Seq(Steps) /\ Stack'
        BY <3>1, WaitIsProgram, Pushed DEF Run
      <3> QED
        BY <2>1, <3>1, <3>2 DEF Run, Handled, player, PlayerTypes, Threading, Agree
    <2>3. CASE ~object["video"]
      <3>1. Run(<<>>, rest)
        BY <1>2, <2>3 DEF RetryLater
      <3>2. todo' = rest
        BY <3>1, ConcatEmptySeq DEF Run
      <3>3. todo' \in Seq(Steps) /\ Stack'
        BY <3>2, Boxes
      <3> QED
        BY <2>1, <3>1, <3>3 DEF Run, Handled, player, PlayerTypes, Threading, Agree
    <2> QED
      BY <2>2, <2>3
  <1>3. CASE RetryNoMore(rest)
    BY <1>3, StopCell DEF RetryNoMore, RetryTypes, retrying
  <1> QED
    BY <1>1, <1>2, <1>3 DEF Retry
-------------------------------------------------------------------------------
(* The actions                                                                 *)

THEOREM InitInv == Init => CellInv
  <1> SUFFICES ASSUME Init PROVE CellInv
    OBVIOUS
  <1>1. PlayerTypes /\ Threading
    BY FreshThread DEF Init, PlayerTypes, Threading, Fresh
  <1>2. RetryTypes
    BY RetryAssumption DEF Init, RetryTypes
  <1>3. TypeOK
    <2>1. /\ events \in Seq({"OPENED", "OPEN_FAILED", "EOF", "ERROR"})
          /\ todo \in Seq(Steps)
      BY DEF Init
    <2>2. {crashed, closed} \subseteq BOOLEAN /\ media \in {"NONE", "FILE", "NETWORK"}
      BY DEF Init
    <2> QED
      BY <1>1, <1>2, <2>1, <2>2, Types
  <1>4. BoxesBelow /\ JoinedBefore /\ SettlesAfter /\ DeletedBefore
    BY DEF Init, BoxesBelow, JoinedBefore, SettlesAfter, DeletedBefore
  <1>5. Knows /\ Forgotten
    BY DEF Init, Knows, Forgotten, Threads
  <1> QED
    BY <1>1, <1>3, <1>4, <1>5 DEF CellInv

\* What a handler finds when it begins.
LEMMA Loop ==
    ASSUME CellInv, Dispatching, ~crashed
    PROVE  /\ PlayerTypes /\ Threading /\ RetryTypes /\ Agree
           /\ todo \in Seq(Steps) /\ AllModal(todo)
           /\ todo # <<>> => Tail(todo) \in Seq(Steps) /\ AllModal(Tail(todo))
           /\ closed => media = "NONE" /\ ~object["video"]
  <1>1. PlayerTypes /\ Threading /\ RetryTypes
    BY Types DEF CellInv
  <1>2. /\ todo \in Seq(Steps) /\ AllModal(todo)
        /\ todo # <<>> => Tail(todo) \in Seq(Steps) /\ AllModal(Tail(todo))
    BY AtLoop DEF CellInv
  <1>3. \A i \in DOMAIN todo : todo[i].op # "settle" /\ todo[i].op # "forget"
    BY <1>2, ModalSteps DEF AllModal
  <1> QED
    BY <1>1, <1>2, <1>3 DEF CellInv, Knows, Agree, Forgotten

\* A handler that leaves the medium alone keeps the invariant.
LEMMA HandlerKeeps ==
    ASSUME CellInv, Dispatching, ~crashed,
           Handled, RetryTypes',
           UNCHANGED media, closed' = closed, crashed' \in BOOLEAN,
           events' \in Seq({"OPENED", "OPEN_FAILED", "EOF", "ERROR"})
    PROVE  CellInv'
  <1>1. TypeOK'
    BY DEF CellInv, Handled, TypeOK, PlayerTypes, ThreadStates, Steps, RetryTypes
  <1>2. Knows'
    BY DEF Handled, Knows, Agree
  <1>3. Forgotten'
    BY Loop DEF Handled, Forgotten
  <1> QED
    BY <1>1, <1>2, <1>3 DEF Handled, Stack, CellInv
LEMMA OpenSucceed == ASSUME CellInv, OnOpenSucceed PROVE CellInv'
  <1>1. /\ ~crashed /\ Dispatching
        /\ status' = "PLAY" /\ crashed' = ~object["video"]
        /\ UNCHANGED <<media, closed, shown_status, object, thread, todo, retrying>>
        /\ events # <<>> /\ events' = Tail(events)
    BY DEF OnOpenSucceed, Dispatch
  <1>2. TypeOK'
    <2>1. events' \in Seq({"OPENED", "OPEN_FAILED", "EOF", "ERROR"})
      BY <1>1 DEF CellInv, TypeOK
    <2>2. crashed' \in BOOLEAN /\ status' \in {"STOP", "PLAY", "PAUSE"}
      BY <1>1
    <2> QED
      BY <1>1, <2>1, <2>2 DEF CellInv, TypeOK, retrying
  <1>3. Stack' /\ Threading'
    BY <1>1 DEF CellInv, Stack, BoxesBelow, JoinedBefore, SettlesAfter, DeletedBefore,
                Threading, Modal
  <1>4. Knows'
    BY <1>1, Loop DEF Knows, Agree
  <1>5. Forgotten'
    BY <1>1 DEF CellInv, Forgotten
  <1> QED
    BY <1>2, <1>3, <1>4, <1>5 DEF CellInv, Stack

LEMMA OpenFailed == ASSUME CellInv, OnOpenFailed PROVE CellInv'
  <1>1. /\ ~crashed /\ Dispatching /\ UNCHANGED media /\ closed' = closed
        /\ events # <<>> /\ events' = Tail(events)
    BY DEF OnOpenFailed, Dispatch
  <1>2. events' \in Seq({"OPENED", "OPEN_FAILED", "EOF", "ERROR"})
    BY <1>1 DEF CellInv, TypeOK
  <1>3. Handled /\ RetryTypes' /\ crashed' \in BOOLEAN
    <2>1. CASE /\ crashed' = ~object["video"]
               /\ todo' = <<FailedBox>> \o todo
               /\ UNCHANGED <<player, retrying>>
      <3>1. todo' \in Seq(Steps) /\ AllModal(todo')
        BY <1>1, <2>1, Loop, Box DEF Modal
      <3>2. Stack'
        BY <3>1, Boxes
      <3>3. RetryTypes'
        BY <1>1, <2>1, Loop DEF retrying, RetryTypes
      <3> QED
        BY <1>1, <2>1, <3>1, <3>2, <3>3, Loop
           DEF Handled, player, PlayerTypes, Threading, Agree
    <2>2. CASE UNCHANGED crashed /\ Retry(todo)
      BY <1>1, <2>2, Loop, RetryCell DEF CellInv, TypeOK
    <2> QED
      BY <2>1, <2>2 DEF OnOpenFailed
  <1> QED
    BY <1>1, <1>2, <1>3, HandlerKeeps

LEMMA PlayerEOF == ASSUME CellInv, OnPlayerEOF PROVE CellInv'
  <1>1. /\ ~crashed /\ Dispatching /\ UNCHANGED media /\ closed' = closed
        /\ events # <<>> /\ events' = Tail(events) /\ crashed' = crashed
    BY DEF OnPlayerEOF, Dispatch
  <1>2. /\ events' \in Seq({"OPENED", "OPEN_FAILED", "EOF", "ERROR"})
        /\ crashed' \in BOOLEAN
    BY <1>1 DEF CellInv, TypeOK
  <1>3. Handled /\ RetryTypes'
    <2>1. CASE Retry(todo)
      BY <1>1, <2>1, Loop, RetryCell
    <2>2. CASE Restart(todo) /\ UNCHANGED retrying
      BY <1>1, <2>2, Loop, RestartCell DEF retrying, RetryTypes
    <2>3. CASE Stop(todo) /\ UNCHANGED retrying
      BY <1>1, <2>3, Loop, StopCell DEF retrying, RetryTypes
    <2> QED
      BY <2>1, <2>2, <2>3 DEF OnPlayerEOF
  <1> QED
    BY <1>1, <1>2, <1>3, HandlerKeeps

LEMMA PlayerError == ASSUME CellInv, OnPlayerError PROVE CellInv'
  <1>1. /\ ~crashed /\ Dispatching /\ UNCHANGED media /\ closed' = closed
        /\ events # <<>> /\ events' = Tail(events) /\ crashed' = crashed
    BY DEF OnPlayerError, Dispatch
  <1>2. /\ events' \in Seq({"OPENED", "OPEN_FAILED", "EOF", "ERROR"})
        /\ crashed' \in BOOLEAN
    BY <1>1 DEF CellInv, TypeOK
  <1>3. Handled /\ RetryTypes'
    <2>1. CASE Retry(todo)
      BY <1>1, <2>1, Loop, RetryCell
    <2>2. CASE Stop(todo) /\ UNCHANGED retrying
      BY <1>1, <2>2, Loop, StopCell DEF retrying, RetryTypes
    <2> QED
      BY <2>1, <2>2 DEF OnPlayerError
  <1> QED
    BY <1>1, <1>2, <1>3, HandlerKeeps

LEMMA LateRestart == ASSUME CellInv, SingleShot PROVE CellInv'
  <1>1. /\ ~crashed /\ Dispatching /\ Restart(todo)
        /\ UNCHANGED <<media, events, retry_cnt, since, crashed, closed>>
    BY DEF SingleShot
  <1>2. Handled
    BY <1>1, Loop, RestartCell
  <1>3. timers' \in Seq(Nat)
    <2>1. PICK i \in DOMAIN timers : timers' = RemoveAt(timers, i)
      BY DEF SingleShot
    <2>2. timers \in Seq(Nat) /\ i \in 1 .. Len(timers)
      BY <2>1 DEF CellInv, TypeOK
    <2>3. /\ SubSeq(timers, 1, i - 1) \in Seq(Nat)
          /\ SubSeq(timers, i + 1, Len(timers)) \in Seq(Nat)
      BY <2>2
    <2> QED
      BY <2>1, <2>3, ConcatProperties DEF RemoveAt
  <1>4. RetryTypes'
    BY <1>1, <1>3, Loop DEF RetryTypes
  <1>5. /\ events' \in Seq({"OPENED", "OPEN_FAILED", "EOF", "ERROR"})
        /\ crashed' \in BOOLEAN
    BY <1>1 DEF CellInv, TypeOK
  <1> QED
    BY <1>1, <1>2, <1>4, <1>5, HandlerKeeps
-------------------------------------------------------------------------------
(* The statements                                                              *)

LEMMA Top ==
    ASSUME CellInv, NEW op, NEW of, Doing = Do(op, of), op # "idle"
    PROVE  /\ todo # <<>> /\ todo[1] = Do(op, of) /\ 1 \in DOMAIN todo
           /\ todo[1].op = op /\ todo[1].of = of
  <1>1. todo # <<>>
    BY DEF Doing, Idle, Do
  <1>2. todo \in Seq(Steps)
    BY Types DEF CellInv
  <1> QED
    BY <1>1, <1>2 DEF Doing, Do

\* A statement on a player's thread keeps the invariant.
LEMMA ThreadStatement ==
    ASSUME CellInv, NEW t \in Threads,
           NEW op \in {"stop", "join", "start", "delete"}, Statement(op, t),
           NEW th \in ThreadStates, ToThread(t, th),
           op = "join" => th.at = "none",
           th.at \in {"none", "prepare", "opened", "exited"} => th.status = "STOP",
           op = "delete" => object' = [object EXCEPT ![t] = FALSE],
           op # "delete" => UNCHANGED object,
           ~object'[t] => th = Fresh
    PROVE  CellInv'
  <1>1. /\ todo # <<>> /\ todo[1] = Do(op, t) /\ 1 \in DOMAIN todo /\ todo' = Tail(todo)
        /\ todo[1].op = op /\ todo[1].of = t
    BY Top DEF Statement
  <1>2. /\ PlayerTypes /\ Threading /\ RetryTypes /\ todo \in Seq(Steps) /\ Stack
        /\ TypeOK
    BY Types DEF CellInv, Stack
  <1>3. /\ thread' = [thread EXCEPT ![t] = th] /\ ~crashed
        /\ UNCHANGED <<media, status, shown_status, retrying, closed, events, crashed>>
    BY DEF Statement, ToThread
  <1>4. PlayerTypes'
    BY <1>2, <1>3 DEF PlayerTypes
  <1>5. Threading'
    BY <1>2, <1>3, <1>4 DEF PlayerTypes, Threading
  <1>6. /\ thread'[t] = th
        /\ op = "delete" => ~object'[t]
        /\ \A u \in Threads : ~object[u] => ~object'[u]
    BY <1>2, <1>3 DEF PlayerTypes
  <1>7. todo' \in Seq(Steps) /\ Stack'
    <2>1. \A u : todo[1] = Do("join", u) =>
              thread'[u].at = "none" /\ thread'[u].status = "STOP"
      <3> SUFFICES ASSUME NEW u, todo[1] = Do("join", u)
                   PROVE  thread'[u].at = "none" /\ thread'[u].status = "STOP"
        OBVIOUS
      <3>1. op = "join" /\ u = t
        BY <1>1 DEF Do
      <3> QED
        BY <1>6, <3>1
    <2>2. \A u \in Threads : todo[1] = Do("delete", u) => ~object'[u]
      <3> SUFFICES ASSUME NEW u \in Threads, todo[1] = Do("delete", u)
                   PROVE  ~object'[u]
        OBVIOUS
      <3>1. op = "delete" /\ u = t
        BY <1>1 DEF Do
      <3> QED
        BY <1>6, <3>1
    <2> QED
      BY <1>1, <1>2, <1>6, <2>1, <2>2, Popped
  <1>8. \A i \in DOMAIN todo : i # 1 => i - 1 \in DOMAIN todo' /\ todo'[i - 1] = todo[i]
    BY <1>1, <1>2
  <1>9. TypeOK'
    BY <1>2, <1>3, <1>4, <1>7 DEF TypeOK, PlayerTypes, ThreadStates, Steps, retrying
  <1>10. Knows'
    <2> SUFFICES ASSUME \A i \in DOMAIN todo' : todo'[i].op # "settle"
                 PROVE  Agree'
      BY <1>3 DEF Knows, Agree
    <2>1. \A i \in DOMAIN todo : todo[i].op # "settle"
      BY <1>1, <1>8
    <2>2. op # "delete"
      BY <1>1, <1>2, <2>1 DEF Stack, SettlesAfter, Do
    <2> QED
      BY <1>3, <2>1, <2>2 DEF CellInv, Knows, Agree
  <1>11. Forgotten'
    <2> SUFFICES ASSUME closed PROVE \/ \E i \in DOMAIN todo' : todo'[i].op = "forget"
                                     \/ media = "NONE" /\ ~object'["video"]
      BY <1>3 DEF Forgotten
    <2>1. CASE \E i \in DOMAIN todo : todo[i].op = "forget"
      BY <1>1, <1>8, <2>1
    <2>2. CASE media = "NONE" /\ ~object["video"]
      BY <1>6, <2>2 DEF Threads
    <2> QED
      BY <2>1, <2>2 DEF CellInv, Forgotten
  <1> QED
    BY <1>5, <1>7, <1>9, <1>10, <1>11 DEF CellInv, Stack

LEMMA StopStatement ==
    ASSUME CellInv, NEW t \in Threads, RunStop(t) PROVE CellInv'
  <1> DEFINE th == IF object[t] THEN Stopped(thread[t]) ELSE thread[t]
  <1>1. PlayerTypes /\ Threading
    BY Types DEF CellInv
  <1>2. /\ th \in ThreadStates
        /\ th.at \in {"none", "prepare", "opened", "exited"} => th.status = "STOP"
        /\ ~object[t] => th = Fresh
    BY <1>1 DEF PlayerTypes, Threading, ThreadStates, Stopped
  <1> HIDE DEF th
  <1>3. Statement("stop", t) /\ ToThread(t, th) /\ UNCHANGED object
    BY DEF RunStop, th
  <1> QED
    BY <1>2, <1>3, ThreadStatement

LEMMA JoinStatement ==
    ASSUME CellInv, NEW t \in Threads, RunJoin(t) PROVE CellInv'
  <1> DEFINE th == [thread[t] EXCEPT !.at = "none"]
  <1>1. PlayerTypes /\ Threading
    BY Types DEF CellInv
  <1>2. /\ th \in ThreadStates /\ th.at = "none" /\ th.status = "STOP"
        /\ ~object[t] => th = Fresh
    <2>1. thread[t] \in ThreadStates
      BY <1>1 DEF PlayerTypes
    <2>2. thread[t].at \in {"none", "exited"} /\ thread[t].status = "STOP"
      BY <1>1 DEF RunJoin, Threading
    <2>3. th \in ThreadStates /\ th.at = "none" /\ th.status = "STOP"
      BY <2>1, <2>2 DEF ThreadStates
    <2>4. ~object[t] => thread[t] = Fresh
      BY <1>1 DEF Threading
    <2>5. thread[t] = Fresh => th = Fresh
      BY DEF Fresh
    <2> QED
      BY <2>3, <2>4, <2>5
  <1> HIDE DEF th
  <1>3. Statement("join", t) /\ ToThread(t, th) /\ UNCHANGED object
    BY DEF RunJoin, th
  <1> QED
    BY <1>2, <1>3, ThreadStatement

LEMMA StartStatement ==
    ASSUME CellInv, NEW t \in Threads, RunStart(t) PROVE CellInv'
  <1> DEFINE th == IF object[t] THEN Started(thread[t]) ELSE thread[t]
  <1>1. PlayerTypes /\ Threading
    BY Types DEF CellInv
  <1>2. /\ th \in ThreadStates
        /\ th.at \in {"none", "prepare", "opened", "exited"} => th.status = "STOP"
        /\ ~object[t] => th = Fresh
    BY <1>1 DEF PlayerTypes, Threading, ThreadStates, Started
  <1> HIDE DEF th
  <1>3. Statement("start", t) /\ ToThread(t, th) /\ UNCHANGED object
    BY DEF RunStart, th
  <1> QED
    BY <1>2, <1>3, ThreadStatement

LEMMA DeleteStatement ==
    ASSUME CellInv, NEW t \in Threads, RunDelete(t) PROVE CellInv'
  <1>1. Statement("delete", t) /\ ToThread(t, Fresh)
        /\ object' = [object EXCEPT ![t] = FALSE]
    BY DEF RunDelete
  <1>2. /\ Fresh \in ThreadStates /\ Fresh.status = "STOP"
    BY FreshThread DEF Fresh
  <1> QED
    BY <1>1, <1>2, ThreadStatement

\* What the end of stop and the end of close find.
LEMMA AtTheEnd ==
    ASSUME CellInv, NEW op \in {"settle", "forget"}, NEW of, Statement(op, of),
           UNCHANGED <<object, thread>>
    PROVE  /\ todo \in Seq(Steps) /\ todo # <<>> /\ todo[1].op = op
           /\ todo' = Tail(todo) /\ UNCHANGED <<events, crashed>> /\ ~crashed
           /\ todo' \in Seq(Steps) /\ Stack'
           /\ ~object["video"] /\ ~object["audio"]
           /\ \A i \in DOMAIN todo : i # 1 => i - 1 \in DOMAIN todo' /\ todo'[i - 1] = todo[i]
  <1>1. /\ todo # <<>> /\ todo[1] = Do(op, of) /\ 1 \in DOMAIN todo /\ todo' = Tail(todo)
        /\ todo[1].op = op /\ UNCHANGED <<events, crashed>> /\ ~crashed
    BY Top DEF Statement
  <1>2. TypeOK /\ Stack /\ todo \in Seq(Steps)
    BY Types DEF CellInv, Stack
  <1>3. ~object["video"] /\ ~object["audio"]
    BY <1>1, <1>2 DEF Stack, DeletedBefore, Threads
  <1>4. todo' \in Seq(Steps) /\ Stack'
    BY <1>1, <1>2, Popped DEF Do
  <1>5. \A i \in DOMAIN todo : i # 1 => i - 1 \in DOMAIN todo' /\ todo'[i - 1] = todo[i]
    BY <1>1, <1>2
  <1> QED
    BY <1>1, <1>2, <1>3, <1>4, <1>5

LEMMA SettleStatement == ASSUME CellInv, RunSettle PROVE CellInv'
  <1>1. /\ Statement("settle", "STOP") /\ UNCHANGED <<media, object, thread, timers, closed>>
        /\ status' = "STOP" /\ shown_status' = "STOP"
        /\ retry_cnt' = 0 /\ since' = retry_interval
    BY DEF RunSettle
  <1>2. /\ todo \in Seq(Steps) /\ todo[1].op = "settle"
        /\ todo' \in Seq(Steps) /\ Stack' /\ UNCHANGED <<events, crashed>>
        /\ ~object["video"] /\ ~object["audio"]
        /\ \A i \in DOMAIN todo : i # 1 => i - 1 \in DOMAIN todo' /\ todo'[i - 1] = todo[i]
    BY <1>1, AtTheEnd
  <1>3. RetryTypes'
    BY <1>1, RetryAssumption DEF RetryTypes, CellInv, TypeOK
  <1>4. TypeOK' /\ Threading'
    BY <1>1, <1>2, <1>3 DEF CellInv, TypeOK, RetryTypes, Steps, Threading
  <1>5. Knows'
    BY <1>1, <1>2 DEF CellInv, TypeOK, Threads, Knows
  <1>6. Forgotten'
    BY <1>1, <1>2 DEF CellInv, Forgotten
  <1> QED
    BY <1>2, <1>4, <1>5, <1>6 DEF CellInv, Stack

LEMMA ForgetStatement == ASSUME CellInv, RunForget PROVE CellInv'
  <1>1. /\ Statement("forget", "media") /\ UNCHANGED <<player, retrying, closed>>
        /\ UNCHANGED <<object, thread>>
        /\ media' = "NONE"
    BY DEF RunForget, player
  <1>2. /\ todo \in Seq(Steps) /\ todo[1].op = "forget"
        /\ todo' \in Seq(Steps) /\ Stack' /\ UNCHANGED <<events, crashed>>
        /\ ~object["video"] /\ ~object["audio"]
        /\ \A i \in DOMAIN todo : i # 1 => i - 1 \in DOMAIN todo' /\ todo'[i - 1] = todo[i]
    BY <1>1, AtTheEnd
  <1>3. TypeOK' /\ Threading'
    BY <1>1, <1>2 DEF CellInv, TypeOK, Steps, player, retrying, Threading
  <1>4. Knows'
    BY <1>1, <1>2 DEF CellInv, Knows, player
  <1>5. Forgotten'
    BY <1>1, <1>2 DEF Forgotten
  <1> QED
    BY <1>2, <1>3, <1>4, <1>5 DEF CellInv, Stack
-------------------------------------------------------------------------------
(* The user                                                                    *)

\* What the user finds on top, or nothing.
LEMMA OnTop ==
    ASSUME CellInv, ~crashed, Doing \in Modal
    PROVE  /\ PlayerTypes /\ Threading /\ RetryTypes /\ Agree
           /\ Tail(todo) \in Seq(Steps) /\ AllModal(Tail(todo))
           /\ closed => media = "NONE" /\ ~object["video"]
           /\ Dispatching
  <1>1. Dispatching
    BY DEF Dispatching
  <1>2. Doing.op # "idle"
    BY ModalSteps
  <1>3. todo # <<>>
    BY <1>2 DEF Doing, Idle, Do
  <1> QED
    BY <1>1, <1>3, Loop

LEMMA Ground ==
    ASSUME CellInv, Click
    PROVE  /\ PlayerTypes /\ Threading /\ RetryTypes /\ Agree
           /\ <<>> \in Seq(Steps) /\ AllModal(<<>>)
           /\ closed => media = "NONE" /\ ~object["video"]
           /\ Dispatching /\ ~crashed
           /\ events' \in Seq({"OPENED", "OPEN_FAILED", "EOF", "ERROR"})
           /\ RetryTypes' /\ crashed' = crashed /\ crashed' \in BOOLEAN
  <1>1. Dispatching /\ ~crashed /\ todo = <<>> /\ UNCHANGED <<events, retrying, crashed>>
    BY DEF Click, Dispatching, Doing
  <1>2. /\ PlayerTypes /\ Threading /\ RetryTypes /\ Agree
        /\ <<>> \in Seq(Steps) /\ AllModal(<<>>)
        /\ closed => media = "NONE" /\ ~object["video"]
    BY <1>1, Loop
  <1>3. events' \in Seq({"OPENED", "OPEN_FAILED", "EOF", "ERROR"}) /\ crashed' \in BOOLEAN
    BY <1>1 DEF CellInv, TypeOK
  <1>4. RetryTypes'
    BY <1>1, <1>2 DEF retrying, RetryTypes
  <1> QED
    BY <1>1, <1>2, <1>3, <1>4

LEMMA Answered ==
    ASSUME CellInv, NEW modal \in Modal, Answer(modal)
    PROVE  /\ PlayerTypes /\ Threading /\ RetryTypes /\ Agree
           /\ Tail(todo) \in Seq(Steps) /\ AllModal(Tail(todo))
           /\ closed => media = "NONE" /\ ~object["video"]
           /\ Dispatching /\ ~crashed
           /\ events' \in Seq({"OPENED", "OPEN_FAILED", "EOF", "ERROR"})
           /\ crashed' = crashed /\ crashed' \in BOOLEAN
  <1>1. ~crashed /\ Doing \in Modal /\ UNCHANGED <<events, crashed>>
    BY DEF Answer
  <1>2. events' \in Seq({"OPENED", "OPEN_FAILED", "EOF", "ERROR"}) /\ crashed' \in BOOLEAN
    BY <1>1 DEF CellInv, TypeOK
  <1> QED
    BY <1>1, <1>2, OnTop

LEMMA FailureDismissed == ASSUME CellInv, DismissFailed PROVE CellInv'
  <1>1. /\ Answer(FailedBox) /\ FailedBox \in Modal /\ Stop(Tail(todo))
        /\ UNCHANGED <<media, retrying, closed>>
    BY DEF DismissFailed, Modal
  <1>2. Handled
    BY <1>1, Answered, StopCell
  <1>3. RetryTypes'
    BY <1>1, Answered DEF retrying, RetryTypes
  <1> QED
    BY <1>1, <1>2, <1>3, Answered, HandlerKeeps

LEMMA InfoDismissed == ASSUME CellInv, DismissInfo PROVE CellInv'
  <1>1. /\ Answer(InfoBox) /\ InfoBox \in Modal /\ todo' = Tail(todo)
        /\ shown_status' = status
        /\ UNCHANGED <<media, status, object, thread, retrying, closed>>
    BY DEF DismissInfo, Modal
  <1>2. todo' \in Seq(Steps) /\ Stack'
    BY <1>1, Answered, Boxes
  <1>3. RetryTypes'
    BY <1>1, Answered DEF retrying, RetryTypes
  <1>4. PlayerTypes' /\ Threading' /\ Agree'
    BY <1>1, Answered DEF PlayerTypes, Threading, Agree
  <1>5. Handled
    BY <1>1, <1>2, <1>4 DEF Handled
  <1> QED
    BY <1>1, <1>3, <1>5, Answered, HandlerKeeps

LEMMA Rejected == ASSUME CellInv, Reject PROVE CellInv'
  <1>1. PICK modal \in Modal : Answer(modal)
    BY DEF Reject, Modal
  <1>2. todo' = Tail(todo) /\ UNCHANGED <<media, player, retrying, closed>>
    BY DEF Reject
  <1>3. todo' \in Seq(Steps) /\ Stack'
    BY <1>1, <1>2, Answered, Boxes
  <1>4. RetryTypes'
    BY <1>1, <1>2, Answered DEF retrying, RetryTypes
  <1>5. PlayerTypes' /\ Threading' /\ Agree'
    BY <1>1, <1>2, Answered DEF PlayerTypes, Threading, Agree, player
  <1>6. Handled
    BY <1>2, <1>3, <1>5 DEF Handled, player
  <1> QED
    BY <1>1, <1>2, <1>4, <1>6, Answered, HandlerKeeps

LEMMA Accepted == ASSUME CellInv, Accept PROVE CellInv'
  <1>1. PICK modal \in Modal : Answer(modal)
    BY DEF Accept, Modal
  <1>2. PICK m \in MediaTypes : media' = m /\ Start(m, Tail(todo))
    BY DEF Accept
  <1>3. closed' = FALSE /\ UNCHANGED retrying
    BY DEF Accept
  <1>4. /\ todo' \in Seq(Steps) /\ Stack'
        /\ PlayerTypes' /\ Threading' /\ Agree'
    BY <1>1, <1>2, Answered, StartCell
  <1>5. TypeOK'
    <2>1. RetryTypes'
      BY <1>1, <1>3, Answered DEF retrying, RetryTypes
    <2>2. media' \in {"NONE", "FILE", "NETWORK"}
      BY <1>2, MediaTypesAssumption
    <2> QED
      BY <1>1, <1>3, <1>4, <2>1, <2>2, Answered
         DEF TypeOK, PlayerTypes, ThreadStates, Steps, RetryTypes
  <1> QED
    BY <1>3, <1>4, <1>5 DEF CellInv, Stack, Knows, Agree, Forgotten

LEMMA DialogOpened ==
    ASSUME CellInv, ClickMedia \/ MenuOpen PROVE CellInv'
  <1>1. Click /\ UNCHANGED <<media, player, closed>>
    BY DEF ClickMedia, MenuOpen
  <1>2. PICK modal \in Modal : todo' = <<modal>>
    BY DEF ClickMedia, MenuOpen, Modal
  <1>3. todo' \in Seq(Steps) /\ AllModal(todo')
    BY <1>2, ModalSteps DEF AllModal
  <1>4. Stack'
    BY <1>3, Boxes
  <1>5. PlayerTypes' /\ Threading' /\ Agree'
    BY <1>1, Ground DEF PlayerTypes, Threading, Agree, player
  <1>6. Handled
    BY <1>1, <1>3, <1>4, <1>5 DEF Handled, player
  <1> QED
    BY <1>1, <1>6, Ground, HandlerKeeps

LEMMA StartClicked == ASSUME CellInv, ClickStart PROVE CellInv'
  <1>1. Click /\ Start(media, <<>>) /\ UNCHANGED <<media, closed>>
    BY DEF ClickStart
  <1>2. Handled
    BY <1>1, Ground, StartCell DEF Handled
  <1> QED
    BY <1>1, <1>2, Ground, HandlerKeeps

LEMMA PauseClicked == ASSUME CellInv, ClickPause PROVE CellInv'
  <1>1. /\ Click /\ shown_status = "PLAY"
        /\ thread' = [t \in Threads |->
                        IF object[t] THEN Paused(thread[t]) ELSE thread[t]]
        /\ status' = "PAUSE" /\ shown_status' = "PAUSE"
        /\ UNCHANGED <<media, object, todo, closed>>
    BY DEF ClickPause
  <1>2. /\ PlayerTypes /\ Threading /\ Agree
    BY <1>1, Ground
  <1>3. \A t \in Threads :
           /\ Paused(thread[t]) \in ThreadStates
           /\ Paused(thread[t]).at = thread[t].at
           /\ thread[t].status = "STOP" => Paused(thread[t]).status = "STOP"
    BY <1>2 DEF PlayerTypes, ThreadStates, Paused
  <1>4. PlayerTypes' /\ Threading'
    BY <1>1, <1>2, <1>3 DEF PlayerTypes, Threading
  <1>5. Agree'
    BY <1>1, <1>2 DEF Agree
  <1>6. todo' \in Seq(Steps) /\ Stack'
    <2>1. todo' = <<>>
      BY <1>1 DEF Click
    <2> QED
      BY <1>1, <2>1, Ground, Boxes
  <1>7. Handled
    BY <1>1, <1>4, <1>5, <1>6 DEF Handled
  <1> QED
    BY <1>1, <1>7, Ground, HandlerKeeps

LEMMA StopClicked == ASSUME CellInv, ClickStop PROVE CellInv'
  <1>1. Click /\ Stop(<<>>) /\ UNCHANGED <<media, closed>>
    BY DEF ClickStop
  <1>2. Handled
    BY <1>1, Ground, StopCell
  <1> QED
    BY <1>1, <1>2, Ground, HandlerKeeps

LEMMA CloseClicked == ASSUME CellInv, ClickClose PROVE CellInv'
  <1>1. /\ Click /\ closed' = TRUE /\ UNCHANGED media
        /\ todo' = CloseProgram \o <<>> /\ UNCHANGED player
    BY DEF ClickClose, Run
  <1>2. /\ todo' \in Seq(Steps) /\ Stack'
        /\ \E i \in DOMAIN todo' : todo'[i].op = "settle"
        /\ \E i \in DOMAIN todo' : todo'[i].op = "forget"
    BY <1>1, Ground, CloseIsProgram, Pushed
  <1>3. TypeOK' /\ Threading'
    BY <1>1, <1>2, Ground
       DEF CellInv, TypeOK, PlayerTypes, ThreadStates, Steps, RetryTypes, player, Threading
  <1>4. Knows' /\ Forgotten'
    BY <1>2 DEF Knows, Forgotten
  <1> QED
    BY <1>2, <1>3, <1>4 DEF CellInv, Stack

LEMMA Entered == ASSUME CellInv, Enter PROVE CellInv'
  <1>1. /\ ~crashed /\ todo = <<>> /\ shown_status' = status
        /\ UNCHANGED <<media, status, object, thread, events, todo, retrying, crashed,
                       closed>>
    BY DEF Enter
  <1>2. Dispatching
    BY <1>1 DEF Dispatching, Doing
  <1>3. PlayerTypes' /\ Threading' /\ Agree' /\ RetryTypes'
    BY <1>1, <1>2, Loop DEF PlayerTypes, Threading, Agree, RetryTypes, retrying
  <1>4. todo' \in Seq(Steps) /\ Stack'
    BY <1>1, <1>2, Loop, Boxes
  <1>5. Handled
    BY <1>1, <1>3, <1>4 DEF Handled
  <1>6. events' \in Seq({"OPENED", "OPEN_FAILED", "EOF", "ERROR"}) /\ crashed' \in BOOLEAN
    BY <1>1 DEF CellInv, TypeOK
  <1> QED
    BY <1>1, <1>2, <1>3, <1>5, <1>6, HandlerKeeps
-------------------------------------------------------------------------------
(* The workers and the time                                                    *)

\* A step of a worker keeps the invariant if it leaves the status STOP before it runs.
LEMMA WorkerKeeps ==
    ASSUME CellInv, NEW t \in Threads, NEW from, Worker(t, from), from # "none",
           NEW th \in ThreadStates, thread' = [thread EXCEPT ![t] = th],
           th.at \in {"none", "prepare", "opened", "exited"} => th.status = "STOP",
           events' \in Seq({"OPENED", "OPEN_FAILED", "EOF", "ERROR"})
    PROVE  CellInv'
  <1>1. /\ thread[t].at # "none"
        /\ UNCHANGED <<media, status, shown_status, object, todo, retrying, crashed,
                       closed>>
    BY DEF Worker
  <1>2. thread \in [Threads -> ThreadStates] /\ Threading
    BY Types DEF CellInv, PlayerTypes
  <1>3. object[t]
    BY <1>1, <1>2 DEF Threading, Fresh
  <1>4. TypeOK'
    BY <1>1, <1>2 DEF CellInv, TypeOK, ThreadStates, retrying
  <1>5. Threading'
    BY <1>1, <1>2, <1>3 DEF Threading
  <1>6. JoinedBefore'
    BY <1>1, <1>2 DEF CellInv, JoinedBefore
  <1>7. BoxesBelow' /\ SettlesAfter' /\ DeletedBefore'
    BY <1>1 DEF CellInv, BoxesBelow, SettlesAfter, DeletedBefore
  <1>8. Knows' /\ Forgotten'
    BY <1>1 DEF CellInv, Knows, Forgotten
  <1> QED
    BY <1>4, <1>5, <1>6, <1>7, <1>8 DEF CellInv

LEMMA WorkerMoves ==
    ASSUME CellInv, NEW t \in Threads, NEW from, Worker(t, from), from # "none",
           NEW to \in {"opened", "run", "task", "drain", "exited"},
           to \in {"opened", "exited"} => thread[t].status = "STOP",
           thread' = [thread EXCEPT ![t].at = to],
           \/ UNCHANGED events
           \/ \E e \in {"OPENED", "OPEN_FAILED", "EOF", "ERROR"} :
                 events' = Append(events, e)
    PROVE  CellInv'
  <1> DEFINE th == [thread[t] EXCEPT !.at = to]
  <1>1. thread[t] \in ThreadStates
    BY Types DEF CellInv, PlayerTypes
  <1>2. /\ th \in ThreadStates
        /\ th.at \in {"none", "prepare", "opened", "exited"} => th.status = "STOP"
    BY <1>1 DEF ThreadStates
  <1>3. thread' = [thread EXCEPT ![t] = th]
    OBVIOUS
  <1>4. events' \in Seq({"OPENED", "OPEN_FAILED", "EOF", "ERROR"})
    <2>1. events \in Seq({"OPENED", "OPEN_FAILED", "EOF", "ERROR"})
      BY DEF CellInv, TypeOK
    <2>2. \A e \in {"OPENED", "OPEN_FAILED", "EOF", "ERROR"} :
             Append(events, e) \in Seq({"OPENED", "OPEN_FAILED", "EOF", "ERROR"})
      BY <2>1, AppendProperties
    <2> QED
      BY <2>1, <2>2
  <1> HIDE DEF th
  <1> QED
    BY <1>2, <1>3, <1>4, WorkerKeeps

LEMMA WorkerRuns ==
    ASSUME CellInv, NEW t \in Threads, NEW from, Worker(t, from), from # "none",
           GoesRunning(t)
    PROVE  CellInv'
  <1> DEFINE th == [thread[t] EXCEPT !.at = "run", !.status = "RUNNING"]
  <1>1. thread[t] \in ThreadStates
    BY Types DEF CellInv, PlayerTypes
  <1>2. th \in ThreadStates /\ th.at = "run"
    BY <1>1 DEF ThreadStates
  <1>3. /\ thread' = [thread EXCEPT ![t] = th]
        /\ events' \in Seq({"OPENED", "OPEN_FAILED", "EOF", "ERROR"})
    BY DEF GoesRunning, CellInv, TypeOK
  <1> HIDE DEF th
  <1> QED
    BY <1>2, <1>3, WorkerKeeps

LEMMA WorkersKeep == ASSUME CellInv, VideoWorker \/ AudioWorker PROVE CellInv'
  <1>1. \A t \in Threads : thread[t].at \in {"none", "prepare", "opened", "exited"} =>
            thread[t].status = "STOP"
    BY DEF CellInv, Threading
  <1>2. "video" \in Threads /\ "audio" \in Threads
    BY DEF Threads
  <1>3. CASE VideoOpens
    <2>1. Worker("video", "prepare") /\ thread["video"].status = "STOP"
      BY <1>1, <1>2, <1>3 DEF VideoOpens, Worker
    <2> QED
      BY <1>2, <1>3, <2>1, WorkerMoves DEF VideoOpens, Posts
  <1>4. CASE VideoOpenFails
    <2>1. Worker("video", "prepare") /\ thread["video"].status = "STOP"
      BY <1>1, <1>2, <1>4 DEF VideoOpenFails, Worker
    <2> QED
      BY <1>2, <1>4, <2>1, WorkerMoves DEF VideoOpenFails, Posts, GoesTo
  <1>5. CASE VideoRuns
    BY <1>2, <1>5, WorkerRuns DEF VideoRuns
  <1>6. CASE VideoReads
    BY <1>2, <1>6, WorkerMoves DEF VideoReads, GoesTo
  <1>7. CASE VideoDecodes
    BY <1>2, <1>7, WorkerMoves DEF VideoDecodes, GoesTo
  <1>8. CASE VideoEnds
    BY <1>2, <1>8, WorkerMoves DEF VideoEnds, Posts
  <1>9. ASSUME NEW t \in Threads, Exits(t) PROVE CellInv'
    BY <1>9, WorkerMoves DEF Exits, GoesTo
  <1>10. CASE AudioOpens
    BY <1>2, <1>10, WorkerRuns DEF AudioOpens
  <1>11. CASE AudioOpenFails
    <2>1. Worker("audio", "prepare") /\ thread["audio"].status = "STOP"
      BY <1>1, <1>2, <1>11 DEF AudioOpenFails, Worker
    <2> QED
      BY <1>2, <1>11, <2>1, WorkerMoves DEF AudioOpenFails, GoesTo
  <1>12. CASE AudioChunk
    BY <1>2, <1>12, WorkerMoves DEF AudioChunk, GoesTo
  <1>13. CASE AudioDrained
    BY <1>2, <1>13, WorkerMoves DEF AudioDrained, GoesTo
  <1> QED
    BY <1>2, <1>3, <1>4, <1>5, <1>6, <1>7, <1>8, <1>9, <1>10, <1>11, <1>12, <1>13
       DEF VideoWorker, AudioWorker

LEMMA TimePasses == ASSUME CellInv, Tick PROVE CellInv'
  <1>1. /\ since' = IF since < retry_interval THEN since + 1 ELSE since
        /\ timers' = [i \in DOMAIN timers |-> IF timers[i] = 0 THEN 0 ELSE timers[i] - 1]
        /\ UNCHANGED <<media, player, events, todo, retry_cnt, crashed, closed>>
    BY DEF Tick
  <1>2. since' \in Int /\ since' <= retry_interval
    BY <1>1, RetryAssumption DEF CellInv, TypeOK
  <1>3. timers' \in Seq(Nat)
    <2>1. timers \in Seq(Nat)
      BY DEF CellInv, TypeOK
    <2>2. \A i \in 1 .. Len(timers) :
             (IF timers[i] = 0 THEN 0 ELSE timers[i] - 1) \in Nat
      BY <2>1
    <2>3. DOMAIN timers = 1 .. Len(timers) /\ Len(timers) \in Nat
      BY <2>1
    <2>4. timers' \in [1 .. Len(timers) -> Nat]
      BY <1>1, <2>2, <2>3
    <2> QED
      BY <2>3, <2>4
  <1>4. TypeOK'
    BY <1>1, <1>2, <1>3 DEF CellInv, TypeOK, player
  <1>5. Stack' /\ Threading' /\ Knows' /\ Forgotten'
    BY <1>1 DEF CellInv, Stack, BoxesBelow, JoinedBefore, SettlesAfter, DeletedBefore,
                Threading, Knows, Forgotten, player, Modal
  <1> QED
    BY <1>4, <1>5 DEF CellInv, Stack

LEMMA NothingHappens == ASSUME CellInv, UNCHANGED vars PROVE CellInv'
  <1>1. TypeOK' /\ Stack' /\ Threading' /\ Knows' /\ Forgotten'
    BY DEF vars, player, retrying, CellInv, TypeOK, Stack, BoxesBelow, JoinedBefore,
           SettlesAfter, DeletedBefore, Threading, Knows, Forgotten, Modal
  <1> QED
    BY <1>1 DEF CellInv, Stack

-------------------------------------------------------------------------------
(* The theorems                                                                *)

LEMMA NextInv == CellInv /\ [Next]_vars => CellInv'
  <1> SUFFICES ASSUME CellInv, [Next]_vars PROVE CellInv'
    OBVIOUS
  <1>1. CASE EventHandlers
    BY <1>1, OpenSucceed, OpenFailed, PlayerEOF, PlayerError DEF EventHandlers
  <1>2. CASE SingleShot
    BY <1>2, LateRestart
  <1>3. CASE Statements
    BY <1>3, StopStatement, JoinStatement, StartStatement, DeleteStatement,
       SettleStatement, ForgetStatement DEF Statements
  <1>4. CASE User
    BY <1>4, FailureDismissed, InfoDismissed, Rejected, Accepted, DialogOpened,
       StartClicked, PauseClicked, StopClicked, CloseClicked, Entered DEF User
  <1>5. CASE VideoWorker \/ AudioWorker
    BY <1>5, WorkersKeep
  <1>6. CASE Tick
    BY <1>6, TimePasses
  <1>7. CASE UNCHANGED vars
    BY <1>7, NothingHappens
  <1> QED
    BY <1>1, <1>2, <1>3, <1>4, <1>5, <1>6, <1>7 DEF Next

\* The invariant holds whatever the user, the workers, late events and timers do, for
\* every number of retries, every interval, and with no bound on events and boxes that
\* matters to it.
THEOREM CellInvariance == Spec => []CellInv
  <1>1. Init => CellInv
    BY InitInv
  <1>2. CellInv /\ [Next]_vars => CellInv'
    BY NextInv
  <1> QED
    BY <1>1, <1>2, PTL DEF Spec

\* Types; with it, retry (hvideowidget.cpp) never counts beyond retry_maxcnt.
THEOREM CellTypeCorrect == Spec => []TypeOK
  <1>1. CellInv => TypeOK
    BY DEF CellInv
  <1> QED
    BY <1>1, CellInvariance, PTL

\* Whenever the event loop runs, the two players exist together, so that resume and
\* seek (hvideowidget.cpp), which test only the video player, may use the audio player.
THEOREM PlayersArePaired == Spec => []ObjectsPaired
  <1>1. CellInv => ObjectsPaired
    <2> SUFFICES ASSUME CellInv, Dispatching PROVE object["video"] = object["audio"]
      BY DEF ObjectsPaired
    <2>1. AllModal(todo)
      BY AtLoop DEF CellInv
    <2>2. \A i \in DOMAIN todo : todo[i].op # "settle"
      BY <2>1, ModalSteps DEF AllModal
    <2> QED
      BY <2>2 DEF CellInv, Knows
  <1> QED
    BY <1>1, CellInvariance, PTL

\* Whenever the event loop runs, the status is STOP exactly when there is no player: what
\* HMultiView::getIdlePlayer and the buttons of the cell go by.
THEOREM StatusIsTrue == Spec => []StatusMatchesPlayer
  <1>1. CellInv => StatusMatchesPlayer
    BY Loop DEF StatusMatchesPlayer, Agree
  <1> QED
    BY <1>1, CellInvariance, PTL

\* No player is deleted, and none started again, while its thread is joinable: stop and
\* restart (hvideowidget.cpp) join first, and what a nested event loop may do between
\* two of their statements (nothing: none of them opens a box) cannot undo it.
THEOREM NoJoinableLost == Spec => []ThreadsJoined
  <1>1. CellInv => ThreadsJoined
    <2> SUFFICES ASSUME CellInv, NEW t \in Threads, NEW op \in {"delete", "start"},
                        Doing = Do(op, t)
                 PROVE  thread[t].at = "none" /\ thread[t].status = "STOP"
      BY DEF ThreadsJoined
    <2>1. 1 \in DOMAIN todo /\ todo[1].op = op /\ todo[1].of = t
      BY Top
    <2> QED
      BY <2>1 DEF CellInv, JoinedBefore
  <1> QED
    BY <1>1, CellInvariance, PTL

\* A cell that was closed has no player until the user opens a medium: a late event or
\* single shot restarts nothing, for close (hvideowidget.cpp) forgot the medium.
THEOREM ClosedIsClosed == Spec => []ClosedStaysClosed
  <1>1. CellInv => ClosedStaysClosed
    <2> SUFFICES ASSUME CellInv, closed, Dispatching PROVE ~object["video"]
      BY DEF ClosedStaysClosed
    <2>1. AllModal(todo)
      BY AtLoop DEF CellInv
    <2>2. \A i \in DOMAIN todo : todo[i].op # "forget"
      BY <2>1, ModalSteps DEF AllModal
    <2> QED
      BY <2>2 DEF CellInv, Forgotten
  <1> QED
    BY <1>1, CellInvariance, PTL
-------------------------------------------------------------------------------
(* No limbo                                                                    *)

\* The statements that end the video player's thread for the cell.
Ending == {Do("start", "video"), Do("delete", "video")}

\* The video player is about to be started again or deleted.
Coming == timers # <<>> \/ \E i \in DOMAIN todo : todo[i] \in Ending

Asked == \E i \in DOMAIN todo : todo[i] = FailedBox
Posted == \E i \in DOMAIN events : events[i] = "OPEN_FAILED"

QuitEnds == object["video"] /\ thread["video"].quit => Coming
GoneIsTold ==
    object["video"] /\ thread["video"].at \in {"none", "exited"} =>
        Coming \/ Posted \/ Asked
StopIsQuit ==
    thread["video"].at \in {"run", "task"} /\ thread["video"].status = "STOP" =>
        thread["video"].quit
StopsEnd ==
    \A i \in DOMAIN todo : todo[i] = Do("stop", "video") =>
        timers # <<>> \/ \E j \in DOMAIN todo : i < j /\ todo[j] \in Ending

\* What the cell knows of a worker that is gone or about to go.
Told == QuitEnds /\ GoneIsTold /\ StopIsQuit /\ StopsEnd

LEMMA EndingSteps ==
    /\ \A s \in Ending : s \notin Modal /\ s.op \in {"start", "delete"}
    /\ \A s \in Modal : s # Do("stop", "video")
  BY ModalSteps DEF Ending, Do

\* A program that ends the video player is pushed.
LEMMA ProgramTells ==
    ASSUME StopIsQuit, NEW rest \in Seq(Steps), AllModal(rest),
           NEW program, Program(program), Run(program, rest),
           NEW k \in DOMAIN program, program[k] \in Ending,
           \A i \in DOMAIN program : program[i] = Do("stop", "video") => i < k
    PROVE  Told'
  <1>1. /\ todo' = program \o rest /\ UNCHANGED player /\ program \in Seq(Steps)
        /\ k \in 1 .. Len(program)
    BY DEF Run, Program
  <1>2. /\ todo' \in Seq(Steps)
        /\ Len(todo') = Len(program) + Len(rest)
        /\ \A i \in 1 .. Len(todo') : todo'[i] = IF i <= Len(program) THEN program[i]
                                                 ELSE rest[i - Len(program)]
    BY <1>1, ConcatProperties
  <1>3. k \in DOMAIN todo' /\ todo'[k] \in Ending
    BY <1>1, <1>2
  <1>4. \A i \in DOMAIN todo' : todo'[i] = Do("stop", "video") => i < k
    <2> SUFFICES ASSUME NEW i \in DOMAIN todo', todo'[i] = Do("stop", "video")
                 PROVE  i < k
      OBVIOUS
    <2>1. i \in 1 .. Len(program)
      BY <1>1, <1>2, EndingSteps DEF AllModal
    <2> QED
      BY <1>1, <1>2, <2>1
  <1>5. Coming' /\ StopsEnd'
    BY <1>3, <1>4 DEF Coming, StopsEnd, Ending, Do
  <1>6. StopIsQuit'
    BY <1>1 DEF StopIsQuit, player
  <1> QED
    BY <1>5, <1>6 DEF Told, QuitEnds, GoneIsTold

\* A timer is pending.
LEMMA TimerTells ==
    ASSUME StopIsQuit, UNCHANGED player, timers' # <<>>
    PROVE  Told'
  BY DEF Told, QuitEnds, GoneIsTold, StopIsQuit, StopsEnd, Coming, player

\* Boxes and dialogs open and close.
LEMMA BoxTells ==
    ASSUME Told, AllModal(todo), AllModal(todo'), object' = object,
           thread'["video"].at = thread["video"].at,
           thread'["video"].quit = thread["video"].quit,
           thread'["video"].status = "STOP" => thread["video"].status = "STOP",
           timers' = timers,
           Asked' \/ ((Posted => Posted') /\ (Asked => Asked'))
    PROVE  Told'
  <1>1. Coming => Coming'
    BY EndingSteps DEF Coming, AllModal
  <1>2. StopsEnd'
    BY EndingSteps DEF StopsEnd, AllModal
  <1> QED
    BY <1>1, <1>2 DEF Told, QuitEnds, GoneIsTold, StopIsQuit

LEMMA StopTells ==
    ASSUME StopIsQuit, NEW rest \in Seq(Steps), AllModal(rest), Stop(rest)
    PROVE  Told'
  <1> DEFINE p == StopProgram
  <1>1. /\ DOMAIN p = 1 .. 7
        /\ p[1] = Do("stop", "video") /\ p[2] = Do("join", "video")
        /\ p[3] = Do("delete", "video") /\ p[4] = Do("stop", "audio")
        /\ p[5] = Do("join", "audio") /\ p[6] = Do("delete", "audio")
        /\ p[7] = Do("settle", "STOP")
    BY DEF StopProgram, StopOf
  <1>2. Program(p) /\ Run(p, rest)
    BY StopIsProgram DEF Stop
  <1> HIDE DEF p
  <1>3. 3 \in DOMAIN p /\ p[3] \in Ending
    BY <1>1 DEF Ending
  <1>4. \A i \in 1 .. 7 : i \in {1, 2, 3, 4, 5, 6, 7}
    OBVIOUS
  <1>5. \A i \in DOMAIN p : p[i] = Do("stop", "video") => i < 3
    BY <1>1, <1>4 DEF Do
  <1> QED
    BY <1>2, <1>3, <1>5, ProgramTells

LEMMA CloseTells ==
    ASSUME StopIsQuit, Run(CloseProgram, <<>>)
    PROVE  Told'
  <1> DEFINE p == CloseProgram
  <1>1. /\ DOMAIN p = 1 .. 8
        /\ p[1] = Do("stop", "video") /\ p[2] = Do("join", "video")
        /\ p[3] = Do("delete", "video") /\ p[4] = Do("stop", "audio")
        /\ p[5] = Do("join", "audio") /\ p[6] = Do("delete", "audio")
        /\ p[7] = Do("settle", "STOP") /\ p[8] = Do("forget", "media")
    BY DEF CloseProgram, StopProgram, StopOf
  <1>2. Program(p) /\ Run(p, <<>>) /\ <<>> \in Seq(Steps) /\ AllModal(<<>>)
    BY CloseIsProgram DEF AllModal
  <1> HIDE DEF p
  <1>3. 3 \in DOMAIN p /\ p[3] \in Ending
    BY <1>1 DEF Ending
  <1>4. \A i \in 1 .. 8 : i \in {1, 2, 3, 4, 5, 6, 7, 8}
    OBVIOUS
  <1>5. \A i \in DOMAIN p : p[i] = Do("stop", "video") => i < 3
    BY <1>1, <1>4 DEF Do
  <1> QED
    BY <1>2, <1>3, <1>5, ProgramTells

LEMMA RestartTells ==
    ASSUME StopIsQuit, PlayerTypes, NEW rest \in Seq(Steps), AllModal(rest), Restart(rest)
    PROVE  Told'
  <1>1. CASE Run(RestartProgram, rest)
    <2> DEFINE p == RestartProgram
    <2>1. /\ DOMAIN p = 1 .. 6
          /\ p[1] = Do("stop", "video") /\ p[2] = Do("join", "video")
          /\ p[3] = Do("start", "video") /\ p[4] = Do("stop", "audio")
          /\ p[5] = Do("join", "audio") /\ p[6] = Do("start", "audio")
      BY DEF RestartProgram, RestartOf
    <2>2. Program(p) /\ Run(p, rest)
      BY <1>1, RestartIsProgram
    <2> HIDE DEF p
    <2>3. 3 \in DOMAIN p /\ p[3] \in Ending
      BY <2>1 DEF Ending
    <2>4. \A i \in 1 .. 6 : i \in {1, 2, 3, 4, 5, 6}
      OBVIOUS
    <2>5. \A i \in DOMAIN p : p[i] = Do("stop", "video") => i < 3
      BY <2>1, <2>4 DEF Do
    <2> QED
      BY <2>2, <2>3, <2>5, ProgramTells
  <1>2. CASE ~object["video"] /\ Start(media, rest)
    <2>1. todo' \in Seq(Steps) /\ AllModal(todo')
      BY <1>2, Box DEF Start, Modal
    <2>2. StopsEnd'
      BY <2>1, EndingSteps DEF StopsEnd, AllModal
    <2>3. CASE UNCHANGED player
      BY <1>2, <2>2, <2>3 DEF Told, QuitEnds, GoneIsTold, StopIsQuit, player
    <2>4. CASE thread' = [t \in Threads |-> Started(Fresh)]
      <3>1. thread'["video"] = Started(Fresh) /\ Started(Fresh).quit = FALSE
        BY <2>4 DEF Threads, Started, Fresh
      <3> QED
        BY <2>2, <3>1, FreshThread DEF Told, QuitEnds, GoneIsTold, StopIsQuit
    <2> QED
      BY <1>2, <2>3, <2>4 DEF Start
  <1> QED
    BY <1>1, <1>2 DEF Restart

LEMMA RetryTells ==
    ASSUME StopIsQuit, PlayerTypes, RetryTypes,
           NEW rest \in Seq(Steps), AllModal(rest), Retry(rest)
    PROVE  Told'
  <1>1. CASE RetryNow(rest)
    BY <1>1, RestartTells DEF RetryNow
  <1>2. CASE RetryLater(rest)
    <2>1. UNCHANGED player
      BY <1>2 DEF RetryLater, Run
    <2>2. timers' # <<>>
      <3>1. retry_interval - since \in Nat /\ timers \in Seq(Nat)
        BY <1>2, RetryAssumption DEF RetryLater, RetryTypes
      <3> QED
        BY <1>2, <3>1, AppendProperties DEF RetryLater
    <2> QED
      BY <2>1, <2>2, TimerTells
  <1>3. CASE RetryNoMore(rest)
    BY <1>3, StopTells DEF RetryNoMore
  <1> QED
    BY <1>1, <1>2, <1>3 DEF Retry
LEMMA HandlersTell ==
    ASSUME CellInv, Told, EventHandlers \/ SingleShot PROVE Told'
  <1>1. ~crashed /\ Dispatching /\ StopIsQuit
    BY DEF EventHandlers, SingleShot, OnOpenSucceed, OnOpenFailed, OnPlayerEOF,
           OnPlayerError, Dispatch, Told
  <1>2. /\ PlayerTypes /\ RetryTypes /\ todo \in Seq(Steps) /\ AllModal(todo)
    BY <1>1, Loop
  <1>3. CASE OnOpenSucceed
    <2>1. /\ events # <<>> /\ Head(events) = "OPENED" /\ events' = Tail(events)
          /\ UNCHANGED <<object, thread, todo, retrying>>
      BY <1>3 DEF OnOpenSucceed, Dispatch
    <2>2. events \in Seq({"OPENED", "OPEN_FAILED", "EOF", "ERROR"})
      BY DEF CellInv, TypeOK
    <2>3. Posted => Posted'
      <3> SUFFICES ASSUME NEW i \in DOMAIN events, events[i] = "OPEN_FAILED"
                   PROVE  Posted'
        BY DEF Posted
      <3>1. i # 1 /\ i \in 1 .. Len(events)
        BY <2>1, <2>2
      <3>2. i - 1 \in DOMAIN events' /\ events'[i - 1] = events[i]
        BY <2>1, <2>2, <3>1
      <3> QED
        BY <3>2 DEF Posted
    <2>4. (Asked => Asked') /\ AllModal(todo')
      BY <1>2, <2>1 DEF Asked, AllModal, Modal
    <2> QED
      BY <1>2, <2>1, <2>3, <2>4, BoxTells DEF retrying
  <1>4. CASE OnOpenFailed
    <2>1. CASE todo' = <<FailedBox>> \o todo /\ UNCHANGED <<player, retrying>>
      <3>1. AllModal(todo')
        BY <1>2, <2>1, Box DEF Modal
      <3>2. 1 \in DOMAIN todo' /\ todo'[1] = FailedBox
        <4>1. <<FailedBox>> \in Seq(Steps) /\ Len(<<FailedBox>>) = 1
              /\ <<FailedBox>>[1] = FailedBox
          BY ModalSteps DEF Modal
        <4> QED
          BY <1>2, <2>1, <4>1, ConcatProperties
      <3>3. Asked'
        BY <3>2 DEF Asked, FailedBox
      <3> QED
        BY <1>2, <2>1, <3>1, <3>3, BoxTells DEF player, retrying
    <2>2. CASE Retry(todo)
      BY <1>1, <1>2, <2>2, RetryTells
    <2> QED
      BY <1>4, <2>1, <2>2 DEF OnOpenFailed
  <1>5. CASE OnPlayerEOF
    BY <1>1, <1>2, <1>5, RetryTells, RestartTells, StopTells DEF OnPlayerEOF
  <1>6. CASE OnPlayerError
    BY <1>1, <1>2, <1>6, RetryTells, StopTells DEF OnPlayerError
  <1>7. CASE SingleShot
    BY <1>1, <1>2, <1>7, RestartTells DEF SingleShot
  <1> QED
    BY <1>3, <1>4, <1>5, <1>6, <1>7 DEF EventHandlers

LEMMA StopsShift ==
    ASSUME StopsEnd, todo \in Seq(Steps), todo # <<>>, todo' = Tail(todo), timers' = timers
    PROVE  StopsEnd'
  <1>1. \A i \in DOMAIN todo : i # 1 => i - 1 \in DOMAIN todo' /\ todo'[i - 1] = todo[i]
    OBVIOUS
  <1>2. \A i \in DOMAIN todo' : i + 1 \in DOMAIN todo /\ todo'[i] = todo[i + 1]
    OBVIOUS
  <1> SUFFICES ASSUME NEW i \in DOMAIN todo', todo'[i] = Do("stop", "video"), timers = <<>>
               PROVE  \E j \in DOMAIN todo' : i < j /\ todo'[j] \in Ending
    BY DEF StopsEnd, Ending, Do
  <1>3. PICK j \in DOMAIN todo : i + 1 < j /\ todo[j] \in Ending
    BY <1>2 DEF StopsEnd
  <1>4. j - 1 \in DOMAIN todo' /\ todo'[j - 1] = todo[j] /\ i < j - 1
    BY <1>1, <1>3
  <1> QED
    BY <1>3, <1>4

\* A statement that leaves the video player's end to come.
LEMMA StatementTells ==
    ASSUME CellInv, Told, NEW op, NEW of, op # "idle",
           Statement(op, of), Do(op, of) \notin Ending, Do(op, of) # FailedBox,
           UNCHANGED timers, object'["video"] => object["video"],
           thread'["video"].quit => thread["video"].quit \/ Coming',
           thread'["video"].at \in {"none", "exited"} =>
               thread["video"].at \in {"none", "exited"},
           thread'["video"].at \in {"run", "task"} /\ thread'["video"].status = "STOP" =>
               thread'["video"].quit
    PROVE  Told'
  <1>1. /\ todo # <<>> /\ todo[1] = Do(op, of) /\ todo' = Tail(todo)
        /\ events' = events /\ todo \in Seq(Steps)
    BY Top DEF Statement, CellInv, TypeOK, Steps
  <1>2. \A i \in DOMAIN todo : i # 1 => i - 1 \in DOMAIN todo' /\ todo'[i - 1] = todo[i]
    BY <1>1
  <1>4. (Coming => Coming') /\ (Asked => Asked') /\ (Posted => Posted')
    BY <1>1, <1>2 DEF Coming, Asked, Posted, Ending, FailedBox, Do
  <1>5. StopsEnd'
    BY <1>1, StopsShift DEF Told
  <1> QED
    BY <1>4, <1>5 DEF Told, QuitEnds, GoneIsTold, StopIsQuit

LEMMA StatementsTell == ASSUME CellInv, Told, Statements PROVE Told'
  <1>1. /\ PlayerTypes /\ Threading /\ StopIsQuit /\ QuitEnds /\ StopsEnd
        /\ todo \in Seq(Steps) /\ "video" \in Threads
    BY Types DEF CellInv, Told, Threads
  <1>2. ASSUME NEW t \in Threads, RunStop(t) PROVE Told'
    <2>1. /\ Statement("stop", t) /\ UNCHANGED <<object, timers>>
          /\ thread' = [thread EXCEPT ![t] =
                           IF object[t] THEN Stopped(thread[t]) ELSE thread[t]]
      BY <1>2 DEF RunStop, ToThread, retrying
    <2>2. Do("stop", t) \notin Ending /\ Do("stop", t) # FailedBox
      BY DEF Ending, FailedBox, Do
    <2>3. CASE t # "video"
      <3>1. thread'["video"] = thread["video"]
        BY <1>1, <2>1, <2>3 DEF PlayerTypes
      <3> QED
        BY <1>1, <2>1, <2>2, <3>1, StatementTells DEF StopIsQuit
    <2>4. CASE t = "video"
      <3>1. /\ todo # <<>> /\ todo[1] = Do("stop", "video") /\ 1 \in DOMAIN todo
            /\ todo' = Tail(todo)
        BY <2>1, <2>4, Top DEF Statement
      <3>2. timers # <<>> \/ \E j \in DOMAIN todo : 1 < j /\ todo[j] \in Ending
        BY <1>1, <3>1 DEF StopsEnd
      <3>3. \A i \in DOMAIN todo : i # 1 => i - 1 \in DOMAIN todo' /\ todo'[i - 1] = todo[i]
        BY <1>1, <3>1
      <3>4. Coming'
        BY <2>1, <3>2, <3>3 DEF Coming, Ending, Do
      <3>5. thread'["video"] = IF object["video"] THEN Stopped(thread["video"])
                               ELSE thread["video"]
        BY <1>1, <2>1, <2>4 DEF PlayerTypes
      <3>6. /\ thread'["video"].at = thread["video"].at
            /\ object["video"] => thread'["video"].quit
        BY <1>1, <3>5 DEF PlayerTypes, ThreadStates, Stopped
      <3>7. thread'["video"].at \in {"run", "task"} /\ thread'["video"].status = "STOP" =>
               thread'["video"].quit
        BY <1>1, <3>5, <3>6 DEF StopIsQuit
      <3> QED
        BY <2>1, <2>2, <3>4, <3>6, <3>7, StatementTells
    <2> QED
      BY <2>3, <2>4
  <1>3. ASSUME NEW t \in Threads, RunJoin(t) PROVE Told'
    <2>1. /\ Statement("join", t) /\ UNCHANGED <<object, timers>>
          /\ thread' = [thread EXCEPT ![t] = [thread[t] EXCEPT !.at = "none"]]
          /\ thread[t].at \in {"none", "exited"}
      BY <1>3 DEF RunJoin, ToThread, retrying
    <2>2. Do("join", t) \notin Ending /\ Do("join", t) # FailedBox
      BY DEF Ending, FailedBox, Do
    <2>3. /\ thread'["video"].quit = thread["video"].quit
          /\ thread'["video"].at \in {"none", "exited"} =>
                thread["video"].at \in {"none", "exited"}
          /\ thread'["video"].at \in {"run", "task"} => thread'["video"] = thread["video"]
      BY <1>1, <2>1 DEF PlayerTypes, ThreadStates
    <2> QED
      BY <1>1, <2>1, <2>2, <2>3, StatementTells DEF StopIsQuit
  <1>4. ASSUME NEW t \in Threads, RunStart(t) PROVE Told'
    <2>1. /\ Statement("start", t) /\ UNCHANGED <<object, timers>>
          /\ thread' = [thread EXCEPT ![t] =
                           IF object[t] THEN Started(thread[t]) ELSE thread[t]]
      BY <1>4 DEF RunStart, ToThread, retrying
    <2>2. /\ todo # <<>> /\ todo[1] = Do("start", t) /\ 1 \in DOMAIN todo
          /\ todo' = Tail(todo) /\ todo[1].op = "start" /\ todo[1].of = t
      BY <2>1, Top DEF Statement
    <2>3. CASE t # "video"
      <3>1. thread'["video"] = thread["video"]
        BY <1>1, <2>1, <2>3 DEF PlayerTypes
      <3>2. Do("start", t) \notin Ending /\ Do("start", t) # FailedBox
        BY <2>3 DEF Ending, FailedBox, Do
      <3> QED
        BY <1>1, <2>1, <3>1, <3>2, StatementTells DEF StopIsQuit
    <2>4. CASE t = "video"
      <3>1. thread["video"].at = "none" /\ thread["video"].status = "STOP"
        BY <2>2, <2>4 DEF CellInv, JoinedBefore
      <3>2. thread'["video"] = IF object["video"] THEN Started(thread["video"])
                               ELSE thread["video"]
        BY <1>1, <2>1, <2>4 DEF PlayerTypes
      <3>3. /\ object["video"] => /\ thread'["video"].at = "prepare"
                                  /\ ~thread'["video"].quit
            /\ thread'["video"].at \notin {"run", "task"}
        BY <1>1, <3>1, <3>2 DEF PlayerTypes, ThreadStates, Started
      <3>4. StopsEnd'
        BY <1>1, <2>1, <2>2, StopsShift
      <3> QED
        BY <2>1, <3>3, <3>4 DEF Told, QuitEnds, GoneIsTold, StopIsQuit
    <2> QED
      BY <2>3, <2>4
  <1>5. ASSUME NEW t \in Threads, RunDelete(t) PROVE Told'
    <2>1. /\ Statement("delete", t) /\ UNCHANGED timers
          /\ thread' = [thread EXCEPT ![t] = Fresh]
          /\ object' = [object EXCEPT ![t] = FALSE]
      BY <1>5 DEF RunDelete, ToThread, retrying
    <2>2. /\ todo # <<>> /\ todo[1] = Do("delete", t) /\ 1 \in DOMAIN todo
          /\ todo' = Tail(todo) /\ todo[1].op = "delete"
      BY <2>1, Top DEF Statement
    <2>3. CASE t # "video"
      <3>1. thread'["video"] = thread["video"] /\ object'["video"] = object["video"]
        BY <1>1, <2>1, <2>3 DEF PlayerTypes
      <3>2. Do("delete", t) \notin Ending /\ Do("delete", t) # FailedBox
        BY <2>3 DEF Ending, FailedBox, Do
      <3> QED
        BY <1>1, <2>1, <3>1, <3>2, StatementTells DEF StopIsQuit
    <2>4. CASE t = "video"
      <3>1. thread'["video"] = Fresh /\ object'["video"] = FALSE
        BY <1>1, <2>1, <2>4 DEF PlayerTypes
      <3>2. StopsEnd'
        BY <1>1, <2>1, <2>2, StopsShift
      <3> QED
        BY <3>1, <3>2 DEF Told, QuitEnds, GoneIsTold, StopIsQuit, Fresh
    <2> QED
      BY <2>3, <2>4
  <1>6. CASE RunSettle
    <2>1. Do("settle", "STOP") \notin Ending /\ Do("settle", "STOP") # FailedBox
      BY DEF Ending, FailedBox, Do
    <2> QED
      BY <1>1, <1>6, <2>1, StatementTells DEF RunSettle, StopIsQuit
  <1>7. CASE RunForget
    <2>1. Do("forget", "media") \notin Ending /\ Do("forget", "media") # FailedBox
      BY DEF Ending, FailedBox, Do
    <2> QED
      BY <1>1, <1>7, <2>1, StatementTells DEF RunForget, StopIsQuit, player, retrying
  <1> QED
    BY <1>2, <1>3, <1>4, <1>5, <1>6, <1>7 DEF Statements
LEMMA UserTells == ASSUME CellInv, Told, User PROVE Told'
  <1>1. /\ StopIsQuit /\ todo \in Seq(Steps)
        /\ thread \in [Threads -> ThreadStates] /\ "video" \in Threads
    BY Types DEF Told, CellInv, PlayerTypes, Threads
  <1>2. ASSUME NEW modal \in Modal, Answer(modal)
        PROVE  /\ events' = events /\ AllModal(todo)
               /\ Tail(todo) \in Seq(Steps) /\ AllModal(Tail(todo))
               /\ modal # FailedBox /\ Asked => \E i \in DOMAIN Tail(todo) :
                                                   Tail(todo)[i] = FailedBox
    <2>1. Doing = modal /\ modal.op # "idle" /\ events' = events
      BY <1>2, ModalSteps DEF Answer
    <2>2. todo # <<>> /\ todo[1] = modal
      <3>1. todo # <<>>
        BY <2>1 DEF Doing, Idle, Do
      <3> QED
        BY <1>1, <2>1, <3>1 DEF Doing
    <2>3. /\ Tail(todo) \in Seq(Steps) /\ AllModal(Tail(todo))
      BY <1>2, Answered
    <2>4. Dispatching /\ ~crashed
      BY <1>2, Answered
    <2>5. AllModal(todo)
      BY <2>4, Loop
    <2>6. modal # FailedBox /\ Asked => \E i \in DOMAIN Tail(todo) : Tail(todo)[i] = FailedBox
      <3> SUFFICES ASSUME modal # FailedBox, NEW i \in DOMAIN todo, todo[i] = FailedBox
                   PROVE  \E j \in DOMAIN Tail(todo) : Tail(todo)[j] = FailedBox
        BY DEF Asked
      <3>1. i \in 1 .. Len(todo) /\ i # 1
        BY <1>1, <2>2
      <3>2. i - 1 \in DOMAIN Tail(todo) /\ Tail(todo)[i - 1] = todo[i]
        BY <1>1, <2>2, <3>1
      <3> QED
        BY <3>2
    <2> QED
      BY <2>1, <2>3, <2>5, <2>6
  <1>3. ASSUME Click
        PROVE  /\ todo = <<>> /\ AllModal(todo) /\ ~Asked
               /\ UNCHANGED <<events, timers>>
    BY <1>3 DEF Click, AllModal, Asked, retrying
  <1>4. FailedBox \in Modal /\ InfoBox \in Modal /\ CellDialog \in Modal
        /\ MenuDialog \in Modal
        /\ InfoBox # FailedBox /\ CellDialog # FailedBox /\ MenuDialog # FailedBox
    BY DEF Modal, FailedBox, InfoBox, CellDialog, MenuDialog, Do
  <1>5. CASE DismissFailed
    BY <1>1, <1>2, <1>4, <1>5, StopTells DEF DismissFailed
  <1>6. CASE DismissInfo
    <2>1. /\ Answer(InfoBox) /\ todo' = Tail(todo) /\ UNCHANGED <<object, thread, timers>>
      BY <1>6 DEF DismissInfo, retrying
    <2>2. AllModal(todo') /\ (Asked => Asked') /\ (Posted => Posted')
      BY <1>2, <1>4, <2>1 DEF AllModal, Modal, Asked, FailedBox, Posted
    <2> QED
      BY <1>2, <1>4, <2>1, <2>2, BoxTells
  <1>7. CASE Reject
    <2>1. PICK modal \in {CellDialog, MenuDialog} : Answer(modal)
      BY <1>7 DEF Reject
    <2>2. todo' = Tail(todo) /\ UNCHANGED <<object, thread, timers>>
      BY <1>7 DEF Reject, player, retrying
    <2>3. AllModal(todo') /\ (Asked => Asked') /\ (Posted => Posted')
      BY <1>2, <1>4, <2>1, <2>2 DEF AllModal, Modal, Asked, FailedBox, Posted
    <2> QED
      BY <1>2, <1>4, <2>1, <2>2, <2>3, BoxTells
  <1>8. ASSUME NEW m, NEW rest \in Seq(Steps), AllModal(rest), AllModal(todo), Start(m, rest),
               UNCHANGED <<events, timers>>,
               Asked => \E i \in DOMAIN rest : rest[i] = FailedBox
        PROVE  Told'
    <2>1. todo' \in Seq(Steps) /\ AllModal(todo')
      BY <1>8, Box DEF Start, Modal
    <2>2. StopsEnd'
      BY <2>1, EndingSteps DEF StopsEnd, AllModal
    <2>3. CASE thread' = [t \in Threads |-> Started(Fresh)]
      <3>1. thread'["video"] = Started(Fresh) /\ Started(Fresh).quit = FALSE
        BY <2>3 DEF Threads, Started, Fresh
      <3> QED
        BY <2>2, <3>1, FreshThread DEF Told, QuitEnds, GoneIsTold, StopIsQuit
    <2>4. CASE todo' = rest /\ UNCHANGED object
               /\ (thread' = thread \/ thread' = [t \in Threads |-> Resumed(thread[t])])
      <3>1. /\ thread'["video"].at = thread["video"].at
            /\ thread'["video"].quit = thread["video"].quit
            /\ thread'["video"].status = "STOP" => thread["video"].status = "STOP"
        <4>1. CASE thread' = thread
          BY <4>1
        <4>2. CASE thread' = [t \in Threads |-> Resumed(thread[t])]
          <5>1. thread'["video"] = Resumed(thread["video"]) /\ thread["video"] \in ThreadStates
            BY <1>1, <4>2
          <5> QED
            BY <5>1 DEF ThreadStates, Resumed
        <4> QED
          BY <2>4, <4>1, <4>2
      <3>2. (Asked => Asked') /\ (Posted => Posted')
        BY <1>8, <2>4 DEF Asked, FailedBox, Posted
      <3> QED
        BY <1>8, <2>1, <2>4, <3>1, <3>2, BoxTells
    <2>5. CASE todo' = <<InfoBox>> \o rest /\ UNCHANGED player
      <3>1. (Asked => Asked') /\ (Posted => Posted')
        <4>1. /\ Len(<<InfoBox>> \o rest) = 1 + Len(rest)
              /\ \A i \in 1 .. Len(rest) : (<<InfoBox>> \o rest)[i + 1] = rest[i]
          <5>1. <<InfoBox>> \in Seq(Steps) /\ Len(<<InfoBox>>) = 1
            BY <1>4, ModalSteps
          <5> QED
            BY <5>1, ConcatProperties
        <4>2. ASSUME NEW i \in DOMAIN rest, rest[i] = FailedBox
              PROVE  i + 1 \in DOMAIN todo' /\ todo'[i + 1] = FailedBox
          BY <2>1, <2>5, <4>1, <4>2
        <4>3. Asked => Asked'
          BY <1>8, <4>2 DEF Asked, FailedBox
        <4> QED
          BY <1>8, <4>3 DEF Posted
      <3> QED
        BY <1>8, <2>1, <2>5, <3>1, BoxTells DEF player
    <2> QED
      BY <1>8, <2>3, <2>4, <2>5 DEF Start, player
  <1>9. CASE Accept
    <2>1. PICK modal \in {CellDialog, MenuDialog} : Answer(modal)
      BY <1>9 DEF Accept
    <2>2. PICK m \in MediaTypes : Start(m, Tail(todo))
      BY <1>9 DEF Accept
    <2>3. UNCHANGED timers
      BY <1>9 DEF Accept, retrying
    <2> QED
      BY <1>2, <1>4, <1>8, <2>1, <2>2, <2>3
  <1>10. CASE ClickMedia \/ MenuOpen
    <2>1. Click /\ UNCHANGED <<object, thread>>
      BY <1>10 DEF ClickMedia, MenuOpen, player
    <2>2. PICK modal \in Modal : todo' = <<modal>>
      BY <1>10 DEF ClickMedia, MenuOpen, Modal
    <2>3. AllModal(todo')
      BY <2>2, ModalSteps DEF AllModal
    <2>4. Posted => Posted'
      BY <1>3, <2>1 DEF Posted
    <2> QED
      BY <1>3, <2>1, <2>3, <2>4, BoxTells
  <1>11. CASE ClickStart
    <2>1. <<>> \in Seq(Steps) /\ AllModal(<<>>)
      BY DEF AllModal
    <2> QED
      BY <1>3, <1>8, <1>11, <2>1 DEF ClickStart
  <1>12. CASE ClickPause
    <2>1. /\ Click /\ UNCHANGED <<object, todo>>
          /\ thread' = [t \in Threads |->
                          IF object[t] THEN Paused(thread[t]) ELSE thread[t]]
      BY <1>12 DEF ClickPause
    <2>2. /\ thread'["video"].at = thread["video"].at
          /\ thread'["video"].quit = thread["video"].quit
          /\ thread'["video"].status = "STOP" => thread["video"].status = "STOP"
      BY <1>1, <2>1 DEF ThreadStates, Paused
    <2>3. Posted => Posted'
      BY <1>3, <2>1 DEF Posted
    <2>4. AllModal(todo')
      BY <1>3, <2>1 DEF AllModal
    <2> QED
      BY <1>3, <2>1, <2>2, <2>3, <2>4, BoxTells
  <1>13. CASE ClickStop
    <2>1. <<>> \in Seq(Steps) /\ AllModal(<<>>)
      BY DEF AllModal
    <2> QED
      BY <1>1, <1>13, <2>1, StopTells DEF ClickStop
  <1>14. CASE ClickClose
    BY <1>1, <1>14, CloseTells DEF ClickClose
  <1>15. CASE Enter
    BY <1>15 DEF Enter, Told, QuitEnds, GoneIsTold, StopIsQuit, StopsEnd, Coming, Asked,
                 Posted, retrying, Ending, FailedBox, Do
  <1> QED
    BY <1>5, <1>6, <1>7, <1>9, <1>10, <1>11, <1>12, <1>13, <1>14, <1>15 DEF User
\* A worker that goes tells of it, unless it was told to quit.
LEMMA WorkersTell == ASSUME CellInv, Told, VideoWorker \/ AudioWorker PROVE Told'
  <1> DEFINE th == thread["video"]
  <1>1. /\ thread \in [Threads -> ThreadStates] /\ Threading
        /\ "video" \in Threads /\ "audio" \in Threads /\ "video" # "audio"
        /\ th \in ThreadStates
        /\ events \in Seq({"OPENED", "OPEN_FAILED", "EOF", "ERROR"})
    BY Types DEF CellInv, PlayerTypes, Threads
  <1>2. SUFFICES ASSUME UNCHANGED <<object, todo, timers>>
                 PROVE  /\ Posted => Posted'
                        /\ thread'["video"].quit = th.quit
                        /\ thread'["video"].at \in {"none", "exited"} =>
                              \/ th.at \in {"none", "exited"} \/ th.quit \/ ~object["video"]
                              \/ Posted'
                        /\ /\ thread'["video"].at \in {"run", "task"}
                           /\ thread'["video"].status = "STOP"
                           => th.quit
    <2>1. UNCHANGED <<object, todo, timers>>
      BY DEF VideoWorker, AudioWorker, VideoOpens, VideoOpenFails, VideoRuns, VideoReads,
             VideoDecodes, VideoEnds, Exits, AudioOpens, AudioOpenFails, AudioChunk,
             AudioDrained, Worker, retrying
    <2> QED
      BY <2>1 DEF Told, QuitEnds, GoneIsTold, StopIsQuit, StopsEnd, Coming, Asked,
                  Ending, FailedBox, Do
  <1>3. UNCHANGED events => (Posted => Posted')
    BY DEF Posted
  <1>4. ASSUME NEW e \in {"OPENED", "OPEN_FAILED", "EOF", "ERROR"},
               events' = Append(events, e)
        PROVE  (Posted => Posted') /\ (e = "OPEN_FAILED" => Posted')
    <2>1. /\ Len(events') = Len(events) + 1
          /\ DOMAIN events' = 1 .. Len(events')
          /\ \A i \in 1 .. Len(events) : i \in DOMAIN events' /\ events'[i] = events[i]
          /\ events'[Len(events) + 1] = e
      BY <1>1, <1>4, AppendProperties
    <2> QED
      BY <1>1, <2>1 DEF Posted
  <1>5. CASE AudioWorker
    <2>1. thread'["video"] = th /\ UNCHANGED events
      BY <1>1, <1>5 DEF AudioWorker, AudioOpens, AudioOpenFails, AudioChunk, AudioDrained,
                       Exits, GoesTo, GoesRunning
    <2> QED
      BY <1>3, <2>1 DEF Told, StopIsQuit
  <1>6. ASSUME NEW to, thread' = [thread EXCEPT !["video"].at = to]
        PROVE  /\ thread'["video"].at = to
               /\ thread'["video"].quit = th.quit
               /\ thread'["video"].status = th.status
    BY <1>1, <1>6 DEF ThreadStates
  <1>7. CASE VideoOpens
    <2>1. thread' = [thread EXCEPT !["video"].at = "opened"]
          /\ events' = Append(events, "OPENED")
      BY <1>7 DEF VideoOpens, Posts
    <2> QED
      BY <1>4, <1>6, <2>1
  <1>8. CASE VideoOpenFails
    <2>1. CASE th.quit /\ GoesTo("video", "exited")
      BY <1>3, <1>6, <2>1 DEF GoesTo
    <2>2. CASE Posts("video", "exited", "OPEN_FAILED")
      BY <1>4, <1>6, <2>2 DEF Posts
    <2> QED
      BY <1>8, <2>1, <2>2 DEF VideoOpenFails
  <1>9. CASE VideoRuns
    <2>1. /\ thread'["video"].at = "run" /\ thread'["video"].status = "RUNNING"
          /\ thread'["video"].quit = th.quit /\ UNCHANGED events
      BY <1>1, <1>9 DEF VideoRuns, GoesRunning, ThreadStates
    <2> QED
      BY <1>3, <2>1
  <1>10. CASE VideoReads
    <2>1. /\ thread' = [thread EXCEPT !["video"].at = "task"] /\ UNCHANGED events
          /\ th.status = "RUNNING"
      BY <1>10 DEF VideoReads, GoesTo
    <2> QED
      BY <1>3, <1>6, <2>1
  <1>11. CASE VideoDecodes
    <2>1. /\ thread' = [thread EXCEPT !["video"].at = "run"] /\ UNCHANGED events
          /\ th.at = "task"
      BY <1>11 DEF VideoDecodes, GoesTo, Worker
    <2> QED
      BY <1>3, <1>6, <2>1 DEF Told, StopIsQuit
  <1>12. CASE VideoEnds
    <2>1. PICK e \in {"EOF", "ERROR"} : Posts("video", "run", e)
      BY <1>12 DEF VideoEnds
    <2>2. /\ thread' = [thread EXCEPT !["video"].at = "run"] /\ events' = Append(events, e)
          /\ th.at = "task"
      BY <1>12, <2>1 DEF VideoEnds, Posts, Worker
    <2> QED
      BY <1>4, <1>6, <2>2 DEF Told, StopIsQuit
  <1>13. CASE Exits("video")
    <2>1. /\ thread' = [thread EXCEPT !["video"].at = "exited"] /\ UNCHANGED events
          /\ th.at = "run" /\ th.status = "STOP"
      BY <1>13 DEF Exits, GoesTo, Worker
    <2> QED
      BY <1>3, <1>6, <2>1 DEF Told, StopIsQuit
  <1> QED
    BY <1>5, <1>7, <1>8, <1>9, <1>10, <1>11, <1>12, <1>13 DEF VideoWorker

LEMMA NextTells == CellInv /\ Told /\ [Next]_vars => Told'
  <1> SUFFICES ASSUME CellInv, Told, [Next]_vars PROVE Told'
    OBVIOUS
  <1>1. CASE Tick
    <2>1. /\ timers' = [i \in DOMAIN timers |-> IF timers[i] = 0 THEN 0 ELSE timers[i] - 1]
          /\ UNCHANGED <<object, thread, events, todo>>
      BY <1>1 DEF Tick, player
    <2>2. timers' # <<>> <=> timers # <<>>
      <3>1. timers \in Seq(Nat)
        BY DEF CellInv, TypeOK
      <3>2. DOMAIN timers' = DOMAIN timers
        BY <2>1
      <3>3. timers = <<>> => timers' = <<>>
        BY <2>1, <3>1
      <3>4. timers # <<>> => 1 \in DOMAIN timers
        BY <3>1
      <3> QED
        BY <3>2, <3>3, <3>4
    <2> QED
      BY <2>1, <2>2 DEF Told, QuitEnds, GoneIsTold, StopIsQuit, StopsEnd, Coming, Asked,
                        Posted, Ending, FailedBox, Do
  <1>2. CASE UNCHANGED vars
    BY <1>2 DEF vars, player, retrying, Told, QuitEnds, GoneIsTold, StopIsQuit, StopsEnd,
                Coming, Asked, Posted, Ending, FailedBox, Do
  <1> QED
    BY <1>1, <1>2, HandlersTell, StatementsTell, UserTells, WorkersTell DEF Next

\* A cell whose worker is gone has been told, or has a retry pending: every path of
\* hvideowidget.cpp that stops the video player for a retry sets the timer or starts it
\* again, and a worker that was not told to quit posts OPEN_FAILED before it ends.
THEOREM NeverInLimbo == Spec => []NoLimbo
  <1>1. Init => Told
    BY DEF Init, Told, QuitEnds, GoneIsTold, StopIsQuit, StopsEnd, Threads, Fresh
  <1>2. CellInv /\ Told => NoLimbo
    BY DEF Told, GoneIsTold, Coming, Asked, Posted, NoLimbo, Contains, CellInv, TypeOK
  <1> QED
    BY <1>1, <1>2, CellInvariance, NextTells, PTL DEF Spec
===============================================================================
