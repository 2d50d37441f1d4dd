-------------------------------- MODULE Confile -------------------------------
(* The configuration over several sessions of the program: load_confile and    *)
(* main, the settings that the main window and the grid make, and the dialog   *)
(* in which a medium is chosen, whose accept saves at once.  The file may not  *)
(* open, to be read or to be written; SaveAs opens it, which empties it, and   *)
(* the write may break off.  Any session may die, also in a save.  (A read     *)
(* that ends early is left out.)                                               *)
(*                                                                             *)
(* mv_row stands for mv_row and mv_col, menubar_visible for the five bars, and *)
(* main_window_state for main_window_rect too.                                 *)
EXTENDS IniParser

CONSTANTS
    Files,        \* the texts that a first session may find
    DefaultFiles, \* the texts that may have been installed as the default
    Absent,       \* no such file
    Sources,      \* what may be entered as a medium
    Parts(_),     \* what may be left of a value that was not written to its end
    CutTexts,     \* and of a comment or the name of a section
    MaxSteps      \* bound: starts of the program and things done in it

VARIABLES
    root,         \* g_confile's tree
    file,         \* g_conf_file
    default_file, \* MyMediaPlayer.conf.default
    pc,           \* where the UI thread is
    writing,      \* a save has opened the file
    dlg,          \* the dialog's tab and the text in each of its tabs
    found,        \* history: the text that this session read
    steps         \* starts and things done so far

vars == <<root, file, default_file, pc, writing, dlg, found, steps>>

Tabs == {"FILE", "NETWORK"}
SourceKey(tab) == IF tab = "FILE" THEN "last_file_source" ELSE "last_network_source"

\* The keys with their sections; loglevel stands for those that are only read.
Keys == {<<Empty, "loglevel">>, <<"ui", "mv_row">>, <<"ui", "menubar_visible">>,
         <<"ui", "main_window_state">>, <<"media", "last_tab">>} \cup
        {<<"media", SourceKey(tab)>> : tab \in Tabs}

Rows == {"1", "2"}
Bools == {"true", "false"}
WindowStates == {"NORMAL", "FULLSCREEN"}

ASSUME KeysAssumption == \A k \in Keys : k[1] \in Text /\ k[2] \in Text
ASSUME FilesAssumption == Files \cup DefaultFiles \subseteq Seq(Lines) /\ Absent \notin Seq(Lines)
ASSUME SourcesAssumption == Sources \subseteq Value
ASSUME PartsAssumption ==
    /\ \A v \in Value : Parts(v) \subseteq {w \in Value : Plain(w)}
    /\ CutTexts \subseteq Text
ASSUME SetAssumption ==
    \A v \in Rows \cup Bools \cup WindowStates \cup Tabs : v \in Value /\ Plain(v)
ASSUME MaxStepsAssumption == MaxSteps \in Nat

Closed == [tab |-> "none", text |-> [tab \in Tabs |-> Empty]]

Init ==
    /\ root = NULL
    /\ file \in Files \cup {Absent}
    /\ default_file \in DefaultFiles \cup {Absent}
    /\ pc = "off"
    /\ writing = FALSE
    /\ dlg = Closed
    /\ found = <<>>
    /\ steps = 0

-------------------------------------------------------------------------------
(* main                                                                        *)

\* LoadFromFile: the file is read, or does not open.
LoadFromFile(text) == IF text = Absent THEN {NULL} ELSE {LoadFromMem(text), NULL}

\* (mutant) the default is copied over whatever is there.
CopyDefault_Always == default_file

\* The default is copied when there is no file.
CopyDefault == IF file = Absent THEN default_file ELSE file

Step == steps < MaxSteps /\ steps' = steps + 1

\* load_confile; nobody looks at whether the copy and the reading worked.
Start ==
    /\ pc = "off"
    /\ Step
    /\ file' \in {CopyDefault, file}
    /\ root' \in LoadFromFile(file')
    /\ found' = IF root' = NULL THEN <<>> ELSE file'
    /\ pc' = "loaded"
    /\ UNCHANGED <<default_file, writing, dlg>>

\* g_confile->Set: without a tree, a root is made whose type is not initialised.
Set(key, value, section) ==
    IF root = NULL
      THEN \E type \in RootTypes : root' = SetValue(Root(type, <<>>), key, value, section)
      ELSE root' = SetValue(root, key, value, section)

\* The grid of the main window sets the layout that it read, or its own default.
Instance ==
    /\ pc = "loaded"
    /\ pc' = "on"
    /\ LET row == GetValue(root, "mv_row", "ui")
       IN Set("mv_row", IF row = Empty THEN "2" ELSE row, "ui")
    /\ UNCHANGED <<file, default_file, writing, dlg, found, steps>>

Idle == pc = "on" /\ dlg = Closed

SetLayout ==
    /\ Idle
    /\ Step
    /\ \E row \in Rows : Set("mv_row", row, "ui")
    /\ UNCHANGED <<file, default_file, pc, writing, dlg, found>>

CheckMenubar ==
    /\ Idle
    /\ Step
    /\ \E check \in Bools : Set("menubar_visible", check, "ui")
    /\ UNCHANGED <<file, default_file, pc, writing, dlg, found>>

\* app.exec returns: main sets the state of the window and saves.
Exit ==
    /\ Idle
    /\ Step
    /\ \E state \in WindowStates : Set("main_window_state", state, "ui")
    /\ pc' = "exit"
    /\ UNCHANGED <<file, default_file, writing, dlg, found>>

-------------------------------------------------------------------------------
(* HOpenMediaDlg                                                               *)

OpenDlg ==
    /\ Idle
    /\ Step
    /\ \E tab \in Tabs :
          dlg' = [tab |-> tab,
                  text |-> [t \in Tabs |-> GetValue(root, SourceKey(t), "media")]]
    /\ UNCHANGED <<root, file, default_file, pc, writing, found>>

Reject ==
    /\ pc = "on"
    /\ dlg # Closed
    /\ dlg' = Closed
    /\ UNCHANGED <<root, file, default_file, pc, writing, found, steps>>

\* accept, of what was entered in the current tab, sets the source.
Accept ==
    /\ pc = "on"
    /\ dlg # Closed
    /\ Step
    /\ \E source \in Sources :
          /\ dlg' = [dlg EXCEPT !.text[dlg.tab] = source]
          /\ Set(SourceKey(dlg.tab), source, "media")
    /\ pc' = "source"
    /\ UNCHANGED <<file, default_file, writing, found>>

\* The source was saved and is not empty: last_tab is set.
SetTab ==
    /\ pc = "tab"
    /\ Set("last_tab", dlg.tab, "media")
    /\ pc' = "accept"
    /\ UNCHANGED <<file, default_file, writing, dlg, found, steps>>

-------------------------------------------------------------------------------
(* Save                                                                        *)

\* Where the UI thread goes after a save.  An empty source is refused.
Saved ==
    /\ pc' = CASE pc = "source" -> IF dlg.text[dlg.tab] = Empty THEN "on" ELSE "tab"
               [] pc = "accept" -> "on"
               [] pc = "exit"   -> "saved"
    /\ dlg' = IF pc = "accept" THEN Closed ELSE dlg
    /\ UNCHANGED <<root, default_file, found, steps>>

SaveOpens ==
    /\ pc \in {"source", "accept", "exit"}
    /\ ~writing
    /\ writing' = TRUE
    /\ file' = <<>>
    /\ UNCHANGED <<root, default_file, pc, dlg, found, steps>>

SaveWrites ==
    /\ writing
    /\ writing' = FALSE
    /\ file' = DumpString(root)
    /\ Saved

\* The beginning of a sequence that was to be written, the last piece left out or cut
\* short: cuts[n] are what the n-th may be then.
Begun(pieces, cuts) ==
    UNION {{SubSeq(pieces, 1, n - 1)} \cup
           {Append(SubSeq(pieces, 1, n - 1), piece) : piece \in cuts[n]} : n \in DOMAIN pieces}

\* What a line is read as when it was cut short: without its ']' or '=' it is malformed.
CutLine(line) ==
    LET bad == Line("BAD", Empty, Empty, <<>>)
    IN {[line EXCEPT !.span = span] :
            span \in Begun(line.span, [n \in DOMAIN line.span |-> CutTexts])} \cup
       CASE line.type = "BLANK"   -> {Line("BLANK", text, Empty, <<>>) : text \in CutTexts}
         [] line.type = "SECTION" -> {Line("SECTION", text, Empty, <<>>) : text \in CutTexts}
                                     \cup {bad}
         [] line.type = "KEY"     -> {Line("KEY", line.label, v, <<>>) : v \in Parts(line.value)}
                                     \cup {bad}
         [] line.type = "BAD"     -> {bad}

CutText(text) == Begun(text, [n \in DOMAIN text |-> CutLine(text[n])])

\* The write, or the close, breaks off: only the beginning of the text is in the file, and
\* nobody looks at that either.
SaveBreaks ==
    /\ writing
    /\ writing' = FALSE
    /\ file' \in CutText(DumpString(root))
    /\ Saved

\* The file does not open; nobody looks at what Save returns.
SaveFails ==
    /\ pc \in {"source", "accept", "exit"}
    /\ ~writing
    /\ Saved
    /\ UNCHANGED <<file, writing>>

\* main frees the tree and returns.
Return ==
    /\ pc = "saved"
    /\ pc' = "off"
    /\ root' = NULL
    /\ found' = <<>>
    /\ UNCHANGED <<file, default_file, writing, dlg, steps>>

Crash ==
    /\ pc # "off"
    /\ pc' = "off"
    /\ root' = NULL
    /\ dlg' = Closed
    /\ found' = <<>>
    /\ writing' = FALSE
    /\ file' \in IF writing THEN CutText(DumpString(root)) ELSE {file}
    /\ UNCHANGED <<default_file, steps>>

-------------------------------------------------------------------------------

Next ==
    \/ Start \/ Instance \/ SetLayout \/ CheckMenubar \/ Exit
    \/ OpenDlg \/ Reject \/ Accept \/ SetTab
    \/ SaveOpens \/ SaveWrites \/ SaveBreaks \/ SaveFails \/ Return \/ Crash

Spec == Init /\ [][Next]_vars

-------------------------------------------------------------------------------
(* Properties                                                                  *)

\* The comments of a text, at the end of a line or on lines of their own.
Comments(text) ==
    {text[i].label : i \in {j \in DOMAIN text : text[j].type = "BLANK"}} \cup
    UNION {ToSet(text[i].span) : i \in {j \in DOMAIN text : text[j].type \in {"SECTION", "KEY"}}}

\* What the '#' of a source made a comment is not one: it goes when the source does.
Rests == UNION {ToSet(CommentOf(source)) : source \in Sources}

\* A save writes every comment of the text that the session read, wherever it stood: those
\* that LoadFromMem met, except at the end of malformed lines.
CommentsKept ==
    \A comment \in Comments(found) \ Rests : comment \in Comments(DumpString(root))

\* What GetValue returns for each key.
View(tree) == [k \in Keys |-> GetValue(tree, k[2], k[1])]

\* Where a section of a text begins; one that comes twice is the first.
Begins(text, section) ==
    IF section = Empty THEN 0
    ELSE SelectInSeq(text, LAMBDA line : line.type = "SECTION" /\ line.label = section)

\* The lines of a text that give a key a value.
Gives(text, k) ==
    {i \in DOMAIN text :
        /\ text[i].type = "KEY" /\ text[i].label = k[2]
        /\ k[1] = Empty \/ Begins(text, k[1]) \in 1..i
        /\ \A j \in Begins(text, k[1])+1..i : text[j].type # "SECTION"}

\* What a reader of a text finds: the first of those.
Read(text) ==
    [k \in Keys |-> LET lines == Gives(text, k)
                    IN IF lines = {} THEN Empty ELSE text[Min(lines)].value]

\* What the next start will find.
Stored == IF CopyDefault = Absent THEN Read(<<>>) ELSE Read(CopyDefault)

\* What was accepted in the dialog is what the next start finds, once the second
\* save reached its end: the medium up to its '#', and the tab; whatever stood in the file
\* for them before, and whatever became of the first save.
AcceptedIsStored ==
    [][pc = "accept" /\ SaveWrites =>
          /\ Stored'[<<"media", SourceKey(dlg.tab)>>] = Cut(dlg.text[dlg.tab])
          /\ Stored'[<<"media", "last_tab">>] = dlg.tab]_vars

Abstract == INSTANCE Settings WITH
    Unset <- Empty,
    settings <- View(root),
    running <- pc # "off",
    stored <- Stored,
    wiped <- writing

\* The text file implements a map, whatever comments, malformed lines or sections it has:
\* every GetValue returns what was set last, in this session or before the last save that
\* reached its end; or nothing, if the file did not open at the start.  After a save that
\* broke off or in which the program died, settings are lost, and at most one is cut short.
ImplementsSettings == Abstract!Spec
===============================================================================
