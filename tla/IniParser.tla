------------------------------- MODULE IniParser ------------------------------
(* IniParser: a configuration text as a tree of sections, keys and comments,   *)
(* read by LoadFromMem, searched by GetValue, changed by SetValue and written  *)
(* back by DumpString.                                                         *)
(*                                                                             *)
(* A line of text is what ltrim, rtrim and the search for '#' make of it: a    *)
(* "BLANK" line (empty, or a comment alone), a "SECTION", a "KEY" with its     *)
(* value, or a "BAD" one; the latter three may end in a comment, the span, a   *)
(* sequence of pieces that each begin with '#'.                                *)
EXTENDS Naturals, Sequences, SequencesExt

CONSTANTS
    Text,        \* the strings that a label or a comment may be
    Value,       \* those that a value may be
    Cut(_),      \* what remains of a value up to its first '#'
    CommentOf(_) \* the pieces from there on

\* The empty string: the value of what is not set, and the section that is none.
Empty == ""

\* A value without a '#'.
Plain(v) == Cut(v) = v /\ CommentOf(v) = <<>>

ASSUME EmptyAssumption == Empty \in Text /\ Empty \in Value /\ Plain(Empty)
ASSUME CutAssumption ==
    \A v \in Value : Cut(v) \in Value /\ Plain(Cut(v)) /\ CommentOf(v) \in Seq(Text)

\* The lines a text is made of.  As the '#' is searched for first, no value has one.
LineTypes == {"BLANK", "SECTION", "KEY"}
Lines == [type : LineTypes \cup {"BAD"}, label : Text, value : {v \in Value : Plain(v)},
          span : Seq(Text)]

Line(type, label, value, span) ==
    [type |-> type, label |-> label, value |-> value, span |-> span]

\* An IniNode is a line and its children.  A DIV is kept line by line, and the SPAN of a
\* node in its line, so that only sections have children, and those have none.
Node(line, nodes) == [line |-> line, nodes |-> nodes]
Key(key, value) == Node(Line("KEY", key, value, <<>>), <<>>)

\* A tree, or no tree.  The type of a root that SetValue made is whatever the memory held.
Root(type, nodes) == [type |-> type, nodes |-> nodes]
RootTypes == {"ROOT", "SECTION", "KEY", "DIV", "SPAN"}
NULL == Root("NULL", <<>>)

-------------------------------------------------------------------------------
(* LoadFromMem                                                                 *)

\* The last line that is not blank.
LastContent(lines) == SelectLastInSeq(lines, LAMBDA line : line.type # "BLANK")

\* pScopeNode is the section begun last, no longer the root.
InSection(nodes) == nodes # <<>> /\ Last(nodes).line.type = "SECTION"

\* (mutant) the comments at the end of the file are dropped.
Add_DropsEnd(nodes, line, end) ==
    IF line.type = "BAD" \/ end THEN nodes
    ELSE IF line.type = "SECTION" \/ ~InSection(nodes) THEN Append(nodes, Node(line, <<>>))
    ELSE [nodes EXCEPT ![Len(nodes)].nodes = Append(@, Node(line, <<>>))]

\* A line belongs to the section begun last, or else to the root; a malformed line is
\* ignored.  Blank lines wait in strDiv for the next line with content, which gives them
\* to the section before it; those at the end, still there then, go to the root.
Add(nodes, line, end) ==
    IF line.type = "BAD" THEN nodes
    ELSE IF end \/ line.type = "SECTION" \/ ~InSection(nodes)
      THEN Append(nodes, Node(line, <<>>))
    ELSE [nodes EXCEPT ![Len(nodes)].nodes = Append(@, Node(line, <<>>))]

LoadFromMem(lines) ==
    LET nodes[i \in 0 .. Len(lines)] ==
            IF i = 0 THEN <<>> ELSE Add(nodes[i - 1], lines[i], i > LastContent(lines))
    IN Root("ROOT", nodes[Len(lines)])

-------------------------------------------------------------------------------
(* DumpString                                                                  *)

\* A '#' in a value begins a comment when it is read again.
DumpLine(line) ==
    Line(line.type, line.label, Cut(line.value), CommentOf(line.value) \o line.span)

DumpNode(n) ==
    <<DumpLine(n.line)>> \o [i \in DOMAIN n.nodes |-> DumpLine(n.nodes[i].line)]

\* What a root writes for itself: nothing, unless its type is that of another node.
DumpRoot(type) ==
    CASE type = "SECTION" -> <<Line("SECTION", Empty, Empty, <<>>)>>
      [] type = "KEY"     -> <<Line("KEY", Empty, Empty, <<>>)>>
      [] type = "SPAN"    -> <<Line("BLANK", Empty, Empty, <<>>)>>
      [] OTHER            -> <<>>

DumpString(root) ==
    DumpRoot(root.type)
    \o FlattenSeq([i \in DOMAIN root.nodes |-> DumpNode(root.nodes[i])])

-------------------------------------------------------------------------------
(* GetValue and SetValue                                                       *)

\* (mutant) the last one of them.
Find_Last(nodes, type, label) ==
    SelectLastInSeq(nodes, LAMBDA n : n.line.type = type /\ n.line.label = label)

\* Where IniNode::Get finds a node: the first of that type and label, or 0.
Find(nodes, type, label) ==
    SelectInSeq(nodes, LAMBDA n : n.line.type = type /\ n.line.label = label)

GetFrom(nodes, key) ==
    LET kv == Find(nodes, "KEY", key)
    IN IF kv = 0 THEN Empty ELSE nodes[kv].line.value

GetValue(root, key, section) ==
    IF section = Empty THEN GetFrom(root.nodes, key)
    ELSE LET s == Find(root.nodes, "SECTION", section)
         IN IF s = 0 THEN Empty ELSE GetFrom(root.nodes[s].nodes, key)

\* (mutant) a key is added without a look at the ones that are there.
SetIn_Appends(nodes, key, value) == Append(nodes, Key(key, value))

SetIn(nodes, key, value) ==
    LET kv == Find(nodes, "KEY", key)
    IN IF kv = 0 THEN Append(nodes, Key(key, value))
       ELSE [nodes EXCEPT ![kv].line.value = value]

\* root is not NULL.
SetValue(root, key, value, section) ==
    IF section = Empty THEN [root EXCEPT !.nodes = SetIn(@, key, value)]
    ELSE LET s == Find(root.nodes, "SECTION", section)
         IN IF s = 0
              THEN [root EXCEPT !.nodes = Append(@, Node(Line("SECTION", section, Empty, <<>>),
                                                         <<Key(key, value)>>))]
              ELSE [root EXCEPT !.nodes[s].nodes = SetIn(@, key, value)]
===============================================================================
