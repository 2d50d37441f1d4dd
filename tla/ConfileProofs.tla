----------------------------- MODULE ConfileProofs ----------------------------
(* Proofs about the configuration, for every text a file may have, every name  *)
(* of a medium and any number of sessions.                                     *)
(*                                                                             *)
(* A tree and a text agree when the lines of the tree, in the order in which   *)
(* DumpString walks it, are those of the text: Lays says so.  It holds of a    *)
(* text and the tree that LoadFromMem makes of it, by induction over the       *)
(* lines, and of a tree and the text that DumpString makes of it; and where it *)
(* holds, a reader finds in the text what GetValue finds in the tree.          *)
EXTENDS Confile, SequenceFacts

\* What may be a value in a tree: what was read, or what was entered.
Values == {v \in Value : Plain(v)} \cup Sources

\* The trees that come about: only sections have children, and those have none.
TreeLines == [type : LineTypes, label : Text, value : Values, span : Seq(Text)]
Leaves == {n \in [line : TreeLines, nodes : {<<>>}] : n.line.type # "SECTION"}
Nodes == {n \in [line : TreeLines, nodes : Seq(Leaves)] :
            n.line.type # "SECTION" => n.nodes = <<>>}

\* No key of the root comes after a section: written there, it would be the section's.
KeysFirst(nodes) ==
    \A i, j \in 1 .. Len(nodes) :
        i < j /\ nodes[j].line.type = "KEY" => nodes[i].line.type # "SECTION"

NoKeys(nodes) == \A i \in 1 .. Len(nodes) : nodes[i].line.type # "KEY"

\* A root of another type than ROOT, made by SetValue, has sections only: the line it
\* writes for itself might begin one.
Trees == {t \in [type : RootTypes, nodes : Seq(Nodes)] :
            KeysFirst(t.nodes) /\ (t.type # "ROOT" => NoKeys(t.nodes))}

\* The line of a node, or of its b-th child.
LineAt(nodes, a, b) == IF b = 0 THEN nodes[a].line ELSE nodes[a].nodes[b].line

\* A line of a text that is none of the tree's: a malformed one, or what a root that
\* has no keys wrote for itself.
Stray(text, nodes, i) ==
    \/ text[i].type = "BAD"
    \/ i = 1 /\ text[i].label = Empty /\ NoKeys(nodes)

\* pos[a][b] is where that line stands among the first n of a text, in order.
Places(text, n, nodes, pos) ==
    /\ \A a \in 1 .. Len(nodes) : \A b \in 0 .. Len(nodes[a].nodes) :
          pos[a][b] \in 1 .. n /\ text[pos[a][b]] = DumpLine(LineAt(nodes, a, b))
    /\ \A a, c \in 1 .. Len(nodes) :
          \A b \in 0 .. Len(nodes[a].nodes), d \in 0 .. Len(nodes[c].nodes) :
              a < c \/ (a = c /\ b < d) => pos[a][b] < pos[c][d]

HasPlace(nodes, pos, i) ==
    \E a \in 1 .. Len(nodes) : \E b \in 0 .. Len(nodes[a].nodes) : pos[a][b] = i

Lays(text, nodes, pos) ==
    /\ Places(text, Len(text), nodes, pos)
    /\ \A i \in 1 .. Len(text) : Stray(text, nodes, i) \/ HasPlace(nodes, pos, i)

-------------------------------------------------------------------------------
(* The parts of trees and texts.                                               *)

\* What belonging to these sets means.
LEMMA LineFields ==
    ASSUME NEW line \in TreeLines
    PROVE  /\ line.type \in LineTypes /\ line.label \in Text
           /\ line.value \in Values /\ line.span \in Seq(Text)
  BY DEF TreeLines

LEMMA NodeFields ==
    ASSUME NEW nodes \in Seq(Nodes), NEW a \in 1 .. Len(nodes)
    PROVE  /\ nodes[a] \in Nodes /\ nodes[a].line \in TreeLines
           /\ nodes[a].nodes \in Seq(Leaves) /\ Len(nodes[a].nodes) \in Nat
           /\ nodes[a].line.type # "SECTION" => nodes[a].nodes = <<>>
           /\ \A b \in 1 .. Len(nodes[a].nodes) :
                 /\ nodes[a].nodes[b] \in Leaves
                 /\ nodes[a].nodes[b].line \in TreeLines
                 /\ nodes[a].nodes[b].line.type # "SECTION"
  <1>1. nodes[a] \in Nodes
    BY ElementOfSeq
  <1>2. nodes[a].nodes \in Seq(Leaves) /\ nodes[a].line \in TreeLines
    BY <1>1 DEF Nodes
  <1>3. \A b \in 1 .. Len(nodes[a].nodes) : nodes[a].nodes[b] \in Leaves
    BY <1>2, ElementOfSeq
  <1> QED
    BY <1>1, <1>2, <1>3 DEF Nodes, Leaves

LEMMA LeavesAreNodes == Leaves \subseteq Nodes
  <1> SUFFICES ASSUME NEW n \in Leaves PROVE n \in Nodes
    OBVIOUS
  <1>1. n \in [line : TreeLines, nodes : {<<>>}] /\ n.nodes = <<>>
    BY DEF Leaves
  <1>2. <<>> \in Seq(Leaves)
    OBVIOUS
  <1>3. {<<>>} \subseteq Seq(Leaves)
    BY <1>2
  <1>4. n \in [line : TreeLines, nodes : Seq(Leaves)]
    BY <1>1, <1>3
  <1> QED
    BY <1>1, <1>4 DEF Nodes

\* Every value has a form in which it is stored.
LEMMA ValuesStored ==
    ASSUME NEW v \in Values
    PROVE  /\ v \in Value /\ Cut(v) \in Value /\ Plain(Cut(v))
           /\ CommentOf(v) \in Seq(Text)
           /\ v \notin Sources => Plain(v)
  BY SourcesAssumption, CutAssumption DEF Values

\* What is dumped is a line of a text, and has the label and the type it had.
LEMMA DumpedLine ==
    ASSUME NEW line \in TreeLines
    PROVE  /\ DumpLine(line) \in Lines
           /\ DumpLine(line).type = line.type /\ DumpLine(line).label = line.label
           /\ DumpLine(line).value = Cut(line.value)
           /\ DumpLine(line).span = CommentOf(line.value) \o line.span
  <1>1. /\ line.type \in LineTypes /\ line.label \in Text
        /\ line.value \in Values /\ line.span \in Seq(Text)
    BY LineFields
  <1>2. Cut(line.value) \in {v \in Value : Plain(v)} /\ CommentOf(line.value) \in Seq(Text)
    BY <1>1, ValuesStored
  <1>3. CommentOf(line.value) \o line.span \in Seq(Text)
    BY <1>1, <1>2, ConcatProperties
  <1> DEFINE c == Cut(line.value)
             s == CommentOf(line.value) \o line.span
  <1>4. DumpLine(line) = [type |-> line.type, label |-> line.label, value |-> c, span |-> s]
    BY DEF DumpLine, Line
  <1>5. c \in {v \in Value : Plain(v)} /\ s \in Seq(Text)
    BY <1>2, <1>3
  <1> HIDE DEF c, s
  <1>6. /\ DumpLine(line).type = line.type /\ DumpLine(line).label = line.label
        /\ DumpLine(line).value = c /\ DumpLine(line).span = s
    BY <1>4
  <1>7. DumpLine(line) \in Lines
    BY <1>1, <1>4, <1>5 DEF Lines
  <1> QED
    BY <1>6, <1>7 DEF c, s

\* What was read is dumped as it was.
LEMMA ReadLine ==
    ASSUME NEW line \in Lines, line.type # "BAD"
    PROVE  line \in TreeLines /\ DumpLine(line) = line
  <1>1. /\ line.type \in LineTypes /\ line.label \in Text /\ line.span \in Seq(Text)
        /\ line.value \in Value /\ Plain(line.value)
    BY DEF Lines
  <1>2. line \in TreeLines
    BY <1>1 DEF TreeLines, Lines, Values
  <1>3. <<>> \o line.span = line.span
    BY <1>1, ConcatEmptySeq
  <1>4. Cut(line.value) = line.value /\ CommentOf(line.value) = <<>>
    BY <1>1 DEF Plain
  <1>5. line = [type |-> line.type, label |-> line.label, value |-> line.value,
                span |-> line.span]
    BY DEF Lines
  <1>6. DumpLine(line) = [type |-> line.type, label |-> line.label, value |-> Cut(line.value),
                          span |-> CommentOf(line.value) \o line.span]
    BY DEF DumpLine, Line
  <1> QED
    BY <1>2, <1>3, <1>4, <1>5, <1>6

\* Find finds the first of the nodes it looks for.
LEMMA FindsFirst ==
    ASSUME NEW S, NEW nodes \in Seq(S), NEW type, NEW label
    PROVE  /\ Find(nodes, type, label) \in 0 .. Len(nodes)
           /\ Find(nodes, type, label) = 0 =>
                 \A i \in 1 .. Len(nodes) :
                     ~ (nodes[i].line.type = type /\ nodes[i].line.label = label)
           /\ Find(nodes, type, label) # 0 =>
                 /\ nodes[Find(nodes, type, label)].line.type = type
                 /\ nodes[Find(nodes, type, label)].line.label = label
                 /\ \A i \in 1 .. Find(nodes, type, label) - 1 :
                       ~ (nodes[i].line.type = type /\ nodes[i].line.label = label)
  <1> DEFINE T == {i \in 1 .. Len(nodes) :
                      nodes[i].line.type = type /\ nodes[i].line.label = label}
  <1>1. Find(nodes, type, label) = IF T # {} THEN Min(T) ELSE 0
    BY DEF Find, SelectInSeq
  <1>2. T \subseteq 1 .. Len(nodes) /\ T \subseteq Nat
    OBVIOUS
  <1>3. T # {} => Min(T) \in T /\ \A y \in T : Min(T) <= y
    <2> HIDE DEF T
    <2> QED
      BY <1>2, MinIsLeast
  <1>4. CASE T = {}
    BY <1>1, <1>4
  <1>5. CASE T # {}
    <2> DEFINE m == Find(nodes, type, label)
    <2>1. m \in T /\ \A y \in T : m <= y
      BY <1>1, <1>3, <1>5
    <2> HIDE DEF m
    <2>2. m \in 1 .. Len(nodes) /\ nodes[m].line.type = type /\ nodes[m].line.label = label
      BY <2>1
    <2>3. \A i \in 1 .. m - 1 : i \notin T
      BY <2>1, <2>2
    <2>4. \A i \in 1 .. m - 1 : i \in 1 .. Len(nodes)
      BY <2>2
    <2>5. m \in 0 .. Len(nodes) /\ m # 0
      BY <2>2
    <2>6. \A i \in 1 .. m - 1 : ~ (nodes[i].line.type = type /\ nodes[i].line.label = label)
      BY <2>3, <2>4
    <2> QED
      BY <2>2, <2>5, <2>6 DEF m
  <1> QED
    BY <1>4, <1>5

-------------------------------------------------------------------------------
(* Where a tree and a text agree, a reader finds the same.                     *)

LEMMA KeyFields ==
    ASSUME NEW k \in Keys
    PROVE  k[1] \in Text /\ k[2] \in Text /\ k[2] # Empty
  <1> DEFINE Names == {"loglevel", "mv_row", "menubar_visible", "main_window_state", "last_tab",
                       "last_file_source", "last_network_source"}
  <1>1. k \in {Empty, "ui", "media"} \X Names
    BY DEF Keys, Tabs, SourceKey
  <1>2. \A n \in Names : n # Empty
    BY Zenon DEF Empty
  <1>3. k[2] \in Names
    BY <1>1
  <1> QED
    BY <1>2, <1>3, KeysAssumption

\* The i-th line of a text is the one at (a, b) of a tree.
IsLineAt(text, nodes, pos, i, a, b) ==
    /\ pos[a][b] = i
    /\ LineAt(nodes, a, b) \in TreeLines
    /\ text[i] = DumpLine(LineAt(nodes, a, b))
    /\ text[i].type = LineAt(nodes, a, b).type
    /\ text[i].label = LineAt(nodes, a, b).label
    /\ text[i].type = "SECTION" => b = 0
    /\ b = 0 => LineAt(nodes, a, b) = nodes[a].line
    /\ b # 0 => /\ LineAt(nodes, a, b) = nodes[a].nodes[b].line
                /\ nodes[a].line.type = "SECTION"

\* A line that is a key or a section with a name is one of the tree's.
LEMMA LineHasPlace ==
    ASSUME NEW nodes \in Seq(Nodes), NEW text \in Seq(Lines), NEW pos,
           Lays(text, nodes, pos), NEW i \in 1 .. Len(text),
           text[i].type # "BAD", text[i].label # Empty
    PROVE  \E a \in 1 .. Len(nodes) : \E b \in 0 .. Len(nodes[a].nodes) :
              IsLineAt(text, nodes, pos, i, a, b)
  <1>1. PICK a \in 1 .. Len(nodes) : \E b \in 0 .. Len(nodes[a].nodes) : pos[a][b] = i
    BY DEF Lays, Places, HasPlace, Stray
  <1>2. PICK b \in 0 .. Len(nodes[a].nodes) : pos[a][b] = i
    BY <1>1
  <1>3. text[i] = DumpLine(LineAt(nodes, a, b))
    BY <1>2 DEF Lays, Places, HasPlace
  <1>4. /\ nodes[a].line \in TreeLines /\ Len(nodes[a].nodes) \in Nat
        /\ nodes[a].line.type # "SECTION" => nodes[a].nodes = <<>>
        /\ \A c \in 1 .. Len(nodes[a].nodes) :
              /\ nodes[a].nodes[c].line \in TreeLines
              /\ nodes[a].nodes[c].line.type # "SECTION"
    BY NodeFields
  <1>5. /\ b = 0 => LineAt(nodes, a, b) = nodes[a].line
        /\ b # 0 => LineAt(nodes, a, b) = nodes[a].nodes[b].line
    BY DEF LineAt
  <1>6. b # 0 => b \in 1 .. Len(nodes[a].nodes)
    BY <1>4
  <1>7. b # 0 => nodes[a].line.type = "SECTION"
    <2>1. nodes[a].nodes = <<>> => Len(nodes[a].nodes) = 0
      OBVIOUS
    <2> QED
      BY <1>4, <1>6, <2>1
  <1>8. LineAt(nodes, a, b) \in TreeLines
    BY <1>4, <1>5, <1>6
  <1>9. text[i].type = LineAt(nodes, a, b).type /\ text[i].label = LineAt(nodes, a, b).label
    BY <1>3, <1>8, DumpedLine
  <1>10. text[i].type = "SECTION" => b = 0
    BY <1>4, <1>5, <1>6, <1>9
  <1> QED
    BY <1>2, <1>3, <1>5, <1>7, <1>8, <1>9, <1>10 DEF IsLineAt

\* Where a section of a text begins, told by what is there.
LEMMA BeginsAt ==
    ASSUME NEW S, NEW text \in Seq(S), NEW section, section # Empty
    PROVE  /\ (\A i \in 1 .. Len(text) :
                  ~ (text[i].type = "SECTION" /\ text[i].label = section))
              => Begins(text, section) = 0
           /\ \A i \in 1 .. Len(text) :
                 /\ text[i].type = "SECTION" /\ text[i].label = section
                 /\ \A j \in 1 .. Len(text) :
                       text[j].type = "SECTION" /\ text[j].label = section => i <= j
                 => Begins(text, section) = i
  <1> DEFINE T == {i \in 1 .. Len(text) :
                      text[i].type = "SECTION" /\ text[i].label = section}
  <1>1. Begins(text, section) = IF T # {} THEN Min(T) ELSE 0
    BY DEF Begins, SelectInSeq
  <1>2. ASSUME \A i \in 1 .. Len(text) :
                  ~ (text[i].type = "SECTION" /\ text[i].label = section)
        PROVE  Begins(text, section) = 0
    BY <1>1, <1>2
  <1>3. ASSUME NEW i \in 1 .. Len(text),
               text[i].type = "SECTION", text[i].label = section,
               \A j \in 1 .. Len(text) :
                  text[j].type = "SECTION" /\ text[j].label = section => i <= j
        PROVE  Begins(text, section) = i
    <2>1. i \in T /\ \A j \in T : i <= j
      BY <1>3
    <2>2. T \subseteq Nat
      OBVIOUS
    <2> HIDE DEF T
    <2>3. Min(T) \in T /\ \A y \in T : Min(T) <= y
      BY <2>1, <2>2, MinIsLeast
    <2>4. Min(T) = i
      <3>1. Min(T) <= i /\ i <= Min(T) /\ Min(T) \in Nat /\ i \in Nat
        BY <2>1, <2>2, <2>3
      <3> HIDE DEF T
      <3> QED
        BY <3>1
    <2> QED
      BY <1>1, <2>1, <2>4
  <1> QED
    BY <1>2, <1>3

\* The lines of a text that give a key its value are those of nodes that stand in it in
\* their order, the j-th at q[j].
GivenBy(text, k, ns, q) ==
    /\ \A j \in 1 .. Len(ns) : q[j] \in Nat /\ text[q[j]].value = Cut(ns[j].line.value)
    /\ \A j, l \in 1 .. Len(ns) : j < l => q[j] < q[l]
    /\ \A i : i \in Gives(text, k) <=>
          \E j \in 1 .. Len(ns) :
             ns[j].line.type = "KEY" /\ ns[j].line.label = k[2] /\ q[j] = i

\* Among such nodes a reader and Find find the same.
LEMMA ReadsFirst ==
    ASSUME NEW ns \in Seq(Nodes), NEW text, NEW k \in Keys, NEW q, GivenBy(text, k, ns, q)
    PROVE  Read(text)[k] = Cut(GetFrom(ns, k[2]))
  <1> DEFINE kv == Find(ns, "KEY", k[2])
             G == Gives(text, k)
  <1>1. /\ kv \in 0 .. Len(ns)
        /\ kv = 0 => \A i \in 1 .. Len(ns) :
                        ~ (ns[i].line.type = "KEY" /\ ns[i].line.label = k[2])
        /\ kv # 0 => /\ ns[kv].line.type = "KEY" /\ ns[kv].line.label = k[2]
                     /\ \A i \in 1 .. kv - 1 :
                           ~ (ns[i].line.type = "KEY" /\ ns[i].line.label = k[2])
    BY FindsFirst
  <1>2. Read(text)[k] = IF G = {} THEN Empty ELSE text[Min(G)].value
    BY DEF Read
  <1>3. GetFrom(ns, k[2]) = IF kv = 0 THEN Empty ELSE ns[kv].line.value
    BY DEF GetFrom
  <1>4. Len(ns) \in Nat
    OBVIOUS
  <1>5. \A i : i \in G <=> \E j \in 1 .. Len(ns) :
                  ns[j].line.type = "KEY" /\ ns[j].line.label = k[2] /\ q[j] = i
    BY DEF GivenBy
  <1>5a. \A j \in 1 .. Len(ns) : q[j] \in Nat /\ text[q[j]].value = Cut(ns[j].line.value)
    BY DEF GivenBy
  <1>5b. \A j, l \in 1 .. Len(ns) : j < l => q[j] < q[l]
    BY DEF GivenBy
  <1> HIDE DEF kv, G
  <1>6. CASE kv = 0
    <2>1. G = {}
      BY <1>1, <1>5, <1>6
    <2> QED
      BY <1>2, <1>3, <1>6, <2>1, EmptyAssumption DEF Plain
  <1>7. CASE kv # 0
    <2>1. kv \in 1 .. Len(ns)
      BY <1>1, <1>4, <1>7
    <2>2. q[kv] \in G
      BY <1>1, <1>5, <1>7, <2>1
    <2>3. G \subseteq Nat
      BY <1>5, <1>5a
    <2>4. Min(G) \in G /\ \A y \in G : Min(G) <= y
      BY <2>2, <2>3, MinIsLeast
    <2>5. ASSUME NEW i \in G PROVE q[kv] <= i
      <3>1. PICK j \in 1 .. Len(ns) :
               ns[j].line.type = "KEY" /\ ns[j].line.label = k[2] /\ q[j] = i
        BY <1>5
      <3>2. ~ (j < kv)
        BY <1>1, <1>7, <2>1, <3>1
      <3>3. j = kv \/ q[kv] < q[j]
        BY <1>4, <1>5b, <2>1, <3>2
      <3> QED
        BY <1>5a, <2>1, <3>1, <3>3
    <2>6. Min(G) = q[kv]
      <3>1. Min(G) \in Nat /\ q[kv] \in Nat
        BY <2>2, <2>3, <2>4
      <3>2. Min(G) <= q[kv] /\ q[kv] <= Min(G)
        BY <2>2, <2>4, <2>5
      <3> QED
        BY <3>1, <3>2
    <2>7. text[q[kv]].value = Cut(ns[kv].line.value)
      BY <1>5a, <2>1
    <2> QED
      BY <1>2, <1>3, <1>7, <2>2, <2>6, <2>7
  <1> QED
    BY <1>6, <1>7

\* A section of the tree begins in the text where its first node of that name stands.
LEMMA BeginsWhereFound ==
    ASSUME NEW nodes \in Seq(Nodes), NEW text \in Seq(Lines), NEW pos,
           Lays(text, nodes, pos), NEW section, section # Empty
    PROVE  LET s == Find(nodes, "SECTION", section)
           IN Begins(text, section) = IF s = 0 THEN 0 ELSE pos[s][0]
  <1> DEFINE s == Find(nodes, "SECTION", section)
  <1>1. /\ s \in 0 .. Len(nodes)
        /\ s = 0 => \A i \in 1 .. Len(nodes) :
                       ~ (nodes[i].line.type = "SECTION" /\ nodes[i].line.label = section)
        /\ s # 0 => /\ nodes[s].line.type = "SECTION" /\ nodes[s].line.label = section
                    /\ \A i \in 1 .. s - 1 :
                          ~ (nodes[i].line.type = "SECTION" /\ nodes[i].line.label = section)
    BY FindsFirst
  <1> HIDE DEF s
  <1>2. ASSUME NEW i \in 1 .. Len(text), text[i].type = "SECTION", text[i].label = section
        PROVE  \E a \in 1 .. Len(nodes) :
                  /\ pos[a][0] = i
                  /\ nodes[a].line.type = "SECTION" /\ nodes[a].line.label = section
    <2>1. text[i].type # "BAD" /\ text[i].label # Empty
      BY <1>2
    <2>2. PICK a \in 1 .. Len(nodes) : \E b \in 0 .. Len(nodes[a].nodes) :
             IsLineAt(text, nodes, pos, i, a, b)
      BY <2>1, LineHasPlace
    <2> QED
      BY <1>2, <2>2 DEF IsLineAt
  <1>3. CASE s = 0
    <2>1. \A i \in 1 .. Len(text) : ~ (text[i].type = "SECTION" /\ text[i].label = section)
      BY <1>1, <1>2, <1>3
    <2> QED
      BY <1>3, <2>1, BeginsAt DEF s
  <1>4. CASE s # 0
    <2>1. s \in 1 .. Len(nodes) /\ Len(nodes) \in Nat
      BY <1>1, <1>4
    <2>2. 0 \in 0 .. Len(nodes[s].nodes) /\ \A a \in 1 .. Len(nodes) : 0 \in 0 .. Len(nodes[a].nodes)
      BY <2>1, NodeFields
    <2>3. /\ pos[s][0] \in 1 .. Len(text)
          /\ text[pos[s][0]] = DumpLine(nodes[s].line)
          /\ nodes[s].line \in TreeLines
      BY <2>1, <2>2, NodeFields DEF Lays, Places, HasPlace, LineAt
    <2>4. text[pos[s][0]].type = "SECTION" /\ text[pos[s][0]].label = section
      BY <1>1, <1>4, <2>3, DumpedLine
    <2>5. ASSUME NEW j \in 1 .. Len(text), text[j].type = "SECTION", text[j].label = section
          PROVE  pos[s][0] <= j
      <3>1. PICK a \in 1 .. Len(nodes) :
               /\ pos[a][0] = j
               /\ nodes[a].line.type = "SECTION" /\ nodes[a].line.label = section
        BY <1>2, <2>5
      <3>2. a = s \/ s < a
        BY <1>1, <1>4, <2>1, <3>1
      <3>3. s < a => pos[s][0] < pos[a][0]
        BY <2>1, <2>2 DEF Lays, Places, HasPlace
      <3> QED
        BY <2>3, <3>1, <3>2, <3>3
    <2>6. Begins(text, section) = pos[s][0]
      BY <2>3, <2>4, <2>5, BeginsAt
    <2> QED
      BY <1>4, <2>6 DEF s
  <1> QED
    BY <1>3, <1>4

\* The lines that give a key of no section its value are those of the root's nodes.
LEMMA GivesInRoot ==
    ASSUME NEW nodes \in Seq(Nodes), KeysFirst(nodes), NEW text \in Seq(Lines), NEW pos,
           Lays(text, nodes, pos), NEW k \in Keys, k[1] = Empty, NEW i
    PROVE  i \in Gives(text, k) <=>
              \E a \in 1 .. Len(nodes) :
                 nodes[a].line.type = "KEY" /\ nodes[a].line.label = k[2] /\ pos[a][0] = i
  <1>1. i \in Gives(text, k) <=>
           /\ i \in 1 .. Len(text)
           /\ text[i].type = "KEY" /\ text[i].label = k[2]
           /\ \A j \in 1 .. i : text[j].type # "SECTION"
    <2>1. DOMAIN text = 1 .. Len(text)
      OBVIOUS
    <2>2. Begins(text, k[1]) = 0 /\ 0 + 1 = 1
      BY DEF Begins
    <2> QED
      BY <2>1, <2>2 DEF Gives
  <1>2. Len(nodes) \in Nat /\ \A a \in 1 .. Len(nodes) : 0 \in 0 .. Len(nodes[a].nodes)
    BY NodeFields
  <1>3. ASSUME i \in Gives(text, k)
        PROVE  \E a \in 1 .. Len(nodes) :
                  nodes[a].line.type = "KEY" /\ nodes[a].line.label = k[2] /\ pos[a][0] = i
    <2>1. /\ i \in 1 .. Len(text) /\ text[i].type = "KEY" /\ text[i].label = k[2]
          /\ text[i].type # "BAD" /\ text[i].label # Empty
      BY <1>1, <1>3, KeyFields
    <2>1a. PICK a \in 1 .. Len(nodes) : \E b \in 0 .. Len(nodes[a].nodes) :
             IsLineAt(text, nodes, pos, i, a, b)
      BY <2>1, LineHasPlace
    <2>2. PICK b \in 0 .. Len(nodes[a].nodes) :
             /\ pos[a][b] = i
             /\ text[i].type = LineAt(nodes, a, b).type
             /\ text[i].label = LineAt(nodes, a, b).label
             /\ b = 0 => LineAt(nodes, a, b) = nodes[a].line
             /\ b # 0 => nodes[a].line.type = "SECTION"
      BY <2>1a DEF IsLineAt
    <2>3. b = 0
      <3> SUFFICES ASSUME b # 0 PROVE FALSE
        OBVIOUS
      <3>1. nodes[a].line.type = "SECTION" /\ nodes[a].line \in TreeLines
        BY <2>2, NodeFields
      <3>2. pos[a][0] \in 1 .. Len(text) /\ text[pos[a][0]] = DumpLine(nodes[a].line)
        BY <1>2 DEF Lays, Places, HasPlace, LineAt
      <3>3. pos[a][0] < pos[a][b]
        <4>1. 0 < b
          BY <1>2, NodeFields
        <4> QED
          BY <1>2, <4>1 DEF Lays, Places, HasPlace
      <3>4. text[pos[a][0]].type = "SECTION"
        BY <3>1, <3>2, DumpedLine
      <3>5. pos[a][0] \in 1 .. i
        BY <2>1, <2>2, <3>2, <3>3
      <3> QED
        BY <1>1, <1>3, <3>4, <3>5
    <2> QED
      BY <2>1, <2>2, <2>3
  <1>4. ASSUME NEW a \in 1 .. Len(nodes), nodes[a].line.type = "KEY",
               nodes[a].line.label = k[2], pos[a][0] = i
        PROVE  i \in Gives(text, k)
    <2>1. /\ i \in 1 .. Len(text) /\ text[i] = DumpLine(nodes[a].line)
          /\ nodes[a].line \in TreeLines
      BY <1>2, <1>4, NodeFields DEF Lays, Places, HasPlace, LineAt
    <2>2. text[i].type = "KEY" /\ text[i].label = k[2]
      BY <1>4, <2>1, DumpedLine
    <2>3. ASSUME NEW j \in 1 .. i, text[j].type = "SECTION" PROVE FALSE
      <3>1. j \in 1 .. Len(text) /\ j <= i
        BY <2>1
      <3>2. ~ Stray(text, nodes, j)
        BY <1>4, <2>3 DEF Stray, NoKeys
      <3>2a. PICK c \in 1 .. Len(nodes) : \E d \in 0 .. Len(nodes[c].nodes) : pos[c][d] = j
        BY <3>1, <3>2 DEF Lays, Places, HasPlace
      <3>3. PICK d \in 0 .. Len(nodes[c].nodes) : pos[c][d] = j
        BY <3>2a
      <3>4. text[j] = DumpLine(LineAt(nodes, c, d))
        BY <3>3 DEF Lays, Places, HasPlace
      <3>5. d = 0 /\ nodes[c].line.type = "SECTION"
        <4>1. CASE d = 0
          <5>1. nodes[c].line \in TreeLines /\ LineAt(nodes, c, d) = nodes[c].line
            BY <4>1, NodeFields DEF LineAt
          <5> QED
            BY <2>3, <3>4, <4>1, <5>1, DumpedLine
        <4>2. CASE d # 0
          <5>1. d \in 1 .. Len(nodes[c].nodes)
            BY <4>2, NodeFields
          <5>2. /\ nodes[c].nodes[d].line \in TreeLines
                /\ nodes[c].nodes[d].line.type # "SECTION"
                /\ LineAt(nodes, c, d) = nodes[c].nodes[d].line
            BY <4>2, <5>1, NodeFields DEF LineAt
          <5> QED
            BY <2>3, <3>4, <5>2, DumpedLine
        <4> QED
          BY <4>1, <4>2
      <3>6. ~ (c < a)
        BY <1>4, <3>5 DEF KeysFirst
      <3>7. a < c \/ a = c
        BY <1>2, <3>6
      <3>8. a < c => pos[a][0] < pos[c][0]
        BY <1>2 DEF Lays, Places, HasPlace
      <3> QED
        BY <1>4, <2>1, <3>1, <3>3, <3>5, <3>7, <3>8
    <2> QED
      BY <1>1, <2>1, <2>2, <2>3
  <1> QED
    BY <1>3, <1>4

\* The lines that give a key of a section its value are those of its first section's
\* children.
LEMMA GivesInSection ==
    ASSUME NEW nodes \in Seq(Nodes), KeysFirst(nodes), NEW text \in Seq(Lines), NEW pos,
           Lays(text, nodes, pos), NEW k \in Keys, k[1] # Empty,
           NEW s \in 1 .. Len(nodes), s = Find(nodes, "SECTION", k[1]), NEW i
    PROVE  i \in Gives(text, k) <=>
              \E b \in 1 .. Len(nodes[s].nodes) :
                 /\ nodes[s].nodes[b].line.type = "KEY"
                 /\ nodes[s].nodes[b].line.label = k[2]
                 /\ pos[s][b] = i
  <1>1. /\ Len(nodes) \in Nat /\ \A a \in 1 .. Len(nodes) : 0 \in 0 .. Len(nodes[a].nodes)
        /\ \A a \in 1 .. Len(nodes) : Len(nodes[a].nodes) \in Nat
    BY NodeFields
  <1>2. nodes[s].line.type = "SECTION"
    BY <1>1, FindsFirst
  <1>3. Begins(text, k[1]) = pos[s][0] /\ pos[s][0] \in 1 .. Len(text)
    <2>1. s # 0
      OBVIOUS
    <2>2. Begins(text, k[1]) = pos[s][0]
      BY <2>1, BeginsWhereFound
    <2>3. pos[s][0] \in 1 .. Len(text)
      BY <1>1 DEF Lays, Places, HasPlace
    <2> QED
      BY <2>2, <2>3
  <1>4. i \in Gives(text, k) <=>
           /\ i \in 1 .. Len(text)
           /\ text[i].type = "KEY" /\ text[i].label = k[2]
           /\ pos[s][0] <= i
           /\ \A j \in pos[s][0] + 1 .. i : text[j].type # "SECTION"
    <2>1. DOMAIN text = 1 .. Len(text)
      OBVIOUS
    <2>2. \A j \in 1 .. Len(text) : pos[s][0] \in 1 .. j <=> pos[s][0] <= j
      BY <1>3
    <2> QED
      BY <1>3, <2>1, <2>2 DEF Gives
  <1>5. ASSUME i \in Gives(text, k)
        PROVE  \E b \in 1 .. Len(nodes[s].nodes) :
                  /\ nodes[s].nodes[b].line.type = "KEY"
                  /\ nodes[s].nodes[b].line.label = k[2]
                  /\ pos[s][b] = i
    <2>1. /\ i \in 1 .. Len(text) /\ text[i].type = "KEY" /\ text[i].label = k[2]
          /\ text[i].type # "BAD" /\ text[i].label # Empty
      BY <1>4, <1>5, KeyFields
    <2>2. PICK a \in 1 .. Len(nodes) : \E b \in 0 .. Len(nodes[a].nodes) :
             IsLineAt(text, nodes, pos, i, a, b)
      BY <2>1, LineHasPlace
    <2>3. PICK b \in 0 .. Len(nodes[a].nodes) :
             /\ pos[a][b] = i
             /\ text[i].type = LineAt(nodes, a, b).type
             /\ text[i].label = LineAt(nodes, a, b).label
             /\ b = 0 => LineAt(nodes, a, b) = nodes[a].line
             /\ b # 0 => /\ LineAt(nodes, a, b) = nodes[a].nodes[b].line
                         /\ nodes[a].line.type = "SECTION"
      BY <2>2 DEF IsLineAt
    <2>4. ~ (a < s)
      <3> SUFFICES ASSUME a < s PROVE FALSE
        OBVIOUS
      <3>1. pos[a][b] < pos[s][0]
        BY <1>1 DEF Lays, Places, HasPlace
      <3> QED
        BY <1>3, <1>4, <1>5, <2>1, <2>3, <3>1
    <2>5. ~ (s < a)
      <3> SUFFICES ASSUME s < a PROVE FALSE
        OBVIOUS
      <3>1. CASE b = 0
        <4>1. nodes[a].line.type = "KEY"
          BY <2>1, <2>3, <3>1
        <4> QED
          BY <1>2, <4>1 DEF KeysFirst
      <3>2. CASE b # 0
        <4>1. nodes[a].line.type = "SECTION" /\ nodes[a].line \in TreeLines
          BY <2>3, <3>2, NodeFields
        <4>2. pos[a][0] \in 1 .. Len(text) /\ text[pos[a][0]] = DumpLine(nodes[a].line)
          BY <1>1 DEF Lays, Places, HasPlace, LineAt
        <4>3. 0 < b
          BY <1>1, <3>2
        <4>4. pos[s][0] < pos[a][0] /\ pos[a][0] < pos[a][b]
          BY <1>1, <4>3 DEF Lays, Places, HasPlace
        <4>5. text[pos[a][0]].type = "SECTION"
          BY <4>1, <4>2, DumpedLine
        <4>6. pos[a][0] \in pos[s][0] + 1 .. i
          BY <1>3, <2>1, <2>3, <4>2, <4>4
        <4> QED
          BY <1>4, <1>5, <4>5, <4>6
      <3> QED
        BY <3>1, <3>2
    <2>6. a = s
      BY <1>1, <2>4, <2>5
    <2>7. b # 0
      BY <1>2, <2>1, <2>3, <2>6
    <2>8. b \in 1 .. Len(nodes[s].nodes)
      BY <1>1, <2>6, <2>7
    <2> QED
      BY <2>1, <2>3, <2>6, <2>7, <2>8
  <1>6. ASSUME NEW b \in 1 .. Len(nodes[s].nodes), nodes[s].nodes[b].line.type = "KEY",
               nodes[s].nodes[b].line.label = k[2], pos[s][b] = i
        PROVE  i \in Gives(text, k)
    <2>1. b \in 0 .. Len(nodes[s].nodes) /\ 0 < b
      BY <1>1
    <2>2. /\ i \in 1 .. Len(text) /\ text[i] = DumpLine(nodes[s].nodes[b].line)
          /\ nodes[s].nodes[b].line \in TreeLines
      BY <1>6, <2>1, NodeFields DEF Lays, Places, HasPlace, LineAt
    <2>3. text[i].type = "KEY" /\ text[i].label = k[2]
      BY <1>6, <2>2, DumpedLine
    <2>4. pos[s][0] < i
      BY <1>1, <1>6, <2>1 DEF Lays, Places, HasPlace
    <2>5. ASSUME NEW j \in pos[s][0] + 1 .. i, text[j].type = "SECTION" PROVE FALSE
      <3>1. j \in 1 .. Len(text) /\ pos[s][0] < j /\ j <= i /\ j # 1
        BY <1>3, <2>2
      <3>2. ~ Stray(text, nodes, j)
        BY <2>5, <3>1 DEF Stray
      <3>3. PICK c \in 1 .. Len(nodes) : \E d \in 0 .. Len(nodes[c].nodes) : pos[c][d] = j
        BY <3>1, <3>2 DEF Lays, Places, HasPlace
      <3>4. PICK d \in 0 .. Len(nodes[c].nodes) : pos[c][d] = j
        BY <3>3
      <3>5. text[j] = DumpLine(LineAt(nodes, c, d))
        BY <3>4 DEF Lays, Places, HasPlace
      <3>6. d = 0
        <4> SUFFICES ASSUME d # 0 PROVE FALSE
          OBVIOUS
        <4>1. d \in 1 .. Len(nodes[c].nodes)
          BY <1>1
        <4>2. /\ nodes[c].nodes[d].line \in TreeLines
              /\ nodes[c].nodes[d].line.type # "SECTION"
              /\ LineAt(nodes, c, d) = nodes[c].nodes[d].line
          BY <4>1, NodeFields DEF LineAt
        <4> QED
          BY <2>5, <3>5, <4>2, DumpedLine
      <3>7. c < s => pos[c][0] < pos[s][0]
        BY <1>1 DEF Lays, Places, HasPlace
      <3>8. s < c => pos[s][b] < pos[c][0]
        BY <1>1, <2>1 DEF Lays, Places, HasPlace
      <3>9. pos[c][0] = j /\ pos[s][0] \in Nat /\ i \in Nat /\ j \in Nat
        BY <1>3, <2>2, <3>1, <3>4, <3>6
      <3>10. c = s
        BY <1>1, <1>6, <3>1, <3>7, <3>8, <3>9
      <3> QED
        BY <3>1, <3>9, <3>10
    <2> QED
      BY <1>3, <1>4, <2>2, <2>3, <2>4, <2>5
  <1> QED
    BY <1>5, <1>6

\* What a reader finds in a text is what GetValue finds in the tree it agrees with, up to
\* the first '#'.
LEMMA ReadsTree ==
    ASSUME NEW tree \in Trees, NEW text \in Seq(Lines), NEW pos,
           Lays(text, tree.nodes, pos), NEW k \in Keys
    PROVE  Read(text)[k] = Cut(View(tree)[k])
  <1> DEFINE nodes == tree.nodes
             s == Find(nodes, "SECTION", k[1])
  <1>1. nodes \in Seq(Nodes) /\ KeysFirst(nodes) /\ Len(nodes) \in Nat
    BY DEF Trees
  <1>2. View(tree)[k] = GetValue(tree, k[2], k[1])
    BY DEF View
  <1> HIDE DEF nodes
  <1>3. CASE k[1] = Empty
    <2> DEFINE q == [a \in 1 .. Len(nodes) |-> pos[a][0]]
    <2>1. \A a \in 1 .. Len(nodes) : nodes[a].line \in TreeLines /\ 0 \in 0 .. Len(nodes[a].nodes)
      BY <1>1, NodeFields
    <2>2. \A j \in 1 .. Len(nodes) : q[j] \in Nat /\ text[q[j]].value = Cut(nodes[j].line.value)
      <3> SUFFICES ASSUME NEW j \in 1 .. Len(nodes)
                   PROVE  q[j] \in Nat /\ text[q[j]].value = Cut(nodes[j].line.value)
        OBVIOUS
      <3>1. pos[j][0] \in 1 .. Len(text) /\ text[pos[j][0]] = DumpLine(nodes[j].line)
        BY <2>1 DEF Lays, Places, HasPlace, LineAt, nodes
      <3>2. DumpLine(nodes[j].line).value = Cut(nodes[j].line.value)
        BY <2>1, DumpedLine
      <3>3. q[j] = pos[j][0]
        OBVIOUS
      <3> HIDE DEF q
      <3> QED
        BY <3>1, <3>2, <3>3
    <2>3. \A j, l \in 1 .. Len(nodes) : j < l => q[j] < q[l]
      BY <2>1 DEF Lays, Places, HasPlace, nodes
    <2>4. \A i : i \in Gives(text, k) <=>
              \E j \in 1 .. Len(nodes) :
                 nodes[j].line.type = "KEY" /\ nodes[j].line.label = k[2] /\ q[j] = i
      <3> SUFFICES ASSUME NEW i
                   PROVE  i \in Gives(text, k) <=>
                            \E j \in 1 .. Len(nodes) :
                               nodes[j].line.type = "KEY" /\ nodes[j].line.label = k[2] /\ q[j] = i
        OBVIOUS
      <3>1. i \in Gives(text, k) <=>
              \E j \in 1 .. Len(nodes) :
                 nodes[j].line.type = "KEY" /\ nodes[j].line.label = k[2] /\ pos[j][0] = i
        BY <1>1, <1>3, GivesInRoot DEF nodes
      <3> QED
        BY <3>1
    <2> HIDE DEF q
    <2>5. Read(text)[k] = Cut(GetFrom(nodes, k[2]))
      <3>1. GivenBy(text, k, nodes, q)
        BY <2>2, <2>3, <2>4 DEF GivenBy
      <3> QED
        BY <1>1, <3>1, ReadsFirst
    <2> QED
      BY <1>2, <1>3, <2>5 DEF GetValue, nodes
  <1>4. CASE k[1] # Empty /\ s = 0
    <2>1. Begins(text, k[1]) = 0
      BY <1>1, <1>4, BeginsWhereFound DEF nodes
    <2>2. Gives(text, k) = {}
      <3>1. DOMAIN text = 1 .. Len(text)
        OBVIOUS
      <3>2. \A i \in 1 .. Len(text) : ~ (0 \in 1 .. i)
        OBVIOUS
      <3> QED
        BY <1>4, <2>1, <3>1, <3>2 DEF Gives
    <2>3. Read(text)[k] = Empty
      BY <2>2 DEF Read
    <2>4. View(tree)[k] = Empty
      BY <1>2, <1>4 DEF GetValue, nodes
    <2> QED
      BY <2>3, <2>4, EmptyAssumption DEF Plain
  <1>5. CASE k[1] # Empty /\ s # 0
    <2>1. s \in 1 .. Len(nodes)
      BY <1>1, <1>5, FindsFirst
    <2> DEFINE ns == nodes[s].nodes
               q == [b \in 1 .. Len(ns) |-> pos[s][b]]
    <2>2. /\ ns \in Seq(Nodes) /\ Len(ns) \in Nat
          /\ \A b \in 1 .. Len(ns) : ns[b].line \in TreeLines /\ b \in 0 .. Len(ns) /\ b # 0
      <3>1. /\ ns \in Seq(Leaves) /\ Len(ns) \in Nat
            /\ \A b \in 1 .. Len(ns) : ns[b].line \in TreeLines
        BY <1>1, <2>1, NodeFields
      <3> QED
        BY <3>1, LeavesAreNodes, SeqMonotonic
    <2>3. \A j \in 1 .. Len(ns) : q[j] \in Nat /\ text[q[j]].value = Cut(ns[j].line.value)
      <3> SUFFICES ASSUME NEW j \in 1 .. Len(ns)
                   PROVE  q[j] \in Nat /\ text[q[j]].value = Cut(ns[j].line.value)
        OBVIOUS
      <3>1. pos[s][j] \in 1 .. Len(text) /\ text[pos[s][j]] = DumpLine(ns[j].line)
        BY <2>1, <2>2 DEF Lays, Places, HasPlace, LineAt, nodes
      <3>2. DumpLine(ns[j].line).value = Cut(ns[j].line.value)
        BY <2>2, DumpedLine
      <3>3. q[j] = pos[s][j]
        OBVIOUS
      <3> HIDE DEF q, ns
      <3> QED
        BY <3>1, <3>2, <3>3
    <2>4. \A j, l \in 1 .. Len(ns) : j < l => q[j] < q[l]
      <3> SUFFICES ASSUME NEW j \in 1 .. Len(ns), NEW l \in 1 .. Len(ns), j < l
                   PROVE  q[j] < q[l]
        OBVIOUS
      <3>1. pos[s][j] < pos[s][l]
        BY <2>1, <2>2 DEF Lays, Places, HasPlace, nodes
      <3> QED
        BY <3>1
    <2>5. \A i : i \in Gives(text, k) <=>
              \E j \in 1 .. Len(ns) :
                 ns[j].line.type = "KEY" /\ ns[j].line.label = k[2] /\ q[j] = i
      <3>1. \A j \in 1 .. Len(ns) : q[j] = pos[s][j]
        <4> HIDE DEF ns
        <4> QED
          OBVIOUS
      <3> HIDE DEF q
      <3>2. ASSUME NEW i
            PROVE  i \in Gives(text, k) <=>
                      \E j \in 1 .. Len(ns) :
                         ns[j].line.type = "KEY" /\ ns[j].line.label = k[2] /\ pos[s][j] = i
        <4>1. Lays(text, nodes, pos)
          BY DEF nodes
        <4>2. s = Find(nodes, "SECTION", k[1])
          OBVIOUS
        <4> HIDE DEF s
        <4> QED
          BY <1>1, <1>5, <2>1, <4>1, <4>2, GivesInSection, SMTT(30)
      <3> HIDE DEF ns
      <3> QED
        BY <3>1, <3>2
    <2> HIDE DEF q, ns
    <2>6. Read(text)[k] = Cut(GetFrom(ns, k[2]))
      <3>1. ns \in Seq(Nodes)
        BY <2>2
      <3>2. GivenBy(text, k, ns, q)
        BY <2>3, <2>4, <2>5 DEF GivenBy
      <3> QED
        BY <3>1, <3>2, ReadsFirst
    <2> QED
      BY <1>2, <1>5, <2>6 DEF GetValue, nodes, ns
  <1> QED
    BY <1>3, <1>4, <1>5

-------------------------------------------------------------------------------
(* What DumpString writes agrees with the tree.                                *)

LEMMA DumpedNode ==
    ASSUME NEW n \in Nodes
    PROVE  /\ DumpNode(n) \in Seq(Lines) /\ Len(n.nodes) \in Nat
           /\ Len(DumpNode(n)) = Len(n.nodes) + 1
           /\ DumpNode(n)[1] = DumpLine(n.line)
           /\ \A b \in 1 .. Len(n.nodes) : DumpNode(n)[b + 1] = DumpLine(n.nodes[b].line)
  <1> DEFINE rest == [i \in DOMAIN n.nodes |-> DumpLine(n.nodes[i].line)]
             first == <<DumpLine(n.line)>>
  <1>1. n.line \in TreeLines /\ n.nodes \in Seq(Leaves)
    BY DEF Nodes
  <1>2. /\ Len(n.nodes) \in Nat /\ DOMAIN n.nodes = 1 .. Len(n.nodes)
        /\ \A i \in 1 .. Len(n.nodes) : n.nodes[i] \in Leaves
    BY <1>1, LenProperties, ElementOfSeq
  <1>3. \A i \in 1 .. Len(n.nodes) : n.nodes[i].line \in TreeLines
    BY <1>2 DEF Leaves
  <1>4. \A i \in 1 .. Len(n.nodes) : DumpLine(n.nodes[i].line) \in Lines
    BY <1>3, DumpedLine
  <1>5. /\ rest \in Seq(Lines) /\ Len(rest) = Len(n.nodes)
        /\ \A i \in 1 .. Len(n.nodes) : rest[i] = DumpLine(n.nodes[i].line)
    BY <1>2, <1>4
  <1>6. first \in Seq(Lines) /\ Len(first) = 1 /\ first[1] = DumpLine(n.line)
    <2> DEFINE d == DumpLine(n.line)
    <2>1. d \in Lines
      BY <1>1, DumpedLine
    <2> HIDE DEF d
    <2> QED
      BY <2>1 DEF d
  <1>7. DumpNode(n) = first \o rest
    BY DEF DumpNode
  <1> HIDE DEF first, rest
  <1>8. /\ first \o rest \in Seq(Lines) /\ Len(first \o rest) = Len(n.nodes) + 1
        /\ \A i \in 1 .. 1 + Len(n.nodes) :
              (first \o rest)[i] = IF i <= 1 THEN first[i] ELSE rest[i - 1]
    <2>1. /\ first \o rest \in Seq(Lines) /\ Len(first \o rest) = Len(first) + Len(rest)
          /\ \A i \in 1 .. Len(first) + Len(rest) :
                (first \o rest)[i] = IF i <= Len(first) THEN first[i] ELSE rest[i - Len(first)]
      <3>1. first \in Seq(Lines) /\ rest \in Seq(Lines)
        BY <1>5, <1>6
      <3> QED
        BY <3>1, ConcatProperties
    <2>2. Len(first) = 1 /\ Len(rest) = Len(n.nodes) /\ 1 + Len(n.nodes) = Len(n.nodes) + 1
      BY <1>2, <1>5, <1>6
    <2> QED
      BY <2>1, <2>2, Zenon
  <1>9. ASSUME NEW b \in 1 .. Len(n.nodes)
        PROVE  DumpNode(n)[b + 1] = DumpLine(n.nodes[b].line)
    <2>1. b + 1 \in 1 .. 1 + Len(n.nodes) /\ ~ (b + 1 <= 1) /\ (b + 1) - 1 = b
      BY <1>2
    <2>2. (first \o rest)[b + 1] = rest[b]
      BY <1>8, <2>1
    <2> QED
      BY <1>5, <1>7, <2>2
  <1>10. DumpNode(n)[1] = DumpLine(n.line)
    BY <1>2, <1>6, <1>7, <1>8
  <1> QED
    BY <1>2, <1>7, <1>8, <1>9, <1>10

\* A root writes at most one line for itself, which has no name and no comment at its end.
LEMMA DumpedRoot ==
    ASSUME NEW type \in RootTypes
    PROVE  /\ DumpRoot(type) \in Seq(Lines) /\ Len(DumpRoot(type)) \in {0, 1}
           /\ Len(DumpRoot(type)) = 1 => type # "ROOT" /\ DumpRoot(type)[1].label = Empty
  <1>1. \A t \in LineTypes : <<Line(t, Empty, Empty, <<>>)>> \in Seq(Lines)
    <2>1. <<>> \in Seq(Text) /\ Empty \in Text /\ Empty \in {v \in Value : Plain(v)}
      BY EmptyAssumption
    <2>2. \A t \in LineTypes : Line(t, Empty, Empty, <<>>) \in Lines
      BY <2>1 DEF Line, Lines
    <2> QED
      BY <2>2
  <1>2. \A t : /\ Len(<<Line(t, Empty, Empty, <<>>)>>) = 1
               /\ <<Line(t, Empty, Empty, <<>>)>>[1].label = Empty
    BY DEF Line
  <1>3. <<>> \in Seq(Lines) /\ Len(<<>>) = 0
    OBVIOUS
  <1>4. CASE type = "SECTION"
    BY <1>1, <1>2, <1>4 DEF DumpRoot, LineTypes
  <1>5. CASE type = "KEY"
    BY <1>1, <1>2, <1>5 DEF DumpRoot, LineTypes
  <1>6. CASE type = "SPAN"
    BY <1>1, <1>2, <1>6 DEF DumpRoot, LineTypes
  <1>7. CASE type \notin {"SECTION", "KEY", "SPAN"}
    BY <1>3, <1>7 DEF DumpRoot
  <1> QED
    BY <1>4, <1>5, <1>6, <1>7

\* A place of the text for each line of the tree.
DumpPlace(tree, sums) ==
    [a \in 1 .. Len(tree.nodes) |-> [b \in 0 .. Len(tree.nodes[a].nodes) |->
        Len(DumpRoot(tree.type)) + sums[a - 1] + 1 + b]]

DumpedNodes(nodes) == [i \in DOMAIN nodes |-> DumpNode(nodes[i])]

LEMMA DumpedNodesFacts ==
    ASSUME NEW nodes \in Seq(Nodes)
    PROVE  /\ DumpedNodes(nodes) \in Seq(Seq(Lines))
           /\ Len(nodes) \in Nat /\ Len(DumpedNodes(nodes)) = Len(nodes)
           /\ \A a \in 1 .. Len(nodes) :
                 /\ DumpedNodes(nodes)[a] = DumpNode(nodes[a])
                 /\ Lengths(DumpedNodes(nodes))[a] = Len(nodes[a].nodes) + 1
  <1> DEFINE ss == DumpedNodes(nodes)
  <1>1. /\ Len(nodes) \in Nat /\ DOMAIN nodes = 1 .. Len(nodes)
        /\ \A a \in 1 .. Len(nodes) : nodes[a] \in Nodes
    BY LenProperties, ElementOfSeq
  <1>2. \A a \in 1 .. Len(nodes) :
            DumpNode(nodes[a]) \in Seq(Lines) /\ Len(DumpNode(nodes[a])) = Len(nodes[a].nodes) + 1
    BY <1>1, DumpedNode
  <1>3. /\ ss \in Seq(Seq(Lines)) /\ Len(ss) = Len(nodes)
        /\ \A a \in 1 .. Len(nodes) : ss[a] = DumpNode(nodes[a])
    BY <1>1, <1>2 DEF DumpedNodes
  <1> HIDE DEF ss
  <1>4. \A a \in 1 .. Len(nodes) : Lengths(ss)[a] = Len(nodes[a].nodes) + 1
    BY <1>2, <1>3 DEF Lengths
  <1> QED
    BY <1>1, <1>3, <1>4 DEF ss

\* DumpString writes the root's line, and then each line of the tree at its place.
LEMMA DumpLays ==
    ASSUME NEW tree \in Trees
    PROVE  /\ DumpString(tree) \in Seq(Lines)
           /\ \E pos :
                /\ Lays(DumpString(tree), tree.nodes, pos)
                /\ \A i \in 1 .. Len(DumpString(tree)) :
                      \/ /\ i = 1 /\ DumpRoot(tree.type) # <<>>
                         /\ DumpString(tree)[1] = DumpRoot(tree.type)[1]
                      \/ \E a \in 1 .. Len(tree.nodes) :
                            \E b \in 0 .. Len(tree.nodes[a].nodes) : pos[a][b] = i
           /\ DumpRoot(tree.type) # <<>> =>
                 /\ Len(DumpString(tree)) >= 1
                 /\ DumpString(tree)[1] = DumpRoot(tree.type)[1]
  <1> DEFINE nodes == tree.nodes
             R == DumpRoot(tree.type)
             ss == DumpedNodes(nodes)
             fs == FlattenSeq(ss)
             text == DumpString(tree)
             N(a) == Len(nodes[a].nodes)
  <1>1. tree.type \in RootTypes /\ nodes \in Seq(Nodes)
        /\ (tree.type # "ROOT" => NoKeys(nodes))
    BY DEF Trees
  <1>2. /\ ss \in Seq(Seq(Lines)) /\ Len(nodes) \in Nat /\ Len(ss) = Len(nodes)
        /\ \A a \in 1 .. Len(nodes) : ss[a] = DumpNode(nodes[a]) /\ Lengths(ss)[a] = N(a) + 1
    BY <1>1, DumpedNodesFacts
  <1>3. PICK sums : /\ PartialSums(Len(ss), Lengths(ss), sums)
                    /\ Flat(ss, sums, Len(ss), fs, Lines)
    BY <1>2, FlattenSeqFacts
  <1>4. \A a \in 1 .. Len(nodes) : nodes[a] \in Nodes /\ N(a) \in Nat
    BY <1>1, NodeFields
  <1>5. R \in Seq(Lines) /\ Len(R) \in {0, 1}
        /\ (Len(R) = 1 => tree.type # "ROOT" /\ R[1].label = Empty)
    BY <1>1, DumpedRoot
  <1>6. text = R \o fs
    BY DEF DumpString, DumpedNodes
  <1> DEFINE pos == DumpPlace(tree, sums)
  <1>7. \A a \in 1 .. Len(nodes) : \A b \in 0 .. N(a) : pos[a][b] = Len(R) + sums[a - 1] + 1 + b
    BY DEF DumpPlace
  <1> HIDE DEF nodes, R, ss, fs, text, pos
  <1>8. /\ fs \in Seq(Lines) /\ Len(fs) = sums[Len(nodes)]
        /\ \A i \in 1 .. Len(nodes) : \A j \in 1 .. Len(ss[i]) :
              sums[i - 1] + j \in 1 .. Len(fs) /\ fs[sums[i - 1] + j] = ss[i][j]
        /\ \A k \in 1 .. Len(fs) :
              \E i \in 1 .. Len(nodes) : \E j \in 1 .. Len(ss[i]) : k = sums[i - 1] + j
    BY <1>2, <1>3 DEF Flat
  <1>9. /\ \A a \in 0 .. Len(nodes) : sums[a] \in Nat
        /\ \A a \in 1 .. Len(nodes) : sums[a] = sums[a - 1] + N(a) + 1 /\ a - 1 \in 0 .. Len(nodes)
    <2>1. /\ sums \in [0 .. Len(nodes) -> Nat]
          /\ \A a \in 1 .. Len(nodes) : sums[a] = sums[a - 1] + Lengths(ss)[a]
      BY <1>2, <1>3 DEF PartialSums
    <2>2. \A a \in 1 .. Len(nodes) : a - 1 \in 0 .. Len(nodes) /\ a \in 0 .. Len(nodes)
      BY <1>2
    <2>3. ASSUME NEW a \in 1 .. Len(nodes) PROVE sums[a] = sums[a - 1] + N(a) + 1
      <3>1. sums[a - 1] \in Nat /\ N(a) \in Nat /\ sums[a] = sums[a - 1] + (N(a) + 1)
        BY <1>2, <1>4, <2>1, <2>2
      <3> HIDE DEF N
      <3> QED
        BY <3>1
    <2>4. \A a \in 0 .. Len(nodes) : sums[a] \in Nat
      BY <2>1
    <2> QED
      BY <2>2, <2>3, <2>4
  <1>10. /\ text \in Seq(Lines) /\ Len(text) = Len(R) + Len(fs)
         /\ Len(fs) \in Nat /\ Len(R) \in Nat
         /\ \A i \in 1 .. Len(R) + Len(fs) :
               text[i] = IF i <= Len(R) THEN R[i] ELSE fs[i - Len(R)]
    <2>1. Len(fs) \in Nat /\ Len(R) \in Nat
      BY <1>5, <1>8, LenProperties
    <2> QED
      BY <1>5, <1>6, <1>8, <2>1, ConcatProperties
  <1>11. ASSUME NEW a \in 1 .. Len(nodes), NEW b \in 0 .. N(a)
         PROVE  /\ pos[a][b] \in 1 .. Len(text)
                /\ text[pos[a][b]] = DumpLine(LineAt(nodes, a, b))
    <2>1. /\ Len(ss[a]) = N(a) + 1
          /\ ss[a][1] = DumpLine(nodes[a].line)
          /\ \A c \in 1 .. N(a) : ss[a][c + 1] = DumpLine(nodes[a].nodes[c].line)
      <3>1. nodes[a] \in Nodes /\ ss[a] = DumpNode(nodes[a])
        BY <1>2, <1>4
      <3> DEFINE n == nodes[a]
      <3> HIDE DEF n
      <3>2. /\ Len(DumpNode(n)) = Len(n.nodes) + 1
            /\ DumpNode(n)[1] = DumpLine(n.line)
            /\ \A c \in 1 .. Len(n.nodes) : DumpNode(n)[c + 1] = DumpLine(n.nodes[c].line)
        <4>1. n \in Nodes
          BY <3>1 DEF n
        <4> QED
          BY <4>1, DumpedNode
      <3> QED
        BY <3>1, <3>2 DEF n
    <2>2. b + 1 \in 1 .. Len(ss[a]) /\ ss[a][b + 1] = DumpLine(LineAt(nodes, a, b))
      <3>1. CASE b = 0
        BY <1>4, <2>1, <3>1 DEF LineAt
      <3>2. CASE b # 0
        <4>1. b \in 1 .. N(a)
          BY <1>4, <3>2
        <4> QED
          BY <1>4, <2>1, <3>2, <4>1 DEF LineAt
      <3> QED
        BY <3>1, <3>2
    <2>3. sums[a - 1] + (b + 1) \in 1 .. Len(fs) /\ fs[sums[a - 1] + (b + 1)] = ss[a][b + 1]
      BY <1>8, <2>2
    <2> DEFINE m == sums[a - 1] + (b + 1)
    <2>4. pos[a][b] = Len(R) + m /\ m \in 1 .. Len(fs)
      <3>1. sums[a - 1] \in Nat /\ Len(R) \in Nat /\ b \in Nat
        BY <1>4, <1>9, <1>10
      <3>2. pos[a][b] = Len(R) + sums[a - 1] + 1 + b
        BY <1>7
      <3>3. Len(R) + sums[a - 1] + 1 + b = Len(R) + m
        BY <3>1
      <3> QED
        BY <2>3, <3>2, <3>3
    <2>5. fs[m] = DumpLine(LineAt(nodes, a, b))
      BY <2>2, <2>3
    <2> HIDE DEF m
    <2>6. /\ Len(R) + m \in 1 .. Len(R) + Len(fs) /\ ~ (Len(R) + m <= Len(R))
          /\ (Len(R) + m) - Len(R) = m
      BY <1>5, <1>10, <2>4
    <2>7. text[Len(R) + m] = fs[m]
      BY <1>10, <2>6
    <2> QED
      BY <1>10, <2>4, <2>5, <2>6, <2>7
  <1>12. ASSUME NEW a \in 1 .. Len(nodes), NEW c \in 1 .. Len(nodes),
                NEW b \in 0 .. N(a), NEW d \in 0 .. N(c), a < c \/ (a = c /\ b < d)
         PROVE  pos[a][b] < pos[c][d]
    <2>1. CASE a < c
      <3>1. a \in 0 .. Len(nodes) /\ c - 1 \in a .. Len(nodes)
        BY <1>2, <2>1
      <3>2. Lengths(ss) \in [1 .. Len(nodes) -> Nat]
        BY <1>2, <1>4 DEF Lengths
      <3>3. sums[a] <= sums[c - 1]
        BY <1>2, <1>3, <3>1, <3>2, PartialSumsGrow
      <3>4. /\ sums[a - 1] \in Nat /\ sums[c - 1] \in Nat /\ Len(R) \in Nat
            /\ N(a) \in Nat /\ sums[a] = sums[a - 1] + N(a) + 1
        BY <1>4, <1>9, <1>10
      <3>5. b \in Nat /\ b <= N(a) /\ d \in Nat
        BY <1>4
      <3>6. /\ pos[a][b] = Len(R) + sums[a - 1] + 1 + b
            /\ pos[c][d] = Len(R) + sums[c - 1] + 1 + d
        BY <1>7
      <3>7. Len(R) + sums[a - 1] + 1 + b < Len(R) + sums[c - 1] + 1 + d
        <4> DEFINE l == Len(R)
                   x == sums[a]
                   y == sums[a - 1]
                   z == sums[c - 1]
                   n == N(a)
        <4>1. x \in Nat
          BY <1>9, <3>1
        <4>2. /\ l \in Nat /\ y \in Nat /\ z \in Nat /\ n \in Nat
              /\ x = y + n + 1 /\ x <= z /\ b <= n
          BY <3>3, <3>4, <3>5
        <4> HIDE DEF l, x, y, z, n
        <4>3. l + y + 1 + b < l + z + 1 + d
          BY <3>5, <4>1, <4>2
        <4> QED
          BY <4>3 DEF l, y, z
      <3> QED
        BY <3>6, <3>7
    <2>2. CASE a = c /\ b < d
      <3>1. sums[a - 1] \in Nat /\ Len(R) \in Nat /\ b \in Nat /\ d \in Nat
        BY <1>4, <1>9, <1>10
      <3> QED
        BY <1>7, <2>2, <3>1
    <2> QED
      BY <1>12, <2>1, <2>2
  <1>13. ASSUME NEW i \in 1 .. Len(text)
         PROVE  \/ i = 1 /\ R # <<>> /\ text[1] = R[1]
                \/ \E a \in 1 .. Len(nodes) : \E b \in 0 .. N(a) : pos[a][b] = i
    <2>1. CASE i <= Len(R)
      <3>1. i \in Nat /\ i >= 1
        BY <1>10
      <3>2. i = 1 /\ Len(R) = 1
        <4>1. \A l \in {0, 1}, x \in Nat : x >= 1 /\ x <= l => x = 1 /\ l = 1
          OBVIOUS
        <4> QED
          BY <1>5, <2>1, <3>1, <4>1, Zenon
      <3>3. R # <<>>
        BY <3>2
      <3>4. text[1] = R[1]
        BY <1>10, <3>2
      <3> QED
        BY <3>2, <3>3, <3>4
    <2>2. CASE ~ (i <= Len(R))
      <3>1. i - Len(R) \in 1 .. Len(fs)
        BY <1>10, <2>2
      <3>2. PICK a \in 1 .. Len(nodes) : \E j \in 1 .. Len(ss[a]) : i - Len(R) = sums[a - 1] + j
        BY <1>8, <3>1
      <3>3. PICK j \in 1 .. Len(ss[a]) : i - Len(R) = sums[a - 1] + j
        BY <3>2
      <3>4. j - 1 \in 0 .. N(a)
        <4>1. Len(ss[a]) = N(a) + 1 /\ N(a) \in Nat
          BY <1>2, <1>4, DumpedNode
        <4> QED
          BY <4>1
      <3>5. pos[a][j - 1] = i
        <4>1. sums[a - 1] \in Nat /\ Len(R) \in Nat /\ j \in Nat /\ i \in Nat
          BY <1>4, <1>9, <1>10, <3>4
        <4>2. pos[a][j - 1] = Len(R) + sums[a - 1] + 1 + (j - 1)
          BY <1>7, <3>4
        <4> DEFINE l == Len(R)
                   y == sums[a - 1]
        <4>3. l \in Nat /\ y \in Nat /\ i - l = y + j
          BY <3>3, <4>1
        <4> HIDE DEF l, y
        <4>4. l + y + 1 + (j - 1) = i
          BY <4>1, <4>3
        <4> QED
          BY <4>2, <4>4 DEF l, y
      <3> QED
        BY <3>4, <3>5
    <2> QED
      BY <2>1, <2>2
  <1>14. ASSUME NEW i \in 1 .. Len(text)
         PROVE  \/ Stray(text, nodes, i)
                \/ \E a \in 1 .. Len(nodes) : \E b \in 0 .. N(a) : pos[a][b] = i
    <2>1. CASE i = 1 /\ R # <<>> /\ text[1] = R[1]
      <3>1. Len(R) = 1
        BY <1>5, <2>1, EmptySeq
      <3> QED
        BY <1>1, <1>5, <2>1, <3>1 DEF Stray, nodes
    <2> QED
      BY <1>13, <2>1
  <1>15. Lays(text, nodes, pos)
    BY <1>11, <1>12, <1>14 DEF Lays, Places, HasPlace
  <1>16. R # <<>> => Len(text) >= 1 /\ text[1] = R[1]
    <2> SUFFICES ASSUME R # <<>> PROVE Len(text) >= 1 /\ text[1] = R[1]
      OBVIOUS
    <2>1. Len(R) = 1
      BY <1>5, EmptySeq
    <2> QED
      BY <1>10, <2>1
  <1>17. text \in Seq(Lines)
    BY <1>10
  <1> QED
    BY <1>13, <1>15, <1>16, <1>17 DEF text, nodes, R
-------------------------------------------------------------------------------
(* What LoadFromMem reads agrees with the text.                                *)

\* What holds of the nodes after n lines: they are those lines, without the malformed
\* ones; and as long as lines with content follow, a section that has begun is the last
\* node, so that keys go there.
Loaded(text, n, nodes, pos) ==
    /\ nodes \in Seq(Nodes) /\ KeysFirst(nodes)
    /\ n <= LastContent(text) /\ ~InSection(nodes) =>
          \A a \in 1 .. Len(nodes) : nodes[a].line.type # "SECTION"
    /\ Places(text, n, nodes, pos)
    /\ \A a \in 1 .. Len(nodes) : \A b \in 0 .. Len(nodes[a].nodes) :
          LineAt(nodes, a, b) \in Lines
    /\ \A i \in 1 .. n : text[i].type # "BAD" => HasPlace(nodes, pos, i)

\* Nodes that have one more line, (A, B), behind all others.
OneMore(nodes, more, A, B, line) ==
    /\ more \in Seq(Nodes) /\ Len(nodes) <= Len(more)
    /\ \A a \in 1 .. Len(nodes) : \A b \in 0 .. Len(nodes[a].nodes) :
          /\ b \in 0 .. Len(more[a].nodes) /\ LineAt(more, a, b) = LineAt(nodes, a, b)
          /\ a < A \/ (a = A /\ b < B)
    /\ A \in 1 .. Len(more) /\ B \in 0 .. Len(more[A].nodes) /\ LineAt(more, A, B) = line
    /\ \A a \in 1 .. Len(more) : \A b \in 0 .. Len(more[a].nodes) :
          \/ a = A /\ b = B
          \/ a \in 1 .. Len(nodes) /\ b \in 0 .. Len(nodes[a].nodes)

LEMMA OneMorePlace ==
    ASSUME NEW text \in Seq(Lines), NEW n \in Nat, n + 1 \in 1 .. Len(text),
           NEW nodes \in Seq(Nodes), NEW pos, Loaded(text, n, nodes, pos),
           NEW more, NEW A, NEW B, OneMore(nodes, more, A, B, text[n + 1]),
           text[n + 1].type # "BAD"
    PROVE  \E q :
              /\ Places(text, n + 1, more, q)
              /\ \A a \in 1 .. Len(more) : \A b \in 0 .. Len(more[a].nodes) :
                    LineAt(more, a, b) \in Lines
              /\ \A i \in 1 .. n + 1 : text[i].type # "BAD" => HasPlace(more, q, i)
  <1> DEFINE q == [a \in Nat |-> [b \in Nat |-> IF a = A /\ b = B THEN n + 1 ELSE pos[a][b]]]
             Old(a, b) == a \in 1 .. Len(nodes) /\ b \in 0 .. Len(nodes[a].nodes)
  <1>1. /\ Len(nodes) \in Nat /\ Len(more) \in Nat /\ more \in Seq(Nodes)
        /\ \A a \in 1 .. Len(nodes) : Len(nodes[a].nodes) \in Nat
        /\ \A a \in 1 .. Len(more) : Len(more[a].nodes) \in Nat
    BY NodeFields DEF OneMore
  <1>2. \A a \in 1 .. Len(more) : a \in Nat /\ \A b \in 0 .. Len(more[a].nodes) : b \in Nat
    BY <1>1
  <1>3. A \in 1 .. Len(more) /\ B \in 0 .. Len(more[A].nodes) /\ A \in Nat /\ B \in Nat
        /\ LineAt(more, A, B) = text[n + 1]
    BY <1>2 DEF OneMore
  <1>4. \A a \in 1 .. Len(more) : \A b \in 0 .. Len(more[a].nodes) :
            (a = A /\ b = B) \/ Old(a, b)
    BY DEF OneMore
  <1>5. \A a, b : Old(a, b) =>
            /\ a \in 1 .. Len(more) /\ b \in 0 .. Len(more[a].nodes)
            /\ LineAt(more, a, b) = LineAt(nodes, a, b)
            /\ a < A \/ (a = A /\ b < B)
            /\ a \in Nat /\ b \in Nat
    <2> SUFFICES ASSUME NEW a, NEW b, Old(a, b)
                 PROVE  /\ a \in 1 .. Len(more) /\ b \in 0 .. Len(more[a].nodes)
                        /\ LineAt(more, a, b) = LineAt(nodes, a, b)
                        /\ a < A \/ (a = A /\ b < B)
                        /\ a \in Nat /\ b \in Nat
      OBVIOUS
    <2>1. Len(nodes) <= Len(more)
      BY DEF OneMore
    <2>2. a \in 1 .. Len(more)
      BY <1>1, <2>1
    <2>3. /\ b \in 0 .. Len(more[a].nodes) /\ LineAt(more, a, b) = LineAt(nodes, a, b)
          /\ a < A \/ (a = A /\ b < B)
      BY DEF OneMore
    <2> QED
      BY <1>2, <2>2, <2>3
  <1>6. \A a, b : Old(a, b) => ~ (a = A /\ b = B)
    BY <1>3, <1>5
  <1>7. \A a, b : Old(a, b) => q[a][b] = pos[a][b]
    BY <1>5, <1>6
  <1>8. q[A][B] = n + 1
    BY <1>3
  <1>9. \A a, b : Old(a, b) =>
            /\ pos[a][b] \in 1 .. n /\ text[pos[a][b]] = DumpLine(LineAt(nodes, a, b))
            /\ LineAt(nodes, a, b) \in Lines
    BY DEF Loaded, Places
  <1>10. \A a, b, c, d : Old(a, b) /\ Old(c, d) /\ (a < c \/ (a = c /\ b < d)) =>
            pos[a][b] < pos[c][d]
    BY DEF Loaded, Places
  <1>11. \A i \in 1 .. n : text[i].type # "BAD" => \E a, b : Old(a, b) /\ pos[a][b] = i
    BY DEF Loaded, HasPlace
  <1>12. text[n + 1] \in Lines /\ DumpLine(text[n + 1]) = text[n + 1]
    BY ElementOfSeq, ReadLine
  <1> HIDE DEF q, Old
  <1>13. ASSUME NEW a \in 1 .. Len(more), NEW b \in 0 .. Len(more[a].nodes)
         PROVE  /\ q[a][b] \in 1 .. n + 1 /\ text[q[a][b]] = DumpLine(LineAt(more, a, b))
                /\ LineAt(more, a, b) \in Lines
    <2>1. CASE a = A /\ b = B
      <3>1. q[a][b] = n + 1 /\ n + 1 \in 1 .. n + 1
        BY <1>8, <2>1
      <3> QED
        BY <1>3, <1>12, <2>1, <3>1
    <2>2. CASE Old(a, b)
      <3>1. q[a][b] = pos[a][b] /\ pos[a][b] \in 1 .. n + 1
        BY <1>7, <1>9, <2>2
      <3> QED
        BY <1>5, <1>9, <2>2, <3>1
    <2> QED
      BY <1>4, <2>1, <2>2
  <1>14. ASSUME NEW a \in 1 .. Len(more), NEW c \in 1 .. Len(more),
                NEW b \in 0 .. Len(more[a].nodes), NEW d \in 0 .. Len(more[c].nodes),
                a < c \/ (a = c /\ b < d)
         PROVE  q[a][b] < q[c][d]
    <2>1. Old(a, b)
      <3> SUFFICES ASSUME a = A /\ b = B PROVE FALSE
        BY <1>4
      <3>1. ~ (c = A /\ d = B)
        BY <1>1, <1>2, <1>14
      <3>2. c < A \/ (c = A /\ d < B)
        BY <1>4, <1>5, <3>1
      <3> QED
        BY <1>1, <1>2, <1>14, <3>2
    <2>2. CASE Old(c, d)
      BY <1>7, <1>10, <1>14, <2>1, <2>2
    <2>3. CASE c = A /\ d = B
      <3>1. q[a][b] \in 1 .. n
        BY <1>7, <1>9, <2>1
      <3> QED
        BY <1>8, <2>3, <3>1
    <2> QED
      BY <1>4, <2>2, <2>3
  <1>15. ASSUME NEW i \in 1 .. n + 1, text[i].type # "BAD" PROVE HasPlace(more, q, i)
    <2>1. CASE i = n + 1
      BY <1>3, <1>8, <2>1 DEF HasPlace
    <2>2. CASE i \in 1 .. n
      <3>1. PICK a, b : Old(a, b) /\ pos[a][b] = i
        BY <1>11, <1>15, <2>2
      <3>2. a \in 1 .. Len(more) /\ b \in 0 .. Len(more[a].nodes) /\ q[a][b] = i
        BY <1>5, <1>7, <3>1
      <3> QED
        BY <3>2 DEF HasPlace
    <2> QED
      BY <2>1, <2>2
  <1>16. Places(text, n + 1, more, q)
    BY <1>13, <1>14 DEF Places
  <1> QED
    BY <1>13, <1>15, <1>16

\* Only blank lines follow the last line with content.
LEMMA BlankAtEnd ==
    ASSUME NEW text \in Seq(Lines)
    PROVE  /\ LastContent(text) \in Nat
           /\ \A i \in 1 .. Len(text) : i > LastContent(text) => text[i].type = "BLANK"
  <1> DEFINE T == {i \in 1 .. Len(text) : text[i].type # "BLANK"}
  <1>1. LastContent(text) = IF T # {} THEN Max(T) ELSE 0
    BY DEF LastContent, SelectLastInSeq
  <1>2. Len(text) \in Nat /\ T \subseteq 0 .. Len(text)
    OBVIOUS
  <1>3. T # {} => Max(T) \in T /\ \A y \in T : y <= Max(T)
    <2> HIDE DEF T
    <2> QED
      BY <1>2, MaxIsGreatest
  <1>4. LastContent(text) \in Nat
    BY <1>1, <1>2, <1>3
  <1>5. ASSUME NEW i \in 1 .. Len(text), i > LastContent(text) PROVE text[i].type = "BLANK"
    <2> SUFFICES ASSUME i \in T PROVE FALSE
      OBVIOUS
    <2>1. T # {}
      OBVIOUS
    <2>2. i <= Max(T) /\ LastContent(text) = Max(T)
      BY <1>1, <1>3, <2>1
    <2> QED
      BY <1>4, <1>5, <2>2
  <1> QED
    BY <1>4, <1>5

\* A line of its own, at the end of the root's.
AddedNode(nodes, more, line) ==
    /\ OneMore(nodes, more, Len(nodes) + 1, 0, line)
    /\ Len(more) = Len(nodes) + 1 /\ Last(more).line = line /\ more # <<>>
    /\ \A a \in 1 .. Len(nodes) : more[a] = nodes[a]
    /\ more[Len(nodes) + 1].line = line

LEMMA AddsNode ==
    ASSUME NEW nodes \in Seq(Nodes), NEW line \in TreeLines
    PROVE  AddedNode(nodes, Append(nodes, Node(line, <<>>)), line)
  <1> DEFINE n == Node(line, <<>>)
             more == Append(nodes, n)
  <1>1. n = [line |-> line, nodes |-> <<>>] /\ n.line = line /\ n.nodes = <<>>
    BY DEF Node
  <1>2. n \in Nodes
    <2>1. <<>> \in Seq(Leaves)
      OBVIOUS
    <2>2. n \in [line : TreeLines, nodes : Seq(Leaves)]
      BY <1>1, <2>1
    <2> QED
      BY <1>1, <2>2 DEF Nodes
  <1> HIDE DEF n
  <1>3. /\ more \in Seq(Nodes) /\ more # <<>> /\ Len(more) = Len(nodes) + 1
        /\ \A a \in 1 .. Len(nodes) : more[a] = nodes[a]
        /\ more[Len(nodes) + 1] = n
    BY <1>2, AppendProperties
  <1> HIDE DEF more
  <1>4. /\ Len(nodes) \in Nat /\ Len(nodes) + 1 \in 1 .. Len(more)
        /\ \A a \in 1 .. Len(nodes) : Len(nodes[a].nodes) \in Nat
    BY <1>3, NodeFields
  <1>5. Last(more) = n
    BY <1>3 DEF Last
  <1>6. ASSUME NEW a \in 1 .. Len(nodes), NEW b \in 0 .. Len(nodes[a].nodes)
        PROVE  /\ b \in 0 .. Len(more[a].nodes) /\ LineAt(more, a, b) = LineAt(nodes, a, b)
               /\ a < Len(nodes) + 1
    BY <1>3, <1>4 DEF LineAt
  <1>7. 0 \in 0 .. Len(more[Len(nodes) + 1].nodes) /\ LineAt(more, Len(nodes) + 1, 0) = line
    BY <1>1, <1>3 DEF LineAt
  <1>8. ASSUME NEW a \in 1 .. Len(more), NEW b \in 0 .. Len(more[a].nodes)
        PROVE  \/ a = Len(nodes) + 1 /\ b = 0
               \/ a \in 1 .. Len(nodes) /\ b \in 0 .. Len(nodes[a].nodes)
    <2>1. CASE a = Len(nodes) + 1
      <3>1. Len(more[a].nodes) = 0
        BY <1>1, <1>3, <2>1
      <3> QED
        BY <2>1, <3>1
    <2>2. CASE a \in 1 .. Len(nodes)
      BY <1>3, <2>2
    <2> QED
      BY <1>3, <1>4, <2>1, <2>2
  <1>9. Len(nodes) <= Len(more)
    BY <1>3, <1>4
  <1>10. OneMore(nodes, more, Len(nodes) + 1, 0, line)
    BY <1>3, <1>4, <1>6, <1>7, <1>8, <1>9 DEF OneMore
  <1> QED
    BY <1>1, <1>3, <1>5, <1>10 DEF AddedNode, more, n

\* A line of the section begun last.
AddedChild(nodes, more, line) ==
    /\ OneMore(nodes, more, Len(nodes), Len(nodes[Len(nodes)].nodes) + 1, line)
    /\ Len(more) = Len(nodes) /\ InSection(more)
    /\ \A a \in 1 .. Len(nodes) : more[a].line = nodes[a].line

LEMMA AddsChild ==
    ASSUME NEW nodes \in Seq(Nodes), InSection(nodes),
           NEW line \in TreeLines, line.type # "SECTION"
    PROVE  AddedChild(nodes,
                      [nodes EXCEPT ![Len(nodes)].nodes = Append(@, Node(line, <<>>))], line)
  <1> DEFINE L == Len(nodes)
             more == [nodes EXCEPT ![Len(nodes)].nodes = Append(@, Node(line, <<>>))]
             n == Node(line, <<>>)
             old == nodes[L].nodes
             new == Append(old, n)
             s == [nodes[L] EXCEPT !.nodes = new]
  <1>1. L \in Nat /\ L # 0 /\ L \in 1 .. L /\ nodes[L].line.type = "SECTION"
    BY DEF InSection, Last
  <1>2. /\ nodes[L] \in Nodes /\ nodes[L].line \in TreeLines /\ old \in Seq(Leaves)
        /\ Len(old) \in Nat
        /\ \A a \in 1 .. L : Len(nodes[a].nodes) \in Nat
    BY <1>1, NodeFields
  <1>3. n \in Leaves /\ n.line = line
    BY DEF Leaves, Node
  <1> HIDE DEF n
  <1>4. /\ new \in Seq(Leaves) /\ Len(new) = Len(old) + 1
        /\ \A b \in 1 .. Len(old) : new[b] = old[b]
        /\ new[Len(old) + 1] = n
    BY <1>2, <1>3, AppendProperties
  <1> HIDE DEF new
  <1>5. s = [line |-> nodes[L].line, nodes |-> new]
    <2>1. nodes[L] = [line |-> nodes[L].line, nodes |-> old]
      BY <1>2 DEF Nodes
    <2> QED
      BY <2>1
  <1>6. s \in Nodes /\ s.line = nodes[L].line /\ s.nodes = new
    <2>1. s \in [line : TreeLines, nodes : Seq(Leaves)]
      BY <1>2, <1>4, <1>5
    <2> QED
      BY <1>1, <1>5, <2>1 DEF Nodes
  <1>7. more = [nodes EXCEPT ![L] = s]
    BY DEF new, n
  <1> HIDE DEF s, more
  <1>8. /\ more \in Seq(Nodes) /\ Len(more) = L
        /\ \A a \in 1 .. L : more[a] = IF a = L THEN s ELSE nodes[a]
    <2>1. L = Len(nodes)
      OBVIOUS
    <2> HIDE DEF L
    <2>2. L \in 1 .. Len(nodes)
      BY <1>1, <2>1
    <2>3. s \in Nodes
      BY <1>6
    <2>4. /\ [nodes EXCEPT ![L] = s] \in Seq(Nodes)
          /\ Len([nodes EXCEPT ![L] = s]) = Len(nodes)
          /\ \A a \in 1 .. Len(nodes) :
                [nodes EXCEPT ![L] = s][a] = IF a = L THEN s ELSE nodes[a]
      BY <2>2, <2>3, ExceptSeq
    <2> QED
      BY <1>7, <2>1, <2>4
  <1>9. more[L] = s /\ \A a \in 1 .. L : more[a].line = nodes[a].line
    BY <1>1, <1>6, <1>8
  <1> HIDE DEF L, old
  <1>10. ASSUME NEW a \in 1 .. L, NEW b \in 0 .. Len(nodes[a].nodes)
         PROVE  /\ b \in 0 .. Len(more[a].nodes) /\ LineAt(more, a, b) = LineAt(nodes, a, b)
                /\ a < L \/ (a = L /\ b < Len(old) + 1)
    <2>1. CASE a = L
      <3>1. b \in 0 .. Len(old) /\ more[a].nodes = new /\ nodes[a].nodes = old
        BY <1>6, <1>9, <2>1 DEF old
      <3>2. b \in 0 .. Len(new) /\ b < Len(old) + 1 /\ (b # 0 => b \in 1 .. Len(old))
        BY <1>2, <1>4, <3>1
      <3>3. LineAt(more, a, b) = LineAt(nodes, a, b)
        BY <1>4, <1>9, <3>1, <3>2 DEF LineAt
      <3> QED
        BY <2>1, <3>1, <3>2, <3>3
    <2>2. CASE a # L
      <3>1. more[a] = nodes[a] /\ a < L
        BY <1>1, <1>8, <2>2
      <3> QED
        BY <3>1 DEF LineAt
    <2> QED
      BY <2>1, <2>2
  <1>11. Len(old) + 1 \in 0 .. Len(more[L].nodes) /\ LineAt(more, L, Len(old) + 1) = line
    <2>1. more[L].nodes = new
      BY <1>6, <1>9
    <2>2. Len(old) + 1 # 0 /\ Len(old) + 1 \in 0 .. Len(new)
      BY <1>2, <1>4
    <2> QED
      BY <1>3, <1>4, <2>1, <2>2 DEF LineAt
  <1>12. ASSUME NEW a \in 1 .. Len(more), NEW b \in 0 .. Len(more[a].nodes)
         PROVE  \/ a = L /\ b = Len(old) + 1
                \/ a \in 1 .. L /\ b \in 0 .. Len(nodes[a].nodes)
    <2>1. CASE a = L
      <3>1. more[a].nodes = new /\ nodes[a].nodes = old
        BY <1>6, <1>9, <2>1 DEF old
      <3> QED
        BY <1>2, <1>4, <1>8, <2>1, <3>1
    <2>2. CASE a # L
      BY <1>8, <2>2
    <2> QED
      BY <2>1, <2>2
  <1>13. L <= Len(more) /\ L \in 1 .. Len(more)
    BY <1>1, <1>8
  <1>14. OneMore(nodes, more, L, Len(old) + 1, line)
    BY <1>8, <1>10, <1>11, <1>12, <1>13 DEF OneMore, L
  <1>15. InSection(more)
    <2>1. Last(more) = s /\ more # <<>>
      BY <1>1, <1>8, <1>9 DEF Last
    <2> QED
      BY <1>1, <1>6, <2>1 DEF InSection
  <1> QED
    BY <1>8, <1>9, <1>14, <1>15 DEF AddedChild, L, old, more

LEMMA AddLoads ==
    ASSUME NEW text \in Seq(Lines), NEW n \in Nat, n + 1 \in 1 .. Len(text),
           NEW nodes, NEW pos, Loaded(text, n, nodes, pos)
    PROVE  \E q : Loaded(text, n + 1,
                         Add(nodes, text[n + 1], n + 1 > LastContent(text)), q)
  <1> DEFINE line == text[n + 1]
             end == n + 1 > LastContent(text)
             more == Add(nodes, line, end)
             NoSections(ns) == \A a \in 1 .. Len(ns) : ns[a].line.type # "SECTION"
  <1>1. nodes \in Seq(Nodes) /\ KeysFirst(nodes) /\ Len(nodes) \in Nat
        /\ (n <= LastContent(text) /\ ~InSection(nodes) => NoSections(nodes))
    BY DEF Loaded
  <1>2. line \in Lines /\ LastContent(text) \in Nat /\ (end => line.type = "BLANK")
    BY ElementOfSeq, BlankAtEnd
  <1>3. CASE line.type = "BAD"
    <2>1. more = nodes
      BY <1>3 DEF Add
    <2>2. Places(text, n + 1, nodes, pos)
      <3>1. \A i \in 1 .. n : i \in 1 .. n + 1
        OBVIOUS
      <3> QED
        BY <3>1 DEF Loaded, Places
    <2>3. \A i \in 1 .. n + 1 : text[i].type # "BAD" => HasPlace(nodes, pos, i)
      <3>1. \A i \in 1 .. n + 1 : i = n + 1 \/ i \in 1 .. n
        OBVIOUS
      <3> QED
        BY <1>3, <3>1 DEF Loaded
    <2>4. n + 1 <= LastContent(text) => n <= LastContent(text)
      BY <1>2
    <2>5. Loaded(text, n + 1, nodes, pos)
      BY <2>2, <2>3, <2>4 DEF Loaded
    <2> QED
      BY <2>1, <2>5
  <1>4. CASE line.type # "BAD" /\ (end \/ line.type = "SECTION" \/ ~InSection(nodes))
    <2>1. more = Append(nodes, Node(line, <<>>)) /\ line \in TreeLines
      BY <1>2, <1>4, ReadLine DEF Add
    <2>2. /\ OneMore(nodes, more, Len(nodes) + 1, 0, line)
          /\ Len(more) = Len(nodes) + 1 /\ Last(more).line = line /\ more # <<>>
          /\ \A a \in 1 .. Len(nodes) : more[a] = nodes[a]
          /\ more[Len(nodes) + 1].line = line
      <3>1. AddedNode(nodes, Append(nodes, Node(line, <<>>)), line)
        BY <1>1, <2>1, AddsNode
      <3> HIDE DEF more
      <3> QED
        BY <2>1, <3>1 DEF AddedNode
    <2>3. PICK q : /\ Places(text, n + 1, more, q)
                   /\ \A a \in 1 .. Len(more) : \A b \in 0 .. Len(more[a].nodes) :
                         LineAt(more, a, b) \in Lines
                   /\ \A i \in 1 .. n + 1 : text[i].type # "BAD" => HasPlace(more, q, i)
      <3> HIDE DEF more
      <3> QED
        BY <1>1, <1>4, <2>2, OneMorePlace
    <2> HIDE DEF more, line, end
    <2>4. more \in Seq(Nodes)
      BY <2>2 DEF OneMore
    <2>5. \A a \in 1 .. Len(more) : a \in 1 .. Len(nodes) \/ a = Len(nodes) + 1
      BY <1>1, <2>2
    <2>6. ~end /\ ~ InSection(more) => NoSections(more)
      <3> SUFFICES ASSUME ~end, ~ InSection(more) PROVE NoSections(more)
        OBVIOUS
      <3>1. line.type # "SECTION"
        BY <2>2 DEF InSection
      <3>2. NoSections(nodes)
        BY <1>1, <1>2, <1>4, <3>1 DEF end
      <3> QED
        BY <2>2, <2>5, <3>1, <3>2
    <2>7. line.type = "KEY" => NoSections(nodes)
      BY <1>1, <1>2, <1>4 DEF end
    <2>8. KeysFirst(more)
      <3> SUFFICES ASSUME NEW i \in 1 .. Len(more), NEW j \in 1 .. Len(more), i < j,
                          more[j].line.type = "KEY"
                   PROVE  more[i].line.type # "SECTION"
        BY DEF KeysFirst
      <3>1. i \in 1 .. Len(nodes) /\ more[i] = nodes[i]
        BY <1>1, <2>2
      <3>2. CASE j = Len(nodes) + 1
        BY <2>2, <2>7, <3>1, <3>2
      <3>3. CASE j \in 1 .. Len(nodes)
        BY <1>1, <2>2, <3>1, <3>3 DEF KeysFirst
      <3> QED
        BY <2>5, <3>2, <3>3
    <2>9. n + 1 <= LastContent(text) => ~end
      BY <1>2 DEF end
    <2>10. Loaded(text, n + 1, more, q)
      BY <2>3, <2>4, <2>6, <2>8, <2>9 DEF Loaded
    <2> QED
      BY <2>10 DEF more, line, end
  <1>5. CASE line.type # "BAD" /\ ~ (end \/ line.type = "SECTION" \/ ~InSection(nodes))
    <2>1. /\ more = [nodes EXCEPT ![Len(nodes)].nodes = Append(@, Node(line, <<>>))]
          /\ line \in TreeLines /\ line.type # "SECTION" /\ InSection(nodes)
      BY <1>2, <1>5, ReadLine DEF Add
    <2>2. /\ OneMore(nodes, more, Len(nodes), Len(nodes[Len(nodes)].nodes) + 1, line)
          /\ Len(more) = Len(nodes) /\ InSection(more)
          /\ \A a \in 1 .. Len(nodes) : more[a].line = nodes[a].line
      <3>1. AddedChild(nodes,
                       [nodes EXCEPT ![Len(nodes)].nodes = Append(@, Node(line, <<>>))], line)
        BY <1>1, <2>1, AddsChild
      <3> HIDE DEF more, line
      <3>2. AddedChild(nodes, more, line)
        BY <2>1, <3>1
      <3> QED
        BY <3>2 DEF AddedChild
    <2>3. PICK q : /\ Places(text, n + 1, more, q)
                   /\ \A a \in 1 .. Len(more) : \A b \in 0 .. Len(more[a].nodes) :
                         LineAt(more, a, b) \in Lines
                   /\ \A i \in 1 .. n + 1 : text[i].type # "BAD" => HasPlace(more, q, i)
      <3> HIDE DEF more
      <3> QED
        BY <1>1, <1>5, <2>2, OneMorePlace
    <2> HIDE DEF more, line, end
    <2>4. more \in Seq(Nodes)
      BY <2>2 DEF OneMore
    <2>5. KeysFirst(more)
      BY <1>1, <2>2 DEF KeysFirst
    <2>6. Loaded(text, n + 1, more, q)
      BY <2>2, <2>3, <2>4, <2>5 DEF Loaded
    <2> QED
      BY <2>6 DEF more, line, end
  <1> QED
    BY <1>3, <1>4, <1>5

\* The nodes after each of the first n lines.
Stages(text, n, f) ==
    f = [i \in 0 .. n |-> IF i = 0 THEN <<>>
                          ELSE Add(f[i - 1], text[i], i > LastContent(text))]

LEMMA OneMoreStage ==
    ASSUME NEW m \in Nat, NEW text, NEW f, Stages(text, m, f)
    PROVE  \E g : Stages(text, m + 1, g)
  <1> DEFINE g == [i \in 0 .. m + 1 |->
                      IF i = m + 1 THEN Add(f[m], text[m + 1], m + 1 > LastContent(text))
                      ELSE f[i]]
  <1>1. \A i \in 0 .. m : f[i] = IF i = 0 THEN <<>>
                                 ELSE Add(f[i - 1], text[i], i > LastContent(text))
    BY DEF Stages
  <1>2. /\ \A i \in 0 .. m : g[i] = f[i]
        /\ g[m + 1] = Add(f[m], text[m + 1], m + 1 > LastContent(text))
    OBVIOUS
  <1>3. g = [i \in 0 .. m + 1 |-> g[i]]
    OBVIOUS
  <1> HIDE DEF g
  <1>4. ASSUME NEW i \in 0 .. m + 1
        PROVE  g[i] = IF i = 0 THEN <<>>
                      ELSE Add(g[i - 1], text[i], i > LastContent(text))
    <2>1. CASE i = m + 1
      <3>1. i # 0 /\ i - 1 = m /\ m \in 0 .. m
        BY <2>1
      <3> QED
        BY <1>2, <2>1, <3>1
    <2>2. CASE i \in 0 .. m
      <3>1. i # 0 => i - 1 \in 0 .. m
        BY <2>2
      <3> QED
        BY <1>1, <1>2, <2>2, <3>1
    <2> QED
      BY <2>1, <2>2
  <1>5. Stages(text, m + 1, g)
    BY <1>3, <1>4 DEF Stages
  <1> QED
    BY <1>5

LEMMA StagesExist ==
    ASSUME NEW n \in Nat, NEW text
    PROVE  \E f : Stages(text, n, f)
  <1> DEFINE S == {m \in 0 .. n : \E f : Stages(text, m, f)}
  <1>1. 0 \in S
    <2>1. Stages(text, 0, [i \in 0 .. 0 |-> <<>>])
      BY DEF Stages
    <2> QED
      BY <2>1
  <1>2. ASSUME NEW m \in 0 .. n - 1, m \in S PROVE m + 1 \in S
    <2>1. PICK f : Stages(text, m, f)
      BY <1>2
    <2>2. \E g : Stages(text, m + 1, g)
      BY <2>1, OneMoreStage
    <2> QED
      BY <2>2
  <1> HIDE DEF S
  <1>3. 0 .. n \subseteq S
    BY <1>1, <1>2, InductionUpTo
  <1> QED
    BY <1>3 DEF S

LEMMA LoadIsLastStage ==
    ASSUME NEW text \in Seq(Lines)
    PROVE  \E f : Stages(text, Len(text), f) /\ LoadFromMem(text) = Root("ROOT", f[Len(text)])
  <1>1. PICK g : Stages(text, Len(text), g)
    BY StagesExist
  <1> DEFINE f == CHOOSE h : h = [i \in 0 .. Len(text) |->
                       IF i = 0 THEN <<>> ELSE Add(h[i - 1], text[i], i > LastContent(text))]
  <1>2. f = [i \in 0 .. Len(text) |->
                IF i = 0 THEN <<>> ELSE Add(f[i - 1], text[i], i > LastContent(text))]
    BY <1>1 DEF Stages
  <1>3. LoadFromMem(text) = Root("ROOT", f[Len(text)])
    BY DEF LoadFromMem
  <1> HIDE DEF f
  <1> QED
    BY <1>2, <1>3 DEF Stages

LEMMA LoadLays ==
    ASSUME NEW text \in Seq(Lines)
    PROVE  /\ LoadFromMem(text) \in Trees
           /\ \E pos : Loaded(text, Len(text), LoadFromMem(text).nodes, pos)
  <1>1. PICK f : Stages(text, Len(text), f) /\ LoadFromMem(text) = Root("ROOT", f[Len(text)])
    BY LoadIsLastStage
  <1>2. \A i \in 0 .. Len(text) :
            f[i] = IF i = 0 THEN <<>> ELSE Add(f[i - 1], text[i], i > LastContent(text))
    BY <1>1 DEF Stages
  <1>3. Len(text) \in Nat
    OBVIOUS
  <1> DEFINE S == {i \in 0 .. Len(text) : \E pos : Loaded(text, i, f[i], pos)}
  <1>4. 0 \in S
    <2>1. f[0] = <<>> /\ 0 \in 0 .. Len(text)
      BY <1>2, <1>3
    <2>2. Loaded(text, 0, <<>>, <<>>)
      BY DEF Loaded, KeysFirst, Places
    <2> QED
      BY <2>1, <2>2
  <1>5. ASSUME NEW m \in 0 .. Len(text) - 1, m \in S PROVE m + 1 \in S
    <2>1. /\ m \in Nat /\ m + 1 \in 1 .. Len(text) /\ m + 1 \in 0 .. Len(text)
          /\ m + 1 # 0 /\ (m + 1) - 1 = m
      BY <1>3
    <2>2. PICK pos : Loaded(text, m, f[m], pos)
      BY <1>5
    <2>3. f[m + 1] = Add(f[m], text[m + 1], m + 1 > LastContent(text))
      BY <1>2, <2>1
    <2>4. \E q : Loaded(text, m + 1, f[m + 1], q)
      BY <2>1, <2>2, <2>3, AddLoads
    <2> QED
      BY <2>1, <2>4
  <1>6. Len(text) \in 0 .. Len(text)
    BY <1>3
  <1> HIDE DEF S
  <1>7. 0 .. Len(text) \subseteq S
    BY <1>3, <1>4, <1>5, InductionUpTo
  <1>8. PICK pos : Loaded(text, Len(text), f[Len(text)], pos)
    BY <1>6, <1>7 DEF S
  <1>9. LoadFromMem(text) = [type |-> "ROOT", nodes |-> f[Len(text)]]
    BY <1>1 DEF Root
  <1>10. f[Len(text)] \in Seq(Nodes) /\ KeysFirst(f[Len(text)])
    BY <1>8 DEF Loaded
  <1>11. LoadFromMem(text) \in Trees
    BY <1>9, <1>10 DEF Trees, RootTypes
  <1> QED
    BY <1>8, <1>9, <1>11

\* What GetValue returns stands in a line of the tree, if it is not empty.
LEMMA ViewIsOfALine ==
    ASSUME NEW tree \in Trees, NEW k \in Keys, View(tree)[k] # Empty
    PROVE  \E a \in 1 .. Len(tree.nodes) : \E b \in 0 .. Len(tree.nodes[a].nodes) :
              View(tree)[k] = LineAt(tree.nodes, a, b).value
  <1> DEFINE nodes == tree.nodes
             s == Find(nodes, "SECTION", k[1])
  <1>1. nodes \in Seq(Nodes) /\ Len(nodes) \in Nat
    BY DEF Trees
  <1>2. View(tree)[k] = GetValue(tree, k[2], k[1])
    BY DEF View
  <1> HIDE DEF nodes
  <1>3. CASE k[1] = Empty
    <2> DEFINE a == Find(nodes, "KEY", k[2])
    <2>1. View(tree)[k] = GetFrom(nodes, k[2])
      BY <1>2, <1>3 DEF GetValue, nodes
    <2>2. a # 0 /\ View(tree)[k] = nodes[a].line.value
      BY <2>1 DEF GetFrom
    <2>3. a \in 1 .. Len(nodes)
      BY <1>1, <2>2, FindsFirst
    <2> HIDE DEF a
    <2>4. 0 \in 0 .. Len(nodes[a].nodes) /\ LineAt(nodes, a, 0) = nodes[a].line
      BY <1>1, <2>3, NodeFields DEF LineAt
    <2> QED
      BY <2>2, <2>3, <2>4 DEF nodes
  <1>4. CASE k[1] # Empty
    <2>1. s # 0 /\ View(tree)[k] = GetFrom(nodes[s].nodes, k[2])
      BY <1>2, <1>4 DEF GetValue, nodes
    <2>2. s \in 1 .. Len(nodes)
      BY <1>1, <2>1, FindsFirst
    <2> HIDE DEF s
    <2> DEFINE ns == nodes[s].nodes
               b == Find(ns, "KEY", k[2])
    <2>3. ns \in Seq(Leaves) /\ Len(ns) \in Nat
      BY <1>1, <2>2, NodeFields
    <2> HIDE DEF ns
    <2>4. b # 0 /\ View(tree)[k] = ns[b].line.value
      BY <2>1 DEF GetFrom, ns
    <2>5. b \in 1 .. Len(ns)
      BY <2>3, <2>4, FindsFirst
    <2> HIDE DEF b
    <2>6. b \in 0 .. Len(nodes[s].nodes) /\ LineAt(nodes, s, b) = ns[b].line
      BY <2>3, <2>4, <2>5 DEF LineAt, ns
    <2> QED
      BY <2>2, <2>4, <2>6 DEF nodes
  <1> QED
    BY <1>3, <1>4

\* A text is read as it is: what a reader finds in it is what GetValue returns once it
\* has been loaded, be it for keys of no section, of sections that come twice, or among
\* malformed lines and comments.
THEOREM LoadReads ==
    ASSUME NEW text \in Seq(Lines)
    PROVE  View(LoadFromMem(text)) = Read(text)
  <1> DEFINE tree == LoadFromMem(text)
             nodes == tree.nodes
  <1>1. tree \in Trees
    BY LoadLays
  <1>2. PICK pos : Loaded(text, Len(text), nodes, pos)
    BY LoadLays
  <1>3. Lays(text, nodes, pos)
    BY <1>2 DEF Loaded, Lays, Stray
  <1> HIDE DEF tree
  <1>4. ASSUME NEW k \in Keys PROVE Read(text)[k] = View(tree)[k]
    <2>1. Read(text)[k] = Cut(View(tree)[k])
      BY <1>1, <1>3, ReadsTree
    <2>2. Plain(View(tree)[k])
      <3>1. CASE View(tree)[k] = Empty
        BY <3>1, EmptyAssumption
      <3>2. CASE View(tree)[k] # Empty
        <4>1. PICK a \in 1 .. Len(nodes) : \E b \in 0 .. Len(nodes[a].nodes) :
                  View(tree)[k] = LineAt(nodes, a, b).value
          BY <1>1, <3>2, ViewIsOfALine
        <4>2. PICK b \in 0 .. Len(nodes[a].nodes) : View(tree)[k] = LineAt(nodes, a, b).value
          BY <4>1
        <4>3. LineAt(nodes, a, b) \in Lines
          BY <1>2 DEF Loaded
        <4> QED
          BY <4>2, <4>3 DEF Lines
      <3> QED
        BY <3>1, <3>2
    <2> QED
      BY <2>1, <2>2 DEF Plain
  <1>5. View(tree) = [k \in Keys |-> View(tree)[k]] /\ Read(text) = [k \in Keys |-> Read(text)[k]]
    BY DEF View, Read
  <1> QED
    BY <1>4, <1>5 DEF tree

-------------------------------------------------------------------------------
(* What SetValue changes.                                                      *)

\* Find finds the same in nodes that have the same types and names, if those that are
\* new are others.
LEMMA FindsSame ==
    ASSUME NEW S, NEW ns \in Seq(S), NEW ms \in Seq(S), Len(ns) <= Len(ms),
           NEW type, NEW label,
           \A i \in 1 .. Len(ns) : /\ ms[i].line.type = ns[i].line.type
                                   /\ ms[i].line.label = ns[i].line.label,
           \A i \in Len(ns) + 1 .. Len(ms) :
              ~ (ms[i].line.type = type /\ ms[i].line.label = label)
    PROVE  Find(ms, type, label) = Find(ns, type, label)
  <1> DEFINE f == Find(ns, type, label)
             g == Find(ms, type, label)
             Is(n) == n.line.type = type /\ n.line.label = label
  <1>1. /\ f \in 0 .. Len(ns)
        /\ f = 0 => \A i \in 1 .. Len(ns) : ~ Is(ns[i])
        /\ f # 0 => Is(ns[f]) /\ \A i \in 1 .. f - 1 : ~ Is(ns[i])
    BY FindsFirst
  <1>2. /\ g \in 0 .. Len(ms)
        /\ g = 0 => \A i \in 1 .. Len(ms) : ~ Is(ms[i])
        /\ g # 0 => Is(ms[g]) /\ \A i \in 1 .. g - 1 : ~ Is(ms[i])
    BY FindsFirst
  <1>3. Len(ns) \in Nat /\ Len(ms) \in Nat
    OBVIOUS
  <1>4. /\ \A i \in 1 .. Len(ns) : Is(ms[i]) <=> Is(ns[i])
        /\ \A i \in Len(ns) + 1 .. Len(ms) : ~ Is(ms[i])
    OBVIOUS
  <1> HIDE DEF f, g, Is
  <1>5. ASSUME g # 0 PROVE g \in 1 .. Len(ns) /\ Is(ns[g])
    <2>1. g \in 1 .. Len(ms) /\ Is(ms[g])
      BY <1>2, <1>3, <1>5
    <2>2. g \notin Len(ns) + 1 .. Len(ms)
      BY <1>4, <2>1
    <2>3. g \in 1 .. Len(ns)
      BY <1>3, <2>1, <2>2
    <2> QED
      BY <1>4, <2>1, <2>3
  <1>6. CASE f = 0
    BY <1>1, <1>5, <1>6 DEF f, g
  <1>7. CASE f # 0
    <2>1. f \in 1 .. Len(ns) /\ f \in 1 .. Len(ms) /\ Is(ms[f])
      BY <1>1, <1>3, <1>4, <1>7
    <2>2. g # 0
      BY <1>2, <2>1
    <2>3. g \in 1 .. Len(ns) /\ Is(ns[g])
      BY <1>5, <2>2
    <2>4. f \notin 1 .. g - 1
      BY <1>2, <2>1, <2>2
    <2>5. g \notin 1 .. f - 1
      BY <1>1, <1>7, <2>3
    <2>6. f = g
      BY <1>3, <2>1, <2>3, <2>4, <2>5
    <2> QED
      BY <2>6 DEF f, g
  <1> QED
    BY <1>6, <1>7

\* Setting a key among the children of a section.
SetsIn(ns, ms, key, v) ==
    /\ ms \in Seq(Leaves) /\ Len(ns) <= Len(ms)
    /\ \A b \in 1 .. Len(ns) :
          /\ ms[b].line.type = ns[b].line.type
          /\ ms[b].line.label = ns[b].line.label
          /\ ms[b].line.span = ns[b].line.span
    /\ GetFrom(ms, key) = v
    /\ \A other : other # key => GetFrom(ms, other) = GetFrom(ns, other)

LEMMA KeyIsLeaf ==
    ASSUME NEW key \in Text, NEW v \in Values
    PROVE  /\ Key(key, v) \in Leaves
           /\ Key(key, v).line.type = "KEY" /\ Key(key, v).line.label = key
           /\ Key(key, v).line.value = v
  <1>1. <<>> \in Seq(Text) /\ "KEY" \in LineTypes
    BY DEF LineTypes
  <1>2. Key(key, v) = [line |-> [type |-> "KEY", label |-> key, value |-> v, span |-> <<>>],
                       nodes |-> <<>>]
    BY DEF Key, Node, Line
  <1>3. [type |-> "KEY", label |-> key, value |-> v, span |-> <<>>] \in TreeLines
    BY <1>1 DEF TreeLines
  <1> QED
    BY <1>2, <1>3 DEF Leaves

LEMMA SetInAppends ==
    ASSUME NEW ns \in Seq(Leaves), NEW key \in Text, NEW v \in Values,
           Find(ns, "KEY", key) = 0
    PROVE  SetsIn(ns, SetIn(ns, key, v), key, v)
  <1> DEFINE n == Key(key, v)
             ms == SetIn(ns, key, v)
  <1>1. n \in Leaves /\ n.line.type = "KEY" /\ n.line.label = key /\ n.line.value = v
    BY KeyIsLeaf
  <1>2. ms = Append(ns, n)
    BY DEF SetIn
  <1> HIDE DEF n, ms
  <1>3. /\ ms \in Seq(Leaves) /\ Len(ms) = Len(ns) + 1 /\ Len(ns) \in Nat
        /\ \A b \in 1 .. Len(ns) : ms[b] = ns[b]
        /\ ms[Len(ns) + 1] = n
    BY <1>1, <1>2, AppendProperties, LenProperties
  <1>4. Len(ns) <= Len(ms) /\ \A i \in Len(ns) + 1 .. Len(ms) : ms[i] = n
    BY <1>3
  <1>5. ASSUME NEW other, other # key PROVE GetFrom(ms, other) = GetFrom(ns, other)
    <2>1. \A i \in Len(ns) + 1 .. Len(ms) :
              ~ (ms[i].line.type = "KEY" /\ ms[i].line.label = other)
      BY <1>1, <1>4, <1>5
    <2>2. \A i \in 1 .. Len(ns) : /\ ms[i].line.type = ns[i].line.type
                                  /\ ms[i].line.label = ns[i].line.label
      BY <1>3
    <2>3. Find(ms, "KEY", other) = Find(ns, "KEY", other)
      BY <1>3, <1>4, <2>1, <2>2, FindsSame
    <2>4. Find(ns, "KEY", other) # 0 => Find(ns, "KEY", other) \in 1 .. Len(ns)
      BY <1>3, FindsFirst
    <2> QED
      BY <1>3, <2>3, <2>4 DEF GetFrom
  <1>6. GetFrom(ms, key) = v
    <2> DEFINE g == Find(ms, "KEY", key)
    <2>1. /\ g \in 0 .. Len(ms)
          /\ g = 0 => \A i \in 1 .. Len(ms) :
                         ~ (ms[i].line.type = "KEY" /\ ms[i].line.label = key)
          /\ g # 0 => ms[g].line.type = "KEY" /\ ms[g].line.label = key
      BY <1>3, FindsFirst
    <2>2. \A i \in 1 .. Len(ns) : ~ (ns[i].line.type = "KEY" /\ ns[i].line.label = key)
      BY FindsFirst
    <2>3. Len(ns) + 1 \in 1 .. Len(ms)
      BY <1>3
    <2>4. g # 0
      BY <1>1, <1>3, <2>1, <2>3
    <2>5. g \notin 1 .. Len(ns)
      BY <1>3, <2>1, <2>2, <2>4
    <2>6. g = Len(ns) + 1
      BY <1>3, <2>1, <2>4, <2>5
    <2> QED
      BY <1>1, <1>3, <2>4, <2>6 DEF GetFrom
  <1>7. SetsIn(ns, ms, key, v)
    BY <1>3, <1>4, <1>5, <1>6 DEF SetsIn
  <1> QED
    BY <1>7 DEF ms

LEMMA SetInReplaces ==
    ASSUME NEW ns \in Seq(Leaves), NEW key \in Text, NEW v \in Values,
           Find(ns, "KEY", key) # 0
    PROVE  SetsIn(ns, SetIn(ns, key, v), key, v)
  <1> DEFINE kv == Find(ns, "KEY", key)
             ms == SetIn(ns, key, v)
             old == ns[kv]
             n == [old EXCEPT !.line.value = v]
  <1>1. /\ kv \in 1 .. Len(ns) /\ old.line.type = "KEY" /\ old.line.label = key
        /\ kv # 0
    BY FindsFirst
  <1>2. ms = [ns EXCEPT ![kv] = n]
    BY <1>1 DEF SetIn
  <1> HIDE DEF kv, ms
  <1>3. old \in Leaves
    BY <1>1, ElementOfSeq
  <1> HIDE DEF old
  <1>4. /\ n \in Leaves /\ n.line.type = "KEY" /\ n.line.label = key /\ n.line.value = v
        /\ n.line.span = old.line.span
    <2> DEFINE line == [old.line EXCEPT !.value = v]
    <2>1. old \in [line : TreeLines, nodes : {<<>>}] /\ old.line \in TreeLines
      BY <1>3 DEF Leaves
    <2>2. n = [line |-> line, nodes |-> old.nodes]
      BY <2>1
    <2>3. line = [type |-> old.line.type, label |-> old.line.label, value |-> v,
                  span |-> old.line.span]
      BY <2>1 DEF TreeLines
    <2>4. line \in TreeLines
      BY <2>1, <2>3 DEF TreeLines
    <2> HIDE DEF line
    <2>5. n \in [line : TreeLines, nodes : {<<>>}] /\ n.line = line
      BY <2>1, <2>2, <2>4
    <2> QED
      BY <1>1, <2>3, <2>5 DEF Leaves
  <1> HIDE DEF n
  <1>5. /\ [ns EXCEPT ![kv] = n] \in Seq(Leaves)
        /\ Len([ns EXCEPT ![kv] = n]) = Len(ns)
        /\ \A b \in 1 .. Len(ns) : [ns EXCEPT ![kv] = n][b] = IF b = kv THEN n ELSE ns[b]
    BY <1>1, <1>4, ExceptSeq
  <1>6. /\ ms \in Seq(Leaves) /\ Len(ms) = Len(ns) /\ Len(ns) \in Nat
        /\ \A b \in 1 .. Len(ns) : ms[b] = IF b = kv THEN n ELSE ns[b]
        /\ ms[kv] = n
    BY <1>1, <1>2, <1>5, LenProperties
  <1>7. \A b \in 1 .. Len(ns) : /\ ms[b].line.type = ns[b].line.type
                                /\ ms[b].line.label = ns[b].line.label
                                /\ ms[b].line.span = ns[b].line.span
    BY <1>1, <1>4, <1>6 DEF old
  <1>8. \A l : Find(ms, "KEY", l) = Find(ns, "KEY", l)
    <2>1. Len(ns) <= Len(ms) /\ Len(ns) + 1 .. Len(ms) = {}
      BY <1>6
    <2> QED
      BY <1>6, <1>7, <2>1, FindsSame
  <1>9. GetFrom(ms, key) = v
    BY <1>1, <1>4, <1>6, <1>8 DEF GetFrom, kv
  <1>10. ASSUME NEW other, other # key PROVE GetFrom(ms, other) = GetFrom(ns, other)
    <2> DEFINE f == Find(ns, "KEY", other)
    <2>1. f # 0 => f \in 1 .. Len(ns) /\ ns[f].line.label = other
      BY FindsFirst
    <2> HIDE DEF f
    <2>2. f # 0 => f # kv
      BY <1>1, <1>10, <2>1 DEF old
    <2>3. f # 0 => ms[f] = ns[f]
      BY <1>6, <2>1, <2>2
    <2> QED
      BY <1>8, <2>3 DEF GetFrom, f
  <1>11. Len(ns) <= Len(ms)
    BY <1>6
  <1>12. SetsIn(ns, ms, key, v)
    BY <1>6, <1>7, <1>9, <1>10, <1>11 DEF SetsIn
  <1> QED
    BY <1>12 DEF ms

\* A line says a comment.
HasComment(line, c) ==
    \/ line.type = "BLANK" /\ line.label = c
    \/ line.type \in {"SECTION", "KEY"} /\ c \in ToSet(line.span)

Says(nodes, c) ==
    \E a \in 1 .. Len(nodes) : \E b \in 0 .. Len(nodes[a].nodes) :
        HasComment(LineAt(nodes, a, b), c)

\* Setting a key of a section: in memory as Settings has it, and with no line moved,
\* renamed or stripped of its comment.
Sets(tree, new, key, v, section) ==
    /\ new \in Trees /\ new.type = tree.type
    /\ GetValue(new, key, section) = v
    /\ \A s, l : s # section \/ l # key => GetValue(new, l, s) = GetValue(tree, l, s)
    /\ \A c : Says(tree.nodes, c) => Says(new.nodes, c)

\* It makes the section when there is none.
LEMMA SetsInNewSection ==
    ASSUME NEW tree \in Trees, NEW key \in Text, NEW v \in Values,
           NEW section \in Text, section # Empty, Find(tree.nodes, "SECTION", section) = 0
    PROVE  Sets(tree, SetValue(tree, key, v, section), key, v, section)
  <1> DEFINE nodes == tree.nodes
             n == Node(Line("SECTION", section, Empty, <<>>), <<Key(key, v)>>)
             new == SetValue(tree, key, v, section)
             more == Append(nodes, n)
  <1>1. /\ tree.type \in RootTypes /\ nodes \in Seq(Nodes) /\ KeysFirst(nodes)
        /\ (tree.type # "ROOT" => NoKeys(nodes)) /\ Len(nodes) \in Nat
        /\ tree = [type |-> tree.type, nodes |-> nodes]
    BY DEF Trees
  <1>2. /\ n \in Nodes /\ n.line.type = "SECTION" /\ n.line.label = section
        /\ Len(n.nodes) = 1 /\ n.nodes \in Seq(Leaves) /\ n.nodes[1] = Key(key, v)
    <2> DEFINE line == Line("SECTION", section, Empty, <<>>)
               k == Key(key, v)
    <2>1. Empty \in Values /\ "SECTION" \in LineTypes /\ <<>> \in Seq(Text)
      BY EmptyAssumption DEF Values, LineTypes
    <2>2. line \in TreeLines /\ line.type = "SECTION" /\ line.label = section
      BY <2>1 DEF Line, TreeLines
    <2>3. k \in Leaves
      BY KeyIsLeaf
    <2> HIDE DEF line, k
    <2>4. <<k>> \in Seq(Leaves) /\ Len(<<k>>) = 1 /\ <<k>>[1] = k
      BY <2>3
    <2>5. n = [line |-> line, nodes |-> <<k>>]
      BY DEF Node, line, k
    <2> HIDE DEF n
    <2>6. n \in [line : TreeLines, nodes : Seq(Leaves)]
      BY <2>2, <2>4, <2>5
    <2> QED
      BY <2>2, <2>4, <2>5, <2>6 DEF Nodes, k
  <1>3. new = [type |-> tree.type, nodes |-> more]
    BY <1>1 DEF SetValue
  <1> HIDE DEF n, new, nodes
  <1>4. /\ more \in Seq(Nodes) /\ Len(more) = Len(nodes) + 1
        /\ \A a \in 1 .. Len(nodes) : more[a] = nodes[a]
        /\ more[Len(nodes) + 1] = n
    BY <1>1, <1>2, AppendProperties
  <1> HIDE DEF more
  <1>5. /\ Len(nodes) <= Len(more)
        /\ \A a \in 1 .. Len(more) : a \in 1 .. Len(nodes) \/ a = Len(nodes) + 1
        /\ \A a \in Len(nodes) + 1 .. Len(more) : a = Len(nodes) + 1
        /\ Len(nodes) + 1 \in 1 .. Len(more)
    BY <1>1, <1>4
  <1>6. new \in Trees
    <2>1. KeysFirst(more)
      <3> SUFFICES ASSUME NEW i \in 1 .. Len(more), NEW j \in 1 .. Len(more), i < j,
                          more[j].line.type = "KEY"
                   PROVE  more[i].line.type # "SECTION"
        BY DEF KeysFirst
      <3>1. j \in 1 .. Len(nodes)
        BY <1>2, <1>4, <1>5
      <3>2. i \in 1 .. Len(nodes)
        BY <1>1, <1>4, <3>1
      <3> QED
        BY <1>1, <1>4, <3>1, <3>2 DEF KeysFirst
    <2>2. NoKeys(nodes) => NoKeys(more)
      BY <1>2, <1>4, <1>5 DEF NoKeys
    <2> QED
      BY <1>1, <1>3, <1>4, <2>1, <2>2 DEF Trees
  <1>7. /\ \A a \in 1 .. Len(nodes) : /\ more[a].line.type = nodes[a].line.type
                                      /\ more[a].line.label = nodes[a].line.label
        /\ \A a \in Len(nodes) + 1 .. Len(more) :
              more[a].line.type = "SECTION" /\ more[a].line.label = section
    BY <1>2, <1>4, <1>5
  <1>8. ASSUME NEW l PROVE GetFrom(more, l) = GetFrom(nodes, l)
    <2>1. \A a \in Len(nodes) + 1 .. Len(more) :
              ~ (more[a].line.type = "KEY" /\ more[a].line.label = l)
      BY <1>7
    <2>2. Find(more, "KEY", l) = Find(nodes, "KEY", l)
      BY <1>1, <1>4, <1>5, <1>7, <2>1, FindsSame
    <2>3. Find(nodes, "KEY", l) # 0 => Find(nodes, "KEY", l) \in 1 .. Len(nodes)
      BY <1>1, FindsFirst
    <2> QED
      BY <1>4, <2>2, <2>3 DEF GetFrom
  <1>9. ASSUME NEW s, s # section
        PROVE  /\ Find(more, "SECTION", s) = Find(nodes, "SECTION", s)
               /\ Find(nodes, "SECTION", s) # 0 =>
                     more[Find(nodes, "SECTION", s)] = nodes[Find(nodes, "SECTION", s)]
    <2>1. \A a \in Len(nodes) + 1 .. Len(more) :
              ~ (more[a].line.type = "SECTION" /\ more[a].line.label = s)
      BY <1>7, <1>9
    <2>2. Find(more, "SECTION", s) = Find(nodes, "SECTION", s)
      BY <1>1, <1>4, <1>5, <1>7, <2>1, FindsSame
    <2>3. Find(nodes, "SECTION", s) # 0 => Find(nodes, "SECTION", s) \in 1 .. Len(nodes)
      BY <1>1, FindsFirst
    <2> QED
      BY <1>4, <2>2, <2>3
  <1>10. Find(more, "SECTION", section) = Len(nodes) + 1
    <2> DEFINE g == Find(more, "SECTION", section)
    <2>1. /\ g \in 0 .. Len(more)
          /\ g = 0 => \A i \in 1 .. Len(more) :
                         ~ (more[i].line.type = "SECTION" /\ more[i].line.label = section)
          /\ g # 0 => more[g].line.type = "SECTION" /\ more[g].line.label = section
      BY <1>4, FindsFirst
    <2>2. \A i \in 1 .. Len(nodes) :
              ~ (nodes[i].line.type = "SECTION" /\ nodes[i].line.label = section)
      BY <1>1, FindsFirst DEF nodes
    <2> HIDE DEF g
    <2>3. g # 0
      BY <1>2, <1>4, <1>5, <2>1
    <2>4. g \notin 1 .. Len(nodes)
      BY <1>7, <2>1, <2>2, <2>3
    <2>5. g \in 1 .. Len(more)
      BY <1>1, <1>4, <2>1, <2>3
    <2> QED
      BY <1>5, <2>4, <2>5 DEF g
  <1>11. \A l : GetFrom(n.nodes, l) = IF l = key THEN v ELSE Empty
    <2> SUFFICES ASSUME NEW l PROVE GetFrom(n.nodes, l) = IF l = key THEN v ELSE Empty
      OBVIOUS
    <2> DEFINE f == Find(n.nodes, "KEY", l)
    <2>1. /\ f \in 0 .. 1
          /\ f = 0 => \A i \in 1 .. 1 :
                         ~ (n.nodes[i].line.type = "KEY" /\ n.nodes[i].line.label = l)
          /\ f # 0 => n.nodes[f].line.label = l
      BY <1>2, FindsFirst
    <2>2. /\ n.nodes[1].line.type = "KEY" /\ n.nodes[1].line.label = key
          /\ n.nodes[1].line.value = v
      BY <1>2, KeyIsLeaf
    <2> HIDE DEF f
    <2>3. f = 0 \/ f = 1
      BY <2>1
    <2>4. CASE l = key
      <3>1. f = 1
        BY <2>1, <2>2, <2>3, <2>4
      <3> QED
        BY <2>2, <2>4, <3>1 DEF GetFrom, f
    <2>5. CASE l # key
      <3>1. f = 0
        BY <2>1, <2>2, <2>3, <2>5
      <3> QED
        BY <2>5, <3>1 DEF GetFrom, f
    <2> QED
      BY <2>4, <2>5
  <1>12. GetValue(new, key, section) = v
    <2>1. Len(nodes) + 1 # 0
      BY <1>1
    <2> QED
      BY <1>3, <1>4, <1>10, <1>11, <2>1 DEF GetValue
  <1>13. ASSUME NEW s, NEW l, s # section \/ l # key
         PROVE  GetValue(new, l, s) = GetValue(tree, l, s)
    <2>1. CASE s = Empty
      BY <1>3, <1>8, <2>1 DEF GetValue, nodes
    <2>2. CASE s # Empty /\ s # section
      BY <1>3, <1>9, <2>2 DEF GetValue, nodes
    <2>3. CASE s = section
      <3>1. GetValue(tree, l, s) = Empty
        BY <2>3 DEF GetValue
      <3>2. GetValue(new, l, s) = Empty
        <4>1. Len(nodes) + 1 # 0
          BY <1>1
        <4> QED
          BY <1>3, <1>4, <1>10, <1>11, <1>13, <2>3, <4>1 DEF GetValue
      <3> QED
        BY <3>1, <3>2
    <2> QED
      BY <2>1, <2>2, <2>3
  <1>14. ASSUME NEW c, Says(nodes, c) PROVE Says(more, c)
    <2>1. PICK a \in 1 .. Len(nodes) : \E b \in 0 .. Len(nodes[a].nodes) :
              HasComment(LineAt(nodes, a, b), c)
      BY <1>14 DEF Says
    <2>2. PICK b \in 0 .. Len(nodes[a].nodes) : HasComment(LineAt(nodes, a, b), c)
      BY <2>1
    <2>3. a \in 1 .. Len(more) /\ more[a] = nodes[a]
      BY <1>1, <1>4
    <2> QED
      BY <2>2, <2>3 DEF Says, LineAt
  <1>15. Sets(tree, new, key, v, section)
    BY <1>3, <1>6, <1>12, <1>13, <1>14 DEF Sets, nodes
  <1> QED
    BY <1>15 DEF new

\* Or it sets the key in the first section of that name.
LEMMA SetsInOldSection ==
    ASSUME NEW tree \in Trees, NEW key \in Text, NEW v \in Values,
           NEW section \in Text, section # Empty, Find(tree.nodes, "SECTION", section) # 0
    PROVE  Sets(tree, SetValue(tree, key, v, section), key, v, section)
  <1> DEFINE nodes == tree.nodes
             A == Find(nodes, "SECTION", section)
             ns == nodes[A].nodes
             ms == SetIn(ns, key, v)
             n == [nodes[A] EXCEPT !.nodes = ms]
             more == [nodes EXCEPT ![A] = n]
             new == SetValue(tree, key, v, section)
  <1>1. /\ tree.type \in RootTypes /\ nodes \in Seq(Nodes) /\ KeysFirst(nodes)
        /\ (tree.type # "ROOT" => NoKeys(nodes)) /\ Len(nodes) \in Nat
        /\ tree = [type |-> tree.type, nodes |-> nodes]
    BY DEF Trees
  <1>2. new = [type |-> tree.type, nodes |-> more]
    <2>1. new = [tree EXCEPT !.nodes = more]
      BY DEF SetValue
    <2> HIDE DEF new, more
    <2> QED
      BY <1>1, <2>1
  <1> HIDE DEF new, nodes
  <1>3. A # 0 /\ A \in 1 .. Len(nodes) /\ nodes[A].line.type = "SECTION"
    BY <1>1, FindsFirst DEF nodes
  <1> HIDE DEF A
  <1>4. /\ nodes[A] \in Nodes /\ nodes[A].line \in TreeLines /\ ns \in Seq(Leaves)
        /\ Len(ns) \in Nat
    BY <1>1, <1>3, NodeFields
  <1> HIDE DEF ns
  <1>5. SetsIn(ns, ms, key, v)
    BY <1>4, SetInAppends, SetInReplaces
  <1> HIDE DEF ms
  <1>6. n \in Nodes /\ n.line = nodes[A].line /\ n.nodes = ms
    <2>1. nodes[A] \in [line : TreeLines, nodes : Seq(Leaves)]
      BY <1>4 DEF Nodes
    <2>2. n = [line |-> nodes[A].line, nodes |-> ms]
      BY <2>1
    <2>3. ms \in Seq(Leaves)
      BY <1>5 DEF SetsIn
    <2> HIDE DEF n
    <2>4. n \in [line : TreeLines, nodes : Seq(Leaves)]
      BY <1>4, <2>2, <2>3
    <2> QED
      BY <1>3, <2>2, <2>4 DEF Nodes
  <1> HIDE DEF n
  <1>7. /\ more \in Seq(Nodes) /\ Len(more) = Len(nodes)
        /\ \A a \in 1 .. Len(nodes) : more[a] = IF a = A THEN n ELSE nodes[a]
    BY <1>1, <1>3, <1>6, ExceptSeq
  <1> HIDE DEF more
  <1>8. \A a \in 1 .. Len(nodes) : more[a].line = nodes[a].line
    BY <1>3, <1>6, <1>7
  <1>9. new \in Trees
    <2>1. KeysFirst(more) /\ (NoKeys(nodes) => NoKeys(more))
      BY <1>1, <1>7, <1>8 DEF KeysFirst, NoKeys
    <2> QED
      BY <1>1, <1>2, <1>7, <2>1 DEF Trees
  <1>10. \A type, l : Find(more, type, l) = Find(nodes, type, l)
    <2>1. Len(nodes) <= Len(more) /\ Len(nodes) + 1 .. Len(more) = {}
      BY <1>1, <1>7
    <2>2. \A i \in 1 .. Len(nodes) : /\ more[i].line.type = nodes[i].line.type
                                     /\ more[i].line.label = nodes[i].line.label
      BY <1>8
    <2> QED
      BY <1>1, <1>7, <2>1, <2>2, FindsSame
  <1>11. \A l : GetFrom(more, l) = GetFrom(nodes, l)
    <2> SUFFICES ASSUME NEW l PROVE GetFrom(more, l) = GetFrom(nodes, l)
      OBVIOUS
    <2>1. Find(nodes, "KEY", l) # 0 => Find(nodes, "KEY", l) \in 1 .. Len(nodes)
      BY <1>1, FindsFirst
    <2> QED
      BY <1>8, <1>10, <2>1 DEF GetFrom
  <1>12. GetValue(new, key, section) = v
    <2>1. Find(new.nodes, "SECTION", section) = A /\ new.nodes[A].nodes = ms
      BY <1>2, <1>3, <1>6, <1>7, <1>10 DEF A
    <2>2. GetFrom(ms, key) = v
      BY <1>5 DEF SetsIn
    <2> QED
      BY <1>3, <2>1, <2>2 DEF GetValue
  <1>13. ASSUME NEW s, NEW l, s # section \/ l # key
         PROVE  GetValue(new, l, s) = GetValue(tree, l, s)
    <2>1. CASE s = Empty
      BY <1>2, <1>11, <2>1 DEF GetValue, nodes
    <2>2. CASE s # Empty /\ s # section
      <3> DEFINE f == Find(nodes, "SECTION", s)
      <3>1. f # 0 => f \in 1 .. Len(nodes) /\ nodes[f].line.label = s
        BY <1>1, FindsFirst
      <3>2. nodes[A].line.label = section
        BY <1>1, <1>3, FindsFirst DEF A
      <3> HIDE DEF f
      <3>3. f # 0 => more[f] = nodes[f]
        BY <1>7, <2>2, <3>1, <3>2
      <3> QED
        BY <1>2, <1>10, <2>2, <3>3 DEF GetValue, nodes, f
    <2>3. CASE s = section
      <3>1. Find(new.nodes, "SECTION", s) = A /\ new.nodes[A].nodes = ms
        BY <1>2, <1>3, <1>6, <1>7, <1>10, <2>3 DEF A
      <3>2. GetFrom(ms, l) = GetFrom(ns, l)
        BY <1>5, <1>13, <2>3 DEF SetsIn
      <3>3. GetValue(tree, l, s) = GetFrom(ns, l)
        BY <1>3, <2>3 DEF GetValue, A, ns, nodes
      <3>4. GetValue(new, l, s) = GetFrom(ms, l)
        BY <1>3, <2>3, <3>1 DEF GetValue
      <3> QED
        BY <3>2, <3>3, <3>4
    <2> QED
      BY <2>1, <2>2, <2>3
  <1>14. ASSUME NEW c, Says(nodes, c) PROVE Says(more, c)
    <2>1. PICK a \in 1 .. Len(nodes) : \E b \in 0 .. Len(nodes[a].nodes) :
              HasComment(LineAt(nodes, a, b), c)
      BY <1>14 DEF Says
    <2>2. PICK b \in 0 .. Len(nodes[a].nodes) : HasComment(LineAt(nodes, a, b), c)
      BY <2>1
    <2>3. b \in 0 .. Len(more[a].nodes) /\ HasComment(LineAt(more, a, b), c)
      <3>1. CASE a # A
        <4>1. more[a] = nodes[a]
          BY <1>7, <3>1
        <4> QED
          BY <2>2, <4>1 DEF LineAt
      <3>2. CASE a = A /\ b = 0
        <4>1. LineAt(more, a, b) = LineAt(nodes, a, b)
          BY <1>8, <3>2 DEF LineAt
        <4>2. ms \in Seq(Leaves) /\ Len(more[a].nodes) = Len(ms)
          BY <1>3, <1>5, <1>6, <1>7, <3>2 DEF SetsIn
        <4>3. 0 \in 0 .. Len(more[a].nodes)
          BY <4>2
        <4> QED
          BY <2>2, <3>2, <4>1, <4>3
      <3>3. CASE a = A /\ b # 0
        <4>1. nodes[a].nodes = ns /\ more[a].nodes = ms
          BY <1>3, <1>6, <1>7, <3>3 DEF ns
        <4>2. b \in 1 .. Len(ns)
          BY <1>4, <3>3, <4>1
        <4>3. /\ ms[b].line.type = ns[b].line.type /\ ms[b].line.label = ns[b].line.label
              /\ ms[b].line.span = ns[b].line.span
              /\ ms \in Seq(Leaves) /\ Len(ns) <= Len(ms)
          BY <1>5, <4>2 DEF SetsIn
        <4>4. LineAt(nodes, a, b) = ns[b].line /\ LineAt(more, a, b) = ms[b].line
          BY <3>3, <4>1 DEF LineAt
        <4>5. b \in 0 .. Len(more[a].nodes)
          <5>1. Len(ms) \in Nat
            BY <4>3, LenProperties
          <5> QED
            BY <1>4, <4>1, <4>2, <4>3, <5>1
        <4> QED
          BY <2>2, <4>3, <4>4, <4>5 DEF HasComment
      <3> QED
        BY <3>1, <3>2, <3>3
    <2>4. a \in 1 .. Len(more)
      BY <1>7
    <2> QED
      BY <2>3, <2>4 DEF Says
  <1>15. Sets(tree, new, key, v, section)
    BY <1>2, <1>9, <1>12, <1>13, <1>14 DEF Sets, nodes
  <1> QED
    BY <1>15 DEF new

\* A setting that is made is there, all others are what they were, and so is every
\* comment: whatever else the tree has, and whether or not it had the key or the section.
THEOREM SetGets ==
    ASSUME NEW tree \in Trees, NEW k \in Keys, k[1] # Empty, NEW v \in Values
    PROVE  LET new == SetValue(tree, k[2], v, k[1])
           IN /\ new \in Trees /\ new.type = tree.type
              /\ View(new) = [View(tree) EXCEPT ![k] = v]
              /\ \A c : Says(tree.nodes, c) => Says(new.nodes, c)
  <1> DEFINE new == SetValue(tree, k[2], v, k[1])
  <1>1. k[1] \in Text /\ k[2] \in Text
    BY KeyFields
  <1>2. Sets(tree, new, k[2], v, k[1])
    BY <1>1, SetsInNewSection, SetsInOldSection
  <1> HIDE DEF new
  <1>3. \A j \in Keys : j # k => j[1] # k[1] \/ j[2] # k[2]
    BY DEF Keys
  <1>4. ASSUME NEW j \in Keys
        PROVE  GetValue(new, j[2], j[1]) = IF j = k THEN v ELSE GetValue(tree, j[2], j[1])
    BY <1>2, <1>3 DEF Sets
  <1>5. View(new) = [View(tree) EXCEPT ![k] = v]
    BY <1>4 DEF View
  <1> QED
    BY <1>2, <1>5 DEF Sets, new

\* A saved tree is read as the settings it has, each up to its first '#': also those of a
\* root that SetValue made, whatever its type.
THEOREM DumpReads ==
    ASSUME NEW tree \in Trees
    PROVE  /\ DumpString(tree) \in Seq(Lines)
           /\ Read(DumpString(tree)) = [k \in Keys |-> Cut(View(tree)[k])]
  <1>1. PICK pos : Lays(DumpString(tree), tree.nodes, pos)
    BY DumpLays
  <1>2. DumpString(tree) \in Seq(Lines)
    BY DumpLays
  <1> DEFINE text == DumpString(tree)
  <1> HIDE DEF text
  <1>3. \A k \in Keys : Read(text)[k] = Cut(View(tree)[k])
    BY <1>1, <1>2, ReadsTree DEF text
  <1>4. Read(text) = [k \in Keys |-> Read(text)[k]]
    BY DEF Read
  <1>5. Read(text) = [k \in Keys |-> Cut(View(tree)[k])]
    BY <1>3, <1>4
  <1> QED
    BY <1>2, <1>5 DEF text

-------------------------------------------------------------------------------
(* A text that was not written to its end.                                     *)

LEMMA BegunFacts ==
    ASSUME NEW S, NEW pieces \in Seq(S), NEW cuts, NEW part \in Begun(pieces, cuts),
           \A n \in 1 .. Len(pieces) : cuts[n] \subseteq S
    PROVE  /\ part \in Seq(S)
           /\ \E n \in 1 .. Len(pieces) :
                 /\ \A i \in 1 .. n - 1 : part[i] = pieces[i]
                 /\ Len(part) = n - 1 \/ (Len(part) = n /\ part[n] \in cuts[n])
  <1>1. DOMAIN pieces = 1 .. Len(pieces) /\ Len(pieces) \in Nat
    OBVIOUS
  <1>2. PICK n \in 1 .. Len(pieces) :
            \/ part = SubSeq(pieces, 1, n - 1)
            \/ \E piece \in cuts[n] : part = Append(SubSeq(pieces, 1, n - 1), piece)
    BY <1>1 DEF Begun
  <1> DEFINE s == SubSeq(pieces, 1, n - 1)
  <1>3. s \in Seq(S) /\ Len(s) = n - 1 /\ \A i \in 1 .. n - 1 : s[i] = pieces[i]
    <2>1. 1 \in Int /\ n - 1 \in Int /\ \A i \in 1 .. n - 1 : pieces[i] \in S
      BY <1>1, ElementOfSeq
    <2>2. /\ s \in Seq(S)
          /\ Len(s) = IF 1 <= n - 1 THEN (n - 1) - 1 + 1 ELSE 0
          /\ \A i \in 1 .. (n - 1) - 1 + 1 : s[i] = pieces[1 + i - 1]
      BY <2>1, SubSeqProperties
    <2> HIDE DEF s
    <2> QED
      BY <1>1, <2>2
  <1> HIDE DEF s
  <1>4. CASE part = s
    BY <1>3, <1>4
  <1>5. ASSUME NEW piece \in cuts[n], part = Append(s, piece)
        PROVE  /\ part \in Seq(S) /\ Len(part) = n /\ part[n] = piece
               /\ \A i \in 1 .. n - 1 : part[i] = pieces[i]
    <2>1. piece \in S /\ n \in Nat
      BY <1>1
    <2> QED
      BY <1>3, <1>5, <2>1, AppendProperties
  <1> QED
    BY <1>2, <1>4, <1>5 DEF s

\* What a line that was cut short is: no other key's, and of no other value's parts.
IsCut(cut, line) ==
    /\ cut \in Lines
    /\ cut.type = "KEY" =>
          /\ line.type = "KEY" /\ cut.label = line.label
          /\ cut.value \in {line.value} \cup Parts(line.value)

LEMMA CutLineIsCut ==
    ASSUME NEW line \in Lines, NEW cut \in CutLine(line)
    PROVE  IsCut(cut, line)
  <1> DEFINE spans == Begun(line.span, [n \in DOMAIN line.span |-> CutTexts])
             bad == Line("BAD", Empty, Empty, <<>>)
  <1>1. /\ line.type \in LineTypes \cup {"BAD"} /\ line.label \in Text
        /\ line.value \in Value /\ Plain(line.value) /\ line.span \in Seq(Text)
    BY DEF Lines
  <1>2. \A v \in Parts(line.value) : v \in Value /\ Plain(v)
    BY <1>1, PartsAssumption
  <1>3. /\ Empty \in Text /\ Empty \in Value /\ Plain(Empty) /\ CutTexts \subseteq Text
        /\ <<>> \in Seq(Text)
    BY EmptyAssumption, PartsAssumption
  <1>4. \A span \in spans : span \in Seq(Text)
    <2> SUFFICES ASSUME NEW span \in spans PROVE span \in Seq(Text)
      OBVIOUS
    <2>1. DOMAIN line.span = 1 .. Len(line.span)
      BY <1>1
    <2>2. \A n \in 1 .. Len(line.span) : [m \in DOMAIN line.span |-> CutTexts][n] \subseteq Text
      BY <1>3, <2>1
    <2> QED
      BY <1>1, <2>2, BegunFacts
  <1>5. bad \in Lines /\ bad.type = "BAD"
    BY <1>3 DEF Line, Lines
  <1> HIDE DEF spans, bad
  <1>6. CASE \E span \in spans : cut = [line EXCEPT !.span = span]
    <2>1. PICK span \in spans : cut = [line EXCEPT !.span = span]
      BY <1>6
    <2>2. cut \in Lines /\ cut.type = line.type /\ cut.label = line.label
          /\ cut.value = line.value
      BY <1>4, <2>1 DEF Lines
    <2> QED
      BY <2>2 DEF IsCut
  <1>7. CASE cut = bad
    BY <1>5, <1>7 DEF IsCut
  <1>8. CASE \E type \in {"BLANK", "SECTION"}, text \in CutTexts :
                cut = Line(type, text, Empty, <<>>)
    BY <1>3, <1>8 DEF IsCut, Line, Lines, LineTypes
  <1>9. CASE line.type = "KEY" /\ \E v \in Parts(line.value) :
                cut = Line("KEY", line.label, v, <<>>)
    BY <1>1, <1>2, <1>3, <1>9 DEF IsCut, Line, Lines, LineTypes
  <1> QED
    BY <1>1, <1>6, <1>7, <1>8, <1>9 DEF CutLine, LineTypes, spans, bad

\* A text of which part was written up to, and perhaps into, the n-th line.
IsPart(part, text, n) ==
    /\ n \in 1 .. Len(text)
    /\ \A i \in 1 .. n - 1 : part[i] = text[i]
    /\ Len(part) = n - 1 \/ (Len(part) = n /\ IsCut(part[n], text[n]))

LEMMA CutTextIsPart ==
    ASSUME NEW text \in Seq(Lines), NEW part \in CutText(text)
    PROVE  part \in Seq(Lines) /\ \E n \in 1 .. Len(text) : IsPart(part, text, n)
  <1> DEFINE cuts == [n \in DOMAIN text |-> CutLine(text[n])]
  <1>1. \A n \in 1 .. Len(text) : text[n] \in Lines /\ cuts[n] = CutLine(text[n])
    BY ElementOfSeq
  <1>2. \A n \in 1 .. Len(text) : \A cut \in cuts[n] : IsCut(cut, text[n])
    BY <1>1, CutLineIsCut
  <1>3. \A n \in 1 .. Len(text) : cuts[n] \subseteq Lines
    BY <1>2 DEF IsCut
  <1>4. part \in Begun(text, cuts)
    BY DEF CutText
  <1> HIDE DEF cuts
  <1>5. /\ part \in Seq(Lines)
        /\ \E n \in 1 .. Len(text) :
              /\ \A i \in 1 .. n - 1 : part[i] = text[i]
              /\ Len(part) = n - 1 \/ (Len(part) = n /\ part[n] \in cuts[n])
    BY <1>3, <1>4, BegunFacts
  <1> QED
    BY <1>2, <1>5 DEF IsPart

\* Begins finds the first line that begins a section, if there is one.
BeginsFirst(text, section, b) ==
    /\ b \in 0 .. Len(text)
    /\ b # 0 => text[b].type = "SECTION" /\ text[b].label = section
    /\ \A i \in 1 .. Len(text) :
          text[i].type = "SECTION" /\ text[i].label = section => b # 0 /\ b <= i

LEMMA BeginsIsFirst ==
    ASSUME NEW text \in Seq(Lines), NEW section, section # Empty
    PROVE  BeginsFirst(text, section, Begins(text, section))
  <1> DEFINE T == {i \in 1 .. Len(text) :
                      text[i].type = "SECTION" /\ text[i].label = section}
  <1>1. Begins(text, section) = IF T # {} THEN Min(T) ELSE 0
    BY DEF Begins, SelectInSeq
  <1>2. T \subseteq 1 .. Len(text) /\ T \subseteq Nat /\ Len(text) \in Nat
    OBVIOUS
  <1>3. \A i : i \in T <=> i \in 1 .. Len(text) /\ text[i].type = "SECTION"
                           /\ text[i].label = section
    OBVIOUS
  <1> HIDE DEF T
  <1>4. CASE T = {}
    BY <1>1, <1>2, <1>3, <1>4 DEF BeginsFirst
  <1>5. CASE T # {}
    <2>1. Min(T) \in T /\ \A y \in T : Min(T) <= y
      BY <1>2, <1>5, MinIsLeast
    <2>2. Begins(text, section) = Min(T)
      BY <1>1, <1>5
    <2> DEFINE b == Begins(text, section)
    <2>3. b \in T /\ b \in 1 .. Len(text) /\ \A y \in T : b <= y
      BY <1>2, <2>1, <2>2
    <2> HIDE DEF b
    <2>4. BeginsFirst(text, section, b)
      BY <1>2, <1>3, <2>3 DEF BeginsFirst
    <2> QED
      BY <2>4 DEF b
  <1> QED
    BY <1>4, <1>5

LEMMA BeginsInPart ==
    ASSUME NEW text \in Seq(Lines), NEW part \in Seq(Lines), NEW n, IsPart(part, text, n),
           NEW section, section # Empty, NEW i \in 1 .. n - 1
    PROVE  /\ Begins(part, section) \in 1 .. i <=> Begins(text, section) \in 1 .. i
           /\ Begins(part, section) \in 1 .. i => Begins(part, section) = Begins(text, section)
  <1> DEFINE b == Begins(part, section)
             c == Begins(text, section)
  <1>1. BeginsFirst(part, section, b) /\ BeginsFirst(text, section, c)
    BY BeginsIsFirst
  <1>2. /\ n \in 1 .. Len(text) /\ Len(text) \in Nat /\ Len(part) \in {n - 1, n}
        /\ \A j \in 1 .. i : /\ j \in 1 .. Len(part) /\ j \in 1 .. Len(text)
                             /\ part[j] = text[j]
    BY DEF IsPart
  <1> HIDE DEF b, c
  <1>3. ASSUME b \in 1 .. i PROVE c = b
    <2>1. text[b].type = "SECTION" /\ text[b].label = section
      BY <1>1, <1>2, <1>3 DEF BeginsFirst
    <2>2. c # 0 /\ c <= b /\ c \in 0 .. Len(text)
      BY <1>1, <1>2, <1>3, <2>1 DEF BeginsFirst
    <2>3. c \in 1 .. i
      BY <1>3, <2>2
    <2>4. part[c].type = "SECTION" /\ part[c].label = section
      BY <1>1, <1>2, <2>2, <2>3 DEF BeginsFirst
    <2>5. b <= c
      BY <1>1, <1>2, <2>3, <2>4 DEF BeginsFirst
    <2> QED
      BY <1>3, <2>2, <2>3, <2>5
  <1>4. ASSUME c \in 1 .. i PROVE b = c
    <2>1. part[c].type = "SECTION" /\ part[c].label = section
      BY <1>1, <1>2, <1>4 DEF BeginsFirst
    <2>2. b # 0 /\ b <= c /\ b \in 0 .. Len(part)
      BY <1>1, <1>2, <1>4, <2>1 DEF BeginsFirst
    <2>3. b \in 1 .. i
      BY <1>2, <1>4, <2>2
    <2>4. text[b].type = "SECTION" /\ text[b].label = section
      BY <1>1, <1>2, <2>2, <2>3 DEF BeginsFirst
    <2>5. c <= b
      BY <1>1, <1>2, <2>3, <2>4 DEF BeginsFirst
    <2> QED
      BY <1>4, <2>2, <2>3, <2>5
  <1> QED
    BY <1>3, <1>4 DEF b, c

\* The lines before the n-th give a key its value in both; the n-th, if it was cut short,
\* does so only if it would have.
LEMMA GivesInPart ==
    ASSUME NEW text \in Seq(Lines), NEW part \in Seq(Lines), NEW n, IsPart(part, text, n),
           NEW k \in Keys
    PROVE  /\ Gives(part, k) \subseteq 1 .. n /\ Gives(text, k) \subseteq Nat
           /\ \A i \in 1 .. n - 1 : i \in Gives(part, k) <=> i \in Gives(text, k)
           /\ n \in Gives(part, k) =>
                 n \in Gives(text, k) /\ IsCut(part[n], text[n]) /\ part[n].type = "KEY"
  <1> DEFINE b == Begins(part, k[1])
             c == Begins(text, k[1])
  <1>1. /\ n \in 1 .. Len(text) /\ Len(text) \in Nat /\ Len(part) \in {n - 1, n}
        /\ \A j \in 1 .. n - 1 : /\ j \in 1 .. Len(part) /\ j \in 1 .. Len(text)
                                 /\ part[j] = text[j]
        /\ n \in 1 .. Len(part) => IsCut(part[n], text[n])
    BY DEF IsPart
  <1>2. /\ \A i : i \in Gives(part, k) <=>
              /\ i \in 1 .. Len(part) /\ part[i].type = "KEY" /\ part[i].label = k[2]
              /\ k[1] = Empty \/ b \in 1 .. i
              /\ \A j \in b + 1 .. i : part[j].type # "SECTION"
        /\ \A i : i \in Gives(text, k) <=>
              /\ i \in 1 .. Len(text) /\ text[i].type = "KEY" /\ text[i].label = k[2]
              /\ k[1] = Empty \/ c \in 1 .. i
              /\ \A j \in c + 1 .. i : text[j].type # "SECTION"
    <2>1. DOMAIN part = 1 .. Len(part) /\ DOMAIN text = 1 .. Len(text)
      OBVIOUS
    <2> QED
      BY <2>1 DEF Gives
  <1>3. k[1] = Empty => b = 0 /\ c = 0
    BY DEF Begins
  <1>4. k[1] # Empty =>
            \A i \in 1 .. n - 1 : (b \in 1 .. i <=> c \in 1 .. i) /\ (b \in 1 .. i => b = c)
    BY BeginsInPart
  <1>5. b \in 1 .. Len(part) /\ k[1] # Empty => part[b].type = "SECTION"
    BY BeginsIsFirst DEF BeginsFirst
  <1> HIDE DEF b, c
  <1>6. Gives(part, k) \subseteq 1 .. n /\ Gives(text, k) \subseteq Nat
    BY <1>1, <1>2
  <1>7. ASSUME NEW i \in 1 .. n - 1 PROVE i \in Gives(part, k) <=> i \in Gives(text, k)
    <2>1. k[1] = Empty \/ b \in 1 .. i <=> k[1] = Empty \/ c \in 1 .. i
      BY <1>4
    <2>2. (k[1] = Empty \/ b \in 1 .. i) => b = c /\ b \in Nat
      BY <1>3, <1>4
    <2>3. \A j \in 1 .. i : part[j] = text[j]
      BY <1>1
    <2>4. (k[1] = Empty \/ b \in 1 .. i) =>
              ((\A j \in b + 1 .. i : part[j].type # "SECTION") <=>
               (\A j \in c + 1 .. i : text[j].type # "SECTION"))
      BY <2>2, <2>3
    <2>5. part[i] = text[i] /\ i \in 1 .. Len(part) /\ i \in 1 .. Len(text)
      BY <1>1
    <2> QED
      BY <1>2, <2>1, <2>4, <2>5
  <1>8. ASSUME n \in Gives(part, k)
        PROVE  n \in Gives(text, k) /\ IsCut(part[n], text[n]) /\ part[n].type = "KEY"
    <2>1. /\ n \in 1 .. Len(part) /\ part[n].type = "KEY" /\ part[n].label = k[2]
          /\ k[1] = Empty \/ b \in 1 .. n
          /\ \A j \in b + 1 .. n : part[j].type # "SECTION"
      BY <1>2, <1>8
    <2>2. IsCut(part[n], text[n]) /\ text[n].type = "KEY" /\ text[n].label = k[2]
      BY <1>1, <2>1 DEF IsCut
    <2>3. b = c /\ b \in Nat /\ (k[1] = Empty \/ c \in 1 .. n)
      <3>1. CASE k[1] = Empty
        BY <1>3, <3>1
      <3>2. CASE k[1] # Empty
        <4>1. b # n /\ b \in 1 .. n
          BY <1>5, <2>1, <3>2
        <4>2. b \in 1 .. n - 1 /\ n - 1 \in 1 .. n - 1
          BY <1>1, <4>1
        <4> QED
          BY <1>4, <3>2, <4>1, <4>2
      <3> QED
        BY <3>1, <3>2
    <2>4. \A j \in c + 1 .. n : text[j].type # "SECTION"
      <3> SUFFICES ASSUME NEW j \in c + 1 .. n PROVE text[j].type # "SECTION"
        OBVIOUS
      <3>1. j = n \/ j \in 1 .. n - 1
        BY <1>1, <2>3
      <3>2. part[j].type # "SECTION"
        BY <2>1, <2>3
      <3> QED
        BY <1>1, <2>2, <3>1, <3>2
    <2> QED
      BY <1>1, <1>2, <2>1, <2>2, <2>3, <2>4
  <1> QED
    BY <1>6, <1>7, <1>8

LEMMA KeysByName == \A j, k \in Keys : j[2] = k[2] => j = k
  BY DEF Keys, Tabs, SourceKey

\* The first of the lines that give a key its value is the same in both, if there is one.
LEMMA FirstInPart ==
    ASSUME NEW text \in Seq(Lines), NEW part \in Seq(Lines), NEW n, IsPart(part, text, n),
           NEW k \in Keys, Read(part)[k] # Empty
    PROVE  \/ Read(part)[k] = Read(text)[k]
           \/ n \in Gives(part, k) /\ Read(part)[k] \in Parts(Read(text)[k])
  <1> DEFINE P == Gives(part, k)
             T == Gives(text, k)
  <1>1. /\ P \subseteq 1 .. n /\ T \subseteq Nat /\ n \in Nat
        /\ \A i \in 1 .. n - 1 : i \in P <=> i \in T
        /\ n \in P => n \in T /\ IsCut(part[n], text[n]) /\ part[n].type = "KEY"
    BY GivesInPart DEF IsPart
  <1>2. /\ Read(part)[k] = IF P = {} THEN Empty ELSE part[Min(P)].value
        /\ Read(text)[k] = IF T = {} THEN Empty ELSE text[Min(T)].value
    BY DEF Read
  <1> HIDE DEF P, T
  <1>3. P # {} /\ P \subseteq Nat
    BY <1>1, <1>2
  <1>4. Min(P) \in P /\ \A y \in P : Min(P) <= y
    BY <1>3, MinIsLeast
  <1>5. P \subseteq T
    <2> SUFFICES ASSUME NEW i \in P PROVE i \in T
      OBVIOUS
    <2>1. i = n \/ i \in 1 .. n - 1
      BY <1>1
    <2> QED
      BY <1>1, <2>1
  <1>6. T # {}
    BY <1>3, <1>5
  <1>7. Min(T) \in T /\ \A y \in T : Min(T) <= y
    BY <1>1, <1>6, MinIsLeast
  <1> DEFINE p == Min(P)
             t == Min(T)
  <1>8. p = t
    <2>1. p \in T /\ t <= p /\ p \in Nat /\ t \in Nat /\ p \in 1 .. n
      BY <1>1, <1>3, <1>4, <1>5, <1>7
    <2>2. CASE t = 0
      <3>1. 0 \notin T
        BY DEF T, Gives
      <3> QED
        BY <1>7, <2>2, <3>1
    <2>3. CASE t \in 1 .. n - 1
      <3>1. p <= t
        BY <1>1, <1>4, <1>7, <2>3
      <3> HIDE DEF p, t
      <3> QED
        BY <2>1, <3>1
    <2> HIDE DEF p, t
    <2>4. CASE t >= n
      BY <1>1, <2>1, <2>4
    <2> QED
      BY <1>1, <2>1, <2>2, <2>3, <2>4
  <1>9. Read(part)[k] = part[p].value /\ Read(text)[k] = text[p].value
    BY <1>2, <1>3, <1>6, <1>8
  <1>10. p \in P
    BY <1>4
  <1> HIDE DEF p, t
  <1>11. CASE p = n
    BY <1>1, <1>9, <1>10, <1>11 DEF IsCut, P
  <1>12. CASE p # n
    <2>1. p \in 1 .. n - 1
      BY <1>1, <1>10, <1>12
    <2> QED
      BY <1>9, <2>1 DEF IsPart
  <1> QED
    BY <1>11, <1>12

\* A reader of a text that was not written to its end finds for every key what the whole
\* text has or nothing, except for at most one of which the value was cut short.
THEOREM CutReads ==
    ASSUME NEW text \in Seq(Lines), NEW part \in CutText(text)
    PROVE  /\ part \in Seq(Lines)
           /\ \E last \in Keys :
                 /\ Read(part)[last] \in {Empty, Read(text)[last]} \cup Parts(Read(text)[last])
                 /\ \A k \in Keys \ {last} : Read(part)[k] \in {Empty, Read(text)[k]}
  <1>1. part \in Seq(Lines)
    BY CutTextIsPart
  <1>2. PICK n \in 1 .. Len(text) : IsPart(part, text, n)
    BY CutTextIsPart
  <1>3. ASSUME NEW k \in Keys
        PROVE  \/ Read(part)[k] \in {Empty, Read(text)[k]}
               \/ n \in Gives(part, k) /\ Read(part)[k] \in Parts(Read(text)[k])
    BY <1>1, <1>2, FirstInPart
  <1>4. CASE \A k \in Keys : n \notin Gives(part, k)
    <2>1. <<"ui", "mv_row">> \in Keys
      BY DEF Keys
    <2> QED
      BY <1>1, <1>3, <1>4, <2>1
  <1>5. CASE \E k \in Keys : n \in Gives(part, k)
    <2>1. PICK last \in Keys : n \in Gives(part, last)
      BY <1>5
    <2>2. \A k \in Keys \ {last} : n \notin Gives(part, k)
      <3> SUFFICES ASSUME NEW k \in Keys, n \in Gives(part, k) PROVE k = last
        OBVIOUS
      <3>1. part[n].label = k[2] /\ part[n].label = last[2]
        BY <2>1 DEF Gives
      <3> QED
        BY <3>1, KeysByName
    <2> QED
      BY <1>1, <1>3, <2>2
  <1> QED
    BY <1>4, <1>5

-------------------------------------------------------------------------------
(* Comments.                                                                   *)

LEMMA CommentsAreSaid ==
    ASSUME NEW S, NEW text \in Seq(S), NEW c
    PROVE  c \in Comments(text) <=> \E i \in 1 .. Len(text) : HasComment(text[i], c)
  <1>1. DOMAIN text = 1 .. Len(text)
    OBVIOUS
  <1>2. c \in {text[i].label : i \in {j \in DOMAIN text : text[j].type = "BLANK"}} <=>
            \E i \in 1 .. Len(text) : text[i].type = "BLANK" /\ text[i].label = c
    BY <1>1
  <1>3. c \in UNION {ToSet(text[i].span) :
                        i \in {j \in DOMAIN text : text[j].type \in {"SECTION", "KEY"}}} <=>
            \E i \in 1 .. Len(text) :
                text[i].type \in {"SECTION", "KEY"} /\ c \in ToSet(text[i].span)
    BY <1>1
  <1> QED
    BY <1>2, <1>3 DEF Comments, HasComment

\* A line is written with its comment, and with none but that of its value.
LEMMA DumpedComment ==
    ASSUME NEW line \in TreeLines, NEW c
    PROVE  /\ HasComment(line, c) => HasComment(DumpLine(line), c)
           /\ HasComment(DumpLine(line), c) /\ c \notin Rests => HasComment(line, c)
  <1> DEFINE u == CommentOf(line.value)
             v == line.span
  <1>1. u \in Seq(Text) /\ v \in Seq(Text)
    BY LineFields, ValuesStored
  <1>2. /\ DumpLine(line).type = line.type /\ DumpLine(line).label = line.label
        /\ DumpLine(line).span = u \o v
    BY DumpedLine
  <1>3. u = <<>> \/ ToSet(u) \subseteq Rests
    <2>1. line.value \in Values
      BY LineFields
    <2>2. CASE line.value \in Sources
      BY <2>2 DEF Rests
    <2>3. CASE line.value \notin Sources
      BY <2>1, <2>3, ValuesStored DEF Plain
    <2> QED
      BY <2>2, <2>3
  <1> HIDE DEF u, v
  <1>4. \A x : x \in ToSet(u \o v) <=> x \in ToSet(u) \/ x \in ToSet(v)
    <2>1. /\ Len(u) \in Nat /\ Len(v) \in Nat /\ u \o v \in Seq(Text)
          /\ Len(u \o v) = Len(u) + Len(v)
          /\ \A i \in 1 .. Len(u) + Len(v) :
                (u \o v)[i] = IF i <= Len(u) THEN u[i] ELSE v[i - Len(u)]
      BY <1>1, ConcatProperties, LenProperties
    <2> DEFINE w == u \o v
    <2>2. /\ \A x : x \in ToSet(u) <=> \E i \in 1 .. Len(u) : u[i] = x
          /\ \A x : x \in ToSet(v) <=> \E i \in 1 .. Len(v) : v[i] = x
          /\ \A x : x \in ToSet(w) <=> \E i \in 1 .. Len(w) : w[i] = x
      <3>1. DOMAIN u = 1 .. Len(u) /\ DOMAIN v = 1 .. Len(v) /\ DOMAIN w = 1 .. Len(w)
        BY <1>1, <2>1, LenProperties
      <3> HIDE DEF w
      <3> QED
        BY <3>1 DEF ToSet
    <2> HIDE DEF w
    <2>3. /\ \A i \in 1 .. Len(u) : i \in 1 .. Len(w) /\ w[i] = u[i]
          /\ \A i \in 1 .. Len(v) : Len(u) + i \in 1 .. Len(w) /\ w[Len(u) + i] = v[i]
      BY <2>1 DEF w
    <2>4. \A i \in 1 .. Len(w) : \/ i \in 1 .. Len(u) /\ w[i] = u[i]
                                 \/ i - Len(u) \in 1 .. Len(v) /\ w[i] = v[i - Len(u)]
      BY <2>1 DEF w
    <2>5. \A x : x \in ToSet(w) <=> x \in ToSet(u) \/ x \in ToSet(v)
      BY <2>2, <2>3, <2>4
    <2> QED
      BY <2>5 DEF w
  <1>5. ToSet(<<>>) = {}
    BY DEF ToSet
  <1>6. HasComment(line, c) => HasComment(DumpLine(line), c)
    BY <1>2, <1>4 DEF HasComment, v
  <1>7. HasComment(DumpLine(line), c) /\ c \notin Rests => HasComment(line, c)
    BY <1>2, <1>3, <1>4, <1>5 DEF HasComment, v
  <1> QED
    BY <1>6, <1>7

\* A tree that has been read says all comments of the text.
LEMMA LoadKeeps ==
    ASSUME NEW text \in Seq(Lines), NEW c \in Comments(text)
    PROVE  Says(LoadFromMem(text).nodes, c)
  <1> DEFINE nodes == LoadFromMem(text).nodes
  <1>1. PICK pos : Loaded(text, Len(text), nodes, pos)
    BY LoadLays
  <1> HIDE DEF nodes
  <1>2. PICK i \in 1 .. Len(text) : HasComment(text[i], c)
    BY CommentsAreSaid
  <1>3. text[i].type # "BAD" /\ Len(text) \in Nat
    BY <1>2 DEF HasComment
  <1>4. PICK a \in 1 .. Len(nodes) : \E b \in 0 .. Len(nodes[a].nodes) : pos[a][b] = i
    BY <1>1, <1>3 DEF Loaded, HasPlace
  <1>5. PICK b \in 0 .. Len(nodes[a].nodes) : pos[a][b] = i
    BY <1>4
  <1>6. text[i] = DumpLine(LineAt(nodes, a, b)) /\ LineAt(nodes, a, b) \in Lines
    BY <1>1, <1>5 DEF Loaded, Places
  <1>7. LineAt(nodes, a, b).type # "BAD"
    BY <1>3, <1>6 DEF DumpLine, Line
  <1>8. HasComment(LineAt(nodes, a, b), c)
    BY <1>2, <1>6, <1>7, ReadLine
  <1> QED
    BY <1>8 DEF Says, nodes

\* What will be written of a comment.
Keeps(tree, c) ==
    \/ Says(tree.nodes, c)
    \/ DumpRoot(tree.type) # <<>> /\ HasComment(DumpRoot(tree.type)[1], c)

LEMMA LineOfTree ==
    ASSUME NEW nodes \in Seq(Nodes), NEW a \in 1 .. Len(nodes),
           NEW b \in 0 .. Len(nodes[a].nodes)
    PROVE  LineAt(nodes, a, b) \in TreeLines
  <1>1. b = 0 \/ b \in 1 .. Len(nodes[a].nodes)
    BY NodeFields
  <1> QED
    BY <1>1, NodeFields DEF LineAt

\* A save writes the comments that the tree keeps, and adds only those that a '#' in a
\* source makes.
LEMMA DumpKeeps ==
    ASSUME NEW tree \in Trees, NEW c
    PROVE  /\ Keeps(tree, c) => c \in Comments(DumpString(tree))
           /\ c \in Comments(DumpString(tree)) /\ c \notin Rests => Keeps(tree, c)
  <1> DEFINE nodes == tree.nodes
             text == DumpString(tree)
             R == DumpRoot(tree.type)
  <1>1. nodes \in Seq(Nodes) /\ text \in Seq(Lines) /\ Len(text) \in Nat
    BY DumpLays DEF Trees
  <1>2. PICK pos :
           /\ Lays(text, nodes, pos)
           /\ \A i \in 1 .. Len(text) :
                 \/ i = 1 /\ R # <<>> /\ text[1] = R[1]
                 \/ \E a \in 1 .. Len(nodes) : \E b \in 0 .. Len(nodes[a].nodes) : pos[a][b] = i
    BY DumpLays
  <1>3. R # <<>> => Len(text) >= 1 /\ text[1] = R[1]
    BY DumpLays
  <1>4. c \in Comments(text) <=> \E i \in 1 .. Len(text) : HasComment(text[i], c)
    BY <1>1, CommentsAreSaid
  <1> HIDE DEF text, nodes, R
  <1>5. ASSUME NEW a \in 1 .. Len(nodes), NEW b \in 0 .. Len(nodes[a].nodes)
        PROVE  /\ pos[a][b] \in 1 .. Len(text)
               /\ HasComment(LineAt(nodes, a, b), c) => HasComment(text[pos[a][b]], c)
               /\ HasComment(text[pos[a][b]], c) /\ c \notin Rests =>
                     HasComment(LineAt(nodes, a, b), c)
    <2>1. pos[a][b] \in 1 .. Len(text) /\ text[pos[a][b]] = DumpLine(LineAt(nodes, a, b))
      BY <1>2 DEF Lays, Places
    <2>2. LineAt(nodes, a, b) \in TreeLines
      BY <1>1, LineOfTree
    <2> QED
      BY <2>1, <2>2, DumpedComment
  <1>6. ASSUME Keeps(tree, c) PROVE \E i \in 1 .. Len(text) : HasComment(text[i], c)
    <2>1. CASE R # <<>> /\ HasComment(R[1], c)
      <3>1. 1 \in 1 .. Len(text)
        BY <1>1, <1>3, <2>1
      <3> QED
        BY <1>3, <2>1, <3>1
    <2>2. CASE Says(nodes, c)
      <3>1. PICK a \in 1 .. Len(nodes) : \E b \in 0 .. Len(nodes[a].nodes) :
                HasComment(LineAt(nodes, a, b), c)
        BY <2>2 DEF Says
      <3>2. PICK b \in 0 .. Len(nodes[a].nodes) : HasComment(LineAt(nodes, a, b), c)
        BY <3>1
      <3> QED
        BY <1>5, <3>2
    <2> QED
      BY <1>6, <2>1, <2>2 DEF Keeps, R, nodes
  <1>7. ASSUME NEW i \in 1 .. Len(text), HasComment(text[i], c), c \notin Rests
        PROVE  Keeps(tree, c)
    <2>1. CASE i = 1 /\ R # <<>> /\ text[1] = R[1]
      BY <1>7, <2>1 DEF Keeps, R
    <2>2. CASE \E a \in 1 .. Len(nodes) : \E b \in 0 .. Len(nodes[a].nodes) : pos[a][b] = i
      <3>1. PICK a \in 1 .. Len(nodes) : \E b \in 0 .. Len(nodes[a].nodes) : pos[a][b] = i
        BY <2>2
      <3>2. PICK b \in 0 .. Len(nodes[a].nodes) : pos[a][b] = i
        BY <3>1
      <3>3. HasComment(LineAt(nodes, a, b), c)
        BY <1>5, <1>7, <3>2
      <3> QED
        BY <3>3 DEF Keeps, Says, nodes
    <2> QED
      BY <1>2, <2>1, <2>2
  <1> QED
    BY <1>4, <1>6, <1>7 DEF text

-------------------------------------------------------------------------------
(* The invariant.                                                              *)

TypeOK ==
    /\ root \in Trees \cup {NULL}
    /\ file \in Seq(Lines) \cup {Absent} /\ default_file \in Seq(Lines) \cup {Absent}
    /\ pc \in {"off", "loaded", "on", "source", "tab", "accept", "exit", "saved"}
    /\ writing \in BOOLEAN
    /\ dlg \in [tab : Tabs, text : [Tabs -> Values]] \cup {Closed}
    /\ found \in Seq(Lines)

\* There is a tree from the first setting to the end; before that there may be none, if
\* there was no file or it did not open.
HasTree ==
    /\ pc \notin {"off", "loaded"} => root \in Trees
    /\ root = NULL => found = <<>>
    /\ pc = "off" => root = NULL

\* A save is begun and ended in one of three places.
SavesWhere == writing => pc \in {"source", "accept", "exit"}

\* The settings that accept makes are those of the dialog, until it has saved them.
AcceptedIsSet ==
    /\ pc \in {"source", "tab", "accept"} =>
          dlg # Closed /\ View(root)[<<"media", SourceKey(dlg.tab)>>] = dlg.text[dlg.tab]
    /\ pc = "accept" => View(root)[<<"media", "last_tab">>] = dlg.tab

KeepsAll == \A c \in Comments(found) \ Rests : Keeps(root, c)

Inv == TypeOK /\ HasTree /\ SavesWhere /\ AcceptedIsSet /\ KeepsAll

LEMMA NullIsNoTree == NULL \notin Trees /\ NULL.nodes = <<>>
  BY DEF NULL, Root, Trees, RootTypes

LEMMA NewRoot ==
    ASSUME NEW type \in RootTypes
    PROVE  /\ Root(type, <<>>) \in Trees /\ View(Root(type, <<>>)) = View(NULL)
           /\ View(NULL) = [k \in Keys |-> Empty]
  <1>1. /\ Root(type, <<>>).nodes = <<>> /\ NULL.nodes = <<>>
        /\ Root(type, <<>>) = [type |-> type, nodes |-> <<>>]
    BY DEF Root, NULL
  <1>2. <<>> \in Seq(Nodes) /\ Len(<<>>) = 0 /\ KeysFirst(<<>>) /\ NoKeys(<<>>)
    BY DEF KeysFirst, NoKeys
  <1>3. Root(type, <<>>) \in Trees
    <2> DEFINE r == Root(type, <<>>)
    <2>1. r \in [type : RootTypes, nodes : Seq(Nodes)] /\ r.nodes = <<>>
      <3>1. \A e \in Seq(Nodes) : [type |-> type, nodes |-> e]
                                      \in [type : RootTypes, nodes : Seq(Nodes)]
        OBVIOUS
      <3> QED
        BY <1>1, <1>2, <3>1, Zenon
    <2> HIDE DEF r
    <2>2. KeysFirst(r.nodes) /\ NoKeys(r.nodes)
      BY <1>2, <2>1
    <2>3. r \in Trees
      BY <2>1, <2>2 DEF Trees
    <2> QED
      BY <2>3 DEF r
  <1>4. \A t, l : Find(<<>>, t, l) = 0
    <2>1. \A t, l : Find(<<>>, t, l) \in 0 .. Len(<<>>)
      BY <1>2, FindsFirst
    <2> QED
      BY <1>2, <2>1
  <1>5. \A l, s : GetValue(Root(type, <<>>), l, s) = Empty /\ GetValue(NULL, l, s) = Empty
    BY <1>1, <1>4 DEF GetValue, GetFrom
  <1> QED
    BY <1>3, <1>5 DEF View

LEMMA ViewTyped ==
    ASSUME NEW tree \in Trees \cup {NULL}, NEW k \in Keys
    PROVE  View(tree)[k] \in Values /\ View(tree)[k] = GetValue(tree, k[2], k[1])
  <1>1. View(tree)[k] = GetValue(tree, k[2], k[1])
    BY DEF View
  <1>2. Empty \in Values
    BY EmptyAssumption DEF Values
  <1>3. CASE tree = NULL
    <2>1. "ROOT" \in RootTypes
      BY DEF RootTypes
    <2>2. View(NULL) = [j \in Keys |-> Empty]
      BY <2>1, NewRoot
    <2> QED
      BY <1>1, <1>2, <1>3, <2>2
  <1>4. CASE tree \in Trees /\ View(tree)[k] # Empty
    <2>1. tree.nodes \in Seq(Nodes)
      BY <1>4 DEF Trees
    <2>2. PICK a \in 1 .. Len(tree.nodes) : \E b \in 0 .. Len(tree.nodes[a].nodes) :
              View(tree)[k] = LineAt(tree.nodes, a, b).value
      BY <1>4, ViewIsOfALine
    <2>3. PICK b \in 0 .. Len(tree.nodes[a].nodes) :
              View(tree)[k] = LineAt(tree.nodes, a, b).value
      BY <2>2
    <2>4. LineAt(tree.nodes, a, b) \in TreeLines
      BY <2>1, LineOfTree
    <2> QED
      BY <1>1, <2>3, <2>4, LineFields
  <1> QED
    BY <1>1, <1>2, <1>3, <1>4

\* The keys that are set.
LEMMA SetKeys ==
    /\ <<"ui", "mv_row">> \in Keys /\ <<"ui", "menubar_visible">> \in Keys
    /\ <<"ui", "main_window_state">> \in Keys /\ <<"media", "last_tab">> \in Keys
    /\ \A tab \in Tabs : /\ <<"media", SourceKey(tab)>> \in Keys
                         /\ <<"media", SourceKey(tab)>> # <<"media", "last_tab">>
    /\ "ui" # Empty /\ "media" # Empty
    /\ \A v \in Rows \cup Bools \cup WindowStates \cup Tabs : v \in Values /\ Plain(v)
    /\ Sources \subseteq Values
    /\ Values \subseteq Value
  <1>1. "ui" # Empty /\ "media" # Empty
    BY Zenon DEF Empty
  <1>2. \A tab \in Tabs : <<"media", SourceKey(tab)>> # <<"media", "last_tab">>
    BY DEF SourceKey, Tabs
  <1>3. /\ \A v \in Rows \cup Bools \cup WindowStates \cup Tabs : v \in Values /\ Plain(v)
        /\ Sources \subseteq Values
    BY SetAssumption DEF Values
  <1>4. Values \subseteq Value
    BY ValuesStored
  <1> QED
    BY <1>1, <1>2, <1>3, <1>4 DEF Keys

\* What a step that sets something does.
LEMMA SetStep ==
    ASSUME Inv, NEW k \in Keys, k[1] # Empty, NEW v \in Values,
           Set(k[2], v, k[1])
    PROVE  /\ root' \in Trees /\ root' # NULL
           /\ View(root') = [View(root) EXCEPT ![k] = v]
           /\ root # NULL => \A c : Keeps(root, c) => Keeps(root', c)
  <1>1. CASE root = NULL
    <2>1. PICK type \in RootTypes : root' = SetValue(Root(type, <<>>), k[2], v, k[1])
      BY <1>1 DEF Set
    <2>2. Root(type, <<>>) \in Trees /\ View(Root(type, <<>>)) = View(root)
      BY <1>1, NewRoot
    <2> QED
      BY <1>1, <2>1, <2>2, SetGets, NullIsNoTree
  <1>2. CASE root # NULL
    <2>1. root \in Trees /\ root' = SetValue(root, k[2], v, k[1])
      BY <1>2 DEF Set, Inv, TypeOK
    <2>2. /\ root' \in Trees /\ root'.type = root.type
          /\ View(root') = [View(root) EXCEPT ![k] = v]
          /\ \A c : Says(root.nodes, c) => Says(root'.nodes, c)
      BY <2>1, SetGets
    <2> QED
      BY <2>2, NullIsNoTree DEF Keeps
  <1> QED
    BY <1>1, <1>2

LEMMA NothingFound == Comments(<<>>) = {} /\ <<>> \in Seq(Lines)
  BY DEF Comments

LEMMA InitInv == Init => Inv
  <1> SUFFICES ASSUME Init PROVE Inv
    OBVIOUS
  <1>1. file \in Seq(Lines) \cup {Absent} /\ default_file \in Seq(Lines) \cup {Absent}
    BY FilesAssumption DEF Init
  <1>2. /\ root = NULL /\ pc = "off" /\ writing = FALSE /\ dlg = Closed /\ found = <<>>
    BY DEF Init
  <1> QED
    BY <1>1, <1>2, NothingFound DEF Inv, TypeOK, HasTree, SavesWhere, AcceptedIsSet, KeepsAll

\* The file is read into a tree that says all its comments, or there is no tree.
LEMMA StartInv == Inv /\ Start => Inv'
  <1> SUFFICES ASSUME Inv, Start PROVE Inv'
    OBVIOUS
  <1>1. /\ pc' = "loaded" /\ root' \in LoadFromFile(file') /\ file' \in {CopyDefault, file}
        /\ found' = IF root' = NULL THEN <<>> ELSE file'
        /\ default_file' = default_file /\ writing' = writing /\ dlg' = dlg /\ pc = "off"
    BY DEF Start
  <1>2. file' \in Seq(Lines) \cup {Absent}
    BY <1>1 DEF CopyDefault, Inv, TypeOK
  <1>3. root' = NULL \/ (file' \in Seq(Lines) /\ root' = LoadFromMem(file'))
    BY <1>1, <1>2 DEF LoadFromFile
  <1>4. ASSUME root' = NULL PROVE Inv'
    BY <1>1, <1>2, <1>4, NothingFound
    DEF Inv, TypeOK, HasTree, SavesWhere, AcceptedIsSet, KeepsAll
  <1>5. ASSUME root' # NULL PROVE Inv'
    <2>1. file' \in Seq(Lines) /\ root' = LoadFromMem(file') /\ found' = file'
      BY <1>1, <1>3, <1>5
    <2>2. root' \in Trees
      BY <2>1, LoadLays
    <2>3. KeepsAll'
      BY <2>1, LoadKeeps DEF KeepsAll, Keeps
    <2> QED
      BY <1>1, <1>2, <1>5, <2>1, <2>2, <2>3
      DEF Inv, TypeOK, HasTree, SavesWhere, AcceptedIsSet
  <1> QED
    BY <1>4, <1>5

\* A setting keeps what the tree has of the comments that were read.
LEMMA SetKeepsAll ==
    ASSUME Inv, found' = found,
           root # NULL => \A c : Keeps(root, c) => Keeps(root', c)
    PROVE  KeepsAll'
  BY NothingFound DEF Inv, HasTree, KeepsAll

LEMMA InstanceInv == Inv /\ Instance => Inv'
  <1> SUFFICES ASSUME Inv, Instance PROVE Inv'
    OBVIOUS
  <1> DEFINE row == GetValue(root, "mv_row", "ui")
             v == IF row = Empty THEN "2" ELSE row
             k == <<"ui", "mv_row">>
  <1>1. /\ pc = "loaded" /\ pc' = "on" /\ Set(k[2], v, k[1])
        /\ UNCHANGED <<file, default_file, writing, dlg, found>>
    BY DEF Instance
  <1>2. v \in Values
    <2>1. View(root)[k] \in Values /\ View(root)[k] = row
      BY SetKeys, ViewTyped DEF Inv, TypeOK
    <2>2. "2" \in Values
      BY SetKeys DEF Rows
    <2> QED
      BY <2>1, <2>2
  <1> HIDE DEF v
  <1>4. k \in Keys /\ k[1] # Empty
    BY SetKeys
  <1> HIDE DEF k
  <1>5. /\ root' \in Trees /\ root' # NULL
        /\ root # NULL => \A c : Keeps(root, c) => Keeps(root', c)
    BY <1>1, <1>2, <1>4, SetStep
  <1>6. KeepsAll'
    BY <1>1, <1>5, SetKeepsAll
  <1> QED
    BY <1>1, <1>5, <1>6 DEF Inv, TypeOK, HasTree, SavesWhere, AcceptedIsSet

\* A setting that is made outside the dialog.
LEMMA SettingInv ==
    ASSUME Inv, pc = "on", pc' \in {"on", "exit"}, NEW k \in Keys, k[1] # Empty,
           NEW v \in Values, Set(k[2], v, k[1]),
           UNCHANGED <<file, default_file, writing, dlg, found>>
    PROVE  Inv'
  <1>1. root \in Trees /\ root # NULL
    BY NullIsNoTree DEF Inv, HasTree
  <1>2. /\ root' \in Trees /\ root' # NULL
        /\ root # NULL => \A c : Keeps(root, c) => Keeps(root', c)
    BY <1>1, SetStep
  <1>3. KeepsAll'
    BY <1>1, <1>2, SetKeepsAll
  <1> QED
    BY <1>2, <1>3 DEF Inv, TypeOK, HasTree, SavesWhere, AcceptedIsSet

LEMMA SetLayoutInv == Inv /\ SetLayout => Inv'
  <1> SUFFICES ASSUME Inv, SetLayout PROVE Inv'
    OBVIOUS
  <1>1. PICK row \in Rows : Set("mv_row", row, "ui")
    BY DEF SetLayout
  <1> DEFINE k == <<"ui", "mv_row">>
  <1>2. k \in Keys /\ k[1] # Empty /\ row \in Values /\ Set(k[2], row, k[1])
    BY <1>1, SetKeys
  <1> HIDE DEF k
  <1>3. pc = "on" /\ pc' = "on" /\ UNCHANGED <<file, default_file, writing, dlg, found>>
    BY DEF SetLayout, Idle
  <1> QED
    BY <1>2, <1>3, SettingInv

LEMMA CheckMenubarInv == Inv /\ CheckMenubar => Inv'
  <1> SUFFICES ASSUME Inv, CheckMenubar PROVE Inv'
    OBVIOUS
  <1>1. PICK check \in Bools : Set("menubar_visible", check, "ui")
    BY DEF CheckMenubar
  <1> DEFINE k == <<"ui", "menubar_visible">>
  <1>2. k \in Keys /\ k[1] # Empty /\ check \in Values /\ Set(k[2], check, k[1])
    BY <1>1, SetKeys
  <1> HIDE DEF k
  <1>3. pc = "on" /\ pc' = "on" /\ UNCHANGED <<file, default_file, writing, dlg, found>>
    BY DEF CheckMenubar, Idle
  <1> QED
    BY <1>2, <1>3, SettingInv

LEMMA ExitInv == Inv /\ Exit => Inv'
  <1> SUFFICES ASSUME Inv, Exit PROVE Inv'
    OBVIOUS
  <1>1. PICK state \in WindowStates : Set("main_window_state", state, "ui")
    BY DEF Exit
  <1> DEFINE k == <<"ui", "main_window_state">>
  <1>2. k \in Keys /\ k[1] # Empty /\ state \in Values /\ Set(k[2], state, k[1])
    BY <1>1, SetKeys
  <1> HIDE DEF k
  <1>3. pc = "on" /\ pc' = "exit" /\ UNCHANGED <<file, default_file, writing, dlg, found>>
    BY DEF Exit, Idle
  <1> QED
    BY <1>2, <1>3, SettingInv

LEMMA OpenDlgInv == Inv /\ OpenDlg => Inv'
  <1> SUFFICES ASSUME Inv, OpenDlg PROVE Inv'
    OBVIOUS
  <1>1. PICK tab \in Tabs :
            dlg' = [tab |-> tab, text |-> [t \in Tabs |-> GetValue(root, SourceKey(t), "media")]]
    BY DEF OpenDlg
  <1>2. pc = "on" /\ UNCHANGED <<root, file, default_file, pc, writing, found>>
    BY DEF OpenDlg, Idle
  <1>3. ASSUME NEW t \in Tabs PROVE GetValue(root, SourceKey(t), "media") \in Values
    <2> DEFINE k == <<"media", SourceKey(t)>>
    <2>1. k \in Keys /\ k[1] = "media" /\ k[2] = SourceKey(t)
      BY SetKeys
    <2> HIDE DEF k
    <2>2. View(root)[k] \in Values /\ View(root)[k] = GetValue(root, k[2], k[1])
      BY <2>1, ViewTyped DEF Inv, TypeOK
    <2> QED
      BY <2>1, <2>2
  <1>4. dlg' \in [tab : Tabs, text : [Tabs -> Values]]
    BY <1>1, <1>3
  <1> QED
    BY <1>2, <1>4 DEF Inv, TypeOK, HasTree, SavesWhere, AcceptedIsSet, KeepsAll

LEMMA RejectInv == Inv /\ Reject => Inv'
  BY DEF Inv, TypeOK, HasTree, SavesWhere, AcceptedIsSet, KeepsAll, Reject

\* A tab is never Closed's.
LEMMA ClosedHasNoTab == Closed.tab \notin Tabs
  BY DEF Closed, Tabs

LEMMA AcceptInv == Inv /\ Accept => Inv'
  <1> SUFFICES ASSUME Inv, Accept PROVE Inv'
    OBVIOUS
  <1>1. PICK source \in Sources : /\ dlg' = [dlg EXCEPT !.text[dlg.tab] = source]
                                  /\ Set(SourceKey(dlg.tab), source, "media")
    BY DEF Accept
  <1>2. pc = "on" /\ dlg # Closed /\ pc' = "source" /\ UNCHANGED <<file, default_file, writing, found>>
    BY DEF Accept
  <1>3. dlg \in [tab : Tabs, text : [Tabs -> Values]]
    BY <1>2 DEF Inv, TypeOK
  <1> DEFINE k == <<"media", SourceKey(dlg.tab)>>
  <1>4. /\ k \in Keys /\ k[1] # Empty /\ source \in Values /\ Set(k[2], source, k[1])
        /\ dlg.tab \in Tabs
    BY <1>1, <1>3, SetKeys
  <1>5. /\ dlg' \in [tab : Tabs, text : [Tabs -> Values]]
        /\ dlg'.tab = dlg.tab /\ dlg'.text[dlg.tab] = source
    BY <1>1, <1>3, <1>4
  <1> HIDE DEF k
  <1>6. root \in Trees /\ root # NULL
    BY <1>2, NullIsNoTree DEF Inv, HasTree
  <1>7. /\ root' \in Trees /\ root' # NULL
        /\ View(root') = [View(root) EXCEPT ![k] = source]
        /\ root # NULL => \A c : Keeps(root, c) => Keeps(root', c)
    BY <1>4, <1>6, SetStep
  <1>8. KeepsAll'
    BY <1>2, <1>6, <1>7, SetKeepsAll
  <1>9. View(root')[k] = source
    BY <1>4, <1>7 DEF View
  <1>10. AcceptedIsSet'
    <2>1. dlg' # Closed
      BY <1>4, <1>5, ClosedHasNoTab
    <2>2. View(root')[<<"media", SourceKey(dlg'.tab)>>] = dlg'.text[dlg'.tab]
      BY <1>5, <1>9 DEF k
    <2> QED
      BY <1>2, <2>1, <2>2 DEF AcceptedIsSet
  <1> QED
    BY <1>2, <1>5, <1>7, <1>8, <1>10 DEF Inv, TypeOK, HasTree, SavesWhere

LEMMA SetTabInv == Inv /\ SetTab => Inv'
  <1> SUFFICES ASSUME Inv, SetTab PROVE Inv'
    OBVIOUS
  <1> DEFINE k == <<"media", "last_tab">>
             s == <<"media", SourceKey(dlg.tab)>>
  <1>1. /\ pc = "tab" /\ pc' = "accept" /\ Set(k[2], dlg.tab, k[1])
        /\ UNCHANGED <<file, default_file, writing, dlg, found>>
    BY DEF SetTab
  <1>2. dlg # Closed /\ View(root)[s] = dlg.text[dlg.tab]
    BY <1>1 DEF Inv, AcceptedIsSet
  <1>3. dlg \in [tab : Tabs, text : [Tabs -> Values]]
    BY <1>2 DEF Inv, TypeOK
  <1>4. /\ k \in Keys /\ k[1] # Empty /\ dlg.tab \in Values
        /\ s \in Keys /\ s # k
    BY <1>3, SetKeys
  <1> HIDE DEF k, s
  <1>5. root \in Trees /\ root # NULL
    BY <1>1, NullIsNoTree DEF Inv, HasTree
  <1>6. /\ root' \in Trees /\ root' # NULL
        /\ View(root') = [View(root) EXCEPT ![k] = dlg.tab]
        /\ root # NULL => \A c : Keeps(root, c) => Keeps(root', c)
    BY <1>1, <1>4, <1>5, SetStep
  <1>7. KeepsAll'
    BY <1>1, <1>5, <1>6, SetKeepsAll
  <1>8. View(root')[k] = dlg.tab /\ View(root')[s] = View(root)[s]
    <2>1. View(root) = [j \in Keys |-> View(root)[j]]
      BY DEF View
    <2> QED
      BY <1>4, <1>6, <2>1
  <1>9. AcceptedIsSet'
    BY <1>1, <1>2, <1>8 DEF AcceptedIsSet, k, s
  <1> QED
    BY <1>1, <1>6, <1>7, <1>9 DEF Inv, TypeOK, HasTree, SavesWhere

\* A save may leave anything in the file.
LEMMA SaveOpensInv == Inv /\ SaveOpens => Inv'
  <1> SUFFICES ASSUME Inv, SaveOpens PROVE Inv'
    OBVIOUS
  <1>1. /\ pc \in {"source", "accept", "exit"} /\ writing' = TRUE /\ file' = <<>>
        /\ UNCHANGED <<root, default_file, pc, dlg, found>>
    BY DEF SaveOpens
  <1> QED
    BY <1>1, NothingFound DEF Inv, TypeOK, HasTree, SavesWhere, AcceptedIsSet, KeepsAll

LEMMA SavedInv ==
    ASSUME Inv, Saved, pc \in {"source", "accept", "exit"}, writing' = FALSE,
           file' \in Seq(Lines) \cup {Absent}
    PROVE  Inv'
  <1>1. /\ pc = "source" => pc' \in {"on", "tab"}
        /\ pc = "accept" => pc' = "on"
        /\ pc = "exit" => pc' = "saved"
        /\ pc # "accept" => dlg' = dlg
        /\ pc = "accept" => dlg' = Closed
        /\ UNCHANGED <<root, default_file, found>>
    BY DEF Saved
  <1> QED
    BY <1>1 DEF Inv, TypeOK, HasTree, SavesWhere, AcceptedIsSet, KeepsAll

\* While a save writes there is a tree, and its text.
LEMMA Writing ==
    ASSUME Inv, writing
    PROVE  /\ pc \in {"source", "accept", "exit"} /\ root \in Trees
           /\ DumpString(root) \in Seq(Lines)
           /\ \A text \in CutText(DumpString(root)) : text \in Seq(Lines)
  <1>1. pc \in {"source", "accept", "exit"} /\ root \in Trees
    BY DEF Inv, SavesWhere, HasTree
  <1>2. DumpString(root) \in Seq(Lines)
    BY <1>1, DumpReads
  <1> QED
    BY <1>1, <1>2, CutReads

LEMMA SaveWritesInv == Inv /\ SaveWrites => Inv'
  BY Writing, SavedInv DEF SaveWrites

LEMMA SaveBreaksInv == Inv /\ SaveBreaks => Inv'
  BY Writing, SavedInv DEF SaveBreaks

LEMMA SaveFailsInv == Inv /\ SaveFails => Inv'
  <1> SUFFICES ASSUME Inv, SaveFails PROVE Inv'
    OBVIOUS
  <1>1. /\ pc \in {"source", "accept", "exit"} /\ writing' = FALSE
        /\ file' = file /\ Saved
    BY DEF SaveFails, Inv, TypeOK
  <1>2. file' \in Seq(Lines) \cup {Absent}
    BY <1>1 DEF Inv, TypeOK
  <1> QED
    BY <1>1, <1>2, SavedInv

LEMMA ReturnInv == Inv /\ Return => Inv'
  BY NullIsNoTree, NothingFound
  DEF Inv, TypeOK, HasTree, SavesWhere, AcceptedIsSet, KeepsAll, Return

LEMMA CrashInv == Inv /\ Crash => Inv'
  <1> SUFFICES ASSUME Inv, Crash PROVE Inv'
    OBVIOUS
  <1>1. /\ pc' = "off" /\ root' = NULL /\ dlg' = Closed /\ found' = <<>> /\ writing' = FALSE
        /\ default_file' = default_file
        /\ file' \in IF writing THEN CutText(DumpString(root)) ELSE {file}
    BY DEF Crash
  <1>2. file' \in Seq(Lines) \cup {Absent}
    BY <1>1, Writing DEF Inv, TypeOK
  <1> QED
    BY <1>1, <1>2, NullIsNoTree, NothingFound
    DEF Inv, TypeOK, HasTree, SavesWhere, AcceptedIsSet, KeepsAll

LEMMA StutterInv == Inv /\ UNCHANGED vars => Inv'
  BY DEF Inv, TypeOK, HasTree, SavesWhere, AcceptedIsSet, KeepsAll, vars

\* The invariant that the properties follow from.
THEOREM Invariance == Spec => []Inv
  <1>1. Inv /\ [Next]_vars => Inv'
    BY StartInv, InstanceInv, SetLayoutInv, CheckMenubarInv, ExitInv, OpenDlgInv, RejectInv,
       AcceptInv, SetTabInv, SaveOpensInv, SaveWritesInv, SaveBreaksInv, SaveFailsInv,
       ReturnInv, CrashInv, StutterInv
    DEF Next
  <1> QED
    BY InitInv, <1>1, PTL DEF Spec

\* Over any number of sessions, settings, saves and crashes, and whichever of them fail, a
\* save writes every comment that the file had when the session read it.
THEOREM CommentsSurvive == Spec => []CommentsKept
  <1>1. Inv => CommentsKept
    <2> SUFFICES ASSUME Inv, NEW c \in Comments(found) \ Rests
                 PROVE  c \in Comments(DumpString(root))
      BY DEF CommentsKept
    <2>1. root \in Trees /\ Keeps(root, c)
      BY NothingFound DEF Inv, TypeOK, HasTree, KeepsAll
    <2> QED
      BY <2>1, DumpKeeps
  <1> QED
    BY <1>1, Invariance, PTL

-------------------------------------------------------------------------------
(* What is stored.                                                             *)

LEMMA ReadTyped ==
    ASSUME NEW text \in Seq(Lines)
    PROVE  Read(text) \in [Keys -> Value]
  <1> SUFFICES ASSUME NEW k \in Keys PROVE Read(text)[k] \in Value
    BY DEF Read
  <1> DEFINE G == Gives(text, k)
  <1>1. Read(text)[k] = IF G = {} THEN Empty ELSE text[Min(G)].value
    BY DEF Read
  <1>2. G \subseteq 1 .. Len(text)
    BY DEF Gives
  <1> HIDE DEF G
  <1>3. CASE G = {}
    BY <1>1, <1>3, EmptyAssumption
  <1>4. CASE G # {}
    <2>1. G \subseteq Nat
      BY <1>2
    <2>2. Min(G) \in 1 .. Len(text)
      BY <1>2, <1>4, <2>1, MinIsLeast
    <2>3. text[Min(G)] \in Lines
      BY <2>2, ElementOfSeq
    <2>4. text[Min(G)].value \in Value
      BY <2>3 DEF Lines
    <2> QED
      BY <1>1, <1>4, <2>4
  <1> QED
    BY <1>3, <1>4

LEMMA ReadNothing == Read(<<>>) = [k \in Keys |-> Empty] /\ <<>> \in Seq(Lines)
  BY DEF Read, Gives

\* What the next start finds is what a file has, once there is one.
LEMMA StoredIsFile ==
    /\ file \in Seq(Lines) => Stored = Read(file)
    /\ file' \in Seq(Lines) => Stored' = Read(file')
  BY FilesAssumption DEF Stored, CopyDefault

LEMMA StoredSame ==
    ASSUME UNCHANGED <<file, default_file>>
    PROVE  Stored' = Stored
  BY DEF Stored, CopyDefault

LEMMA SaveStores ==
    ASSUME Inv, SaveWrites
    PROVE  Stored' = [k \in Keys |-> Cut(View(root)[k])]
  <1>1. root \in Trees /\ file' = DumpString(root)
    BY DEF SaveWrites, Inv, SavesWhere, HasTree
  <1> QED
    BY <1>1, DumpReads, StoredIsFile

\* What the dialog accepted is what the next start finds once both saves have written:
\* the medium up to its '#', and the tab.
THEOREM AcceptedLasts == Spec => AcceptedIsStored
  <1>1. Inv /\ [Next]_vars =>
          [pc = "accept" /\ SaveWrites =>
              /\ Stored'[<<"media", SourceKey(dlg.tab)>>] = Cut(dlg.text[dlg.tab])
              /\ Stored'[<<"media", "last_tab">>] = dlg.tab]_vars
    <2> SUFFICES ASSUME Inv, pc = "accept", SaveWrites
                 PROVE  /\ Stored'[<<"media", SourceKey(dlg.tab)>>] = Cut(dlg.text[dlg.tab])
                        /\ Stored'[<<"media", "last_tab">>] = dlg.tab
      OBVIOUS
    <2> DEFINE s == <<"media", SourceKey(dlg.tab)>>
               k == <<"media", "last_tab">>
    <2>1. /\ dlg # Closed /\ View(root)[s] = dlg.text[dlg.tab] /\ View(root)[k] = dlg.tab
      BY DEF Inv, AcceptedIsSet
    <2>2. dlg \in [tab : Tabs, text : [Tabs -> Values]]
      BY <2>1 DEF Inv, TypeOK
    <2>3. s \in Keys /\ k \in Keys /\ Plain(dlg.tab)
      BY <2>2, SetKeys
    <2> HIDE DEF s, k
    <2>4. Stored'[s] = Cut(View(root)[s]) /\ Stored'[k] = Cut(View(root)[k])
      BY <2>3, SaveStores
    <2>5. Cut(dlg.tab) = dlg.tab
      BY <2>3 DEF Plain
    <2>6. Stored'[s] = Cut(dlg.text[dlg.tab]) /\ Stored'[k] = dlg.tab
      BY <2>1, <2>4, <2>5
    <2> QED
      BY <2>6 DEF s, k
  <1> QED
    BY <1>1, Invariance, PTL DEF Spec, AcceptedIsStored

-------------------------------------------------------------------------------
(* The file implements a map.                                                  *)

LEMMA NullIsNothing == View(NULL) = Abstract!Nothing
  <1>1. "ROOT" \in RootTypes
    BY DEF RootTypes
  <1> QED
    BY <1>1, NewRoot DEF Abstract!Nothing

LEMMA SettingsInit == Init => Abstract!Init
  <1> SUFFICES ASSUME Init PROVE Abstract!Init
    OBVIOUS
  <1>1. pc = "off" /\ writing = FALSE /\ root = NULL
    BY DEF Init
  <1>2. CopyDefault \in Seq(Lines) \cup {Absent}
    BY FilesAssumption DEF Init, CopyDefault
  <1>3. Stored \in [Keys -> Value]
    BY <1>2, ReadTyped, ReadNothing DEF Stored
  <1> QED
    BY <1>1, <1>3, NullIsNothing DEF Abstract!Init

\* A setting in the file's tree is one in the map.
LEMMA SettingIsSet ==
    ASSUME Inv, pc # "off", pc' # "off", ~writing, NEW k \in Keys, k[1] # Empty,
           NEW v \in Values, Set(k[2], v, k[1]),
           UNCHANGED <<file, default_file, writing>>
    PROVE  Abstract!Set
  <1>1. View(root') = [View(root) EXCEPT ![k] = v]
    BY SetStep
  <1>3. ASSUME NEW now \in {View(root)}
        PROVE  View(root') \in {[now EXCEPT ![j] = w] : j \in Keys, w \in Value}
    <2>1. v \in Value
      BY SetKeys
    <2> DEFINE next == [now EXCEPT ![k] = v]
               all == {[now EXCEPT ![j] = w] : j \in Keys, w \in Value}
    <2>2. View(root') = next
      BY <1>1
    <2>3. next \in all
      BY <2>1
    <2> HIDE DEF next, all
    <2>4. View(root') \in all
      BY <2>2, <2>3
    <2> QED
      BY <2>4 DEF all
  <1>4. Stored' = Stored
    BY StoredSame
  <1> QED
    BY <1>3, <1>4 DEF Abstract!Set

LEMMA StartIsBegin == Inv /\ Start => Abstract!Begin
  <1> SUFFICES ASSUME Inv, Start PROVE Abstract!Begin
    OBVIOUS
  <1>1. /\ pc = "off" /\ pc' = "loaded" /\ file' \in {CopyDefault, file}
        /\ root' \in LoadFromFile(file') /\ default_file' = default_file /\ writing' = writing
    BY DEF Start
  <1>2. CopyDefault' = CopyDefault
    BY <1>1 DEF CopyDefault
  <1>3. Stored' = Stored
    BY <1>2 DEF Stored
  <1>4. file' \in Seq(Lines) \cup {Absent}
    BY <1>1 DEF Inv, TypeOK, CopyDefault
  <1>5. View(root') \in {Stored, Abstract!Nothing}
    <2>1. CASE root' = NULL
      BY <2>1, NullIsNothing
    <2>2. CASE root' # NULL
      <3>1. file' \in Seq(Lines) /\ root' = LoadFromMem(file')
        BY <1>1, <1>4, <2>2 DEF LoadFromFile
      <3> QED
        BY <1>3, <3>1, LoadReads, StoredIsFile
    <2> QED
      BY <2>1, <2>2
  <1> QED
    BY <1>1, <1>3, <1>5 DEF Abstract!Begin

LEMMA InstanceIsSet == Inv /\ Instance => Abstract!Set
  <1> SUFFICES ASSUME Inv, Instance PROVE Abstract!Set
    OBVIOUS
  <1> DEFINE row == GetValue(root, "mv_row", "ui")
             v == IF row = Empty THEN "2" ELSE row
             k == <<"ui", "mv_row">>
  <1>1. /\ pc = "loaded" /\ pc' = "on" /\ Set(k[2], v, k[1])
        /\ UNCHANGED <<file, default_file, writing>>
    BY DEF Instance
  <1>2. v \in Values
    <2>1. View(root)[k] \in Values /\ View(root)[k] = row
      BY SetKeys, ViewTyped DEF Inv, TypeOK
    <2>2. "2" \in Values
      BY SetKeys DEF Rows
    <2> QED
      BY <2>1, <2>2
  <1> HIDE DEF v
  <1>3. k \in Keys /\ k[1] # Empty
    BY SetKeys
  <1> HIDE DEF k
  <1>4. ~writing /\ pc # "off" /\ pc' # "off"
    BY <1>1 DEF Inv, SavesWhere
  <1> QED
    BY <1>1, <1>2, <1>3, <1>4, SettingIsSet

\* The other settings, made while the program is on or between the saves of accept.
LEMMA OnIsSet ==
    ASSUME Inv, pc \in {"on", "tab"}, pc' # "off", NEW k \in Keys, k[1] # Empty,
           NEW v \in Values, Set(k[2], v, k[1]), UNCHANGED <<file, default_file, writing>>
    PROVE  Abstract!Set
  <1>1. ~writing /\ pc # "off"
    BY DEF Inv, SavesWhere
  <1> QED
    BY <1>1, SettingIsSet

LEMMA SetLayoutIsSet == Inv /\ SetLayout => Abstract!Set
  <1> SUFFICES ASSUME Inv, SetLayout PROVE Abstract!Set
    OBVIOUS
  <1>1. PICK row \in Rows : Set("mv_row", row, "ui")
    BY DEF SetLayout
  <1> DEFINE k == <<"ui", "mv_row">>
  <1>2. k \in Keys /\ k[1] # Empty /\ row \in Values /\ Set(k[2], row, k[1])
    BY <1>1, SetKeys
  <1> HIDE DEF k
  <1>3. pc = "on" /\ pc' = "on" /\ UNCHANGED <<file, default_file, writing>>
    BY DEF SetLayout, Idle
  <1> QED
    BY <1>2, <1>3, OnIsSet

LEMMA CheckMenubarIsSet == Inv /\ CheckMenubar => Abstract!Set
  <1> SUFFICES ASSUME Inv, CheckMenubar PROVE Abstract!Set
    OBVIOUS
  <1>1. PICK check \in Bools : Set("menubar_visible", check, "ui")
    BY DEF CheckMenubar
  <1> DEFINE k == <<"ui", "menubar_visible">>
  <1>2. k \in Keys /\ k[1] # Empty /\ check \in Values /\ Set(k[2], check, k[1])
    BY <1>1, SetKeys
  <1> HIDE DEF k
  <1>3. pc = "on" /\ pc' = "on" /\ UNCHANGED <<file, default_file, writing>>
    BY DEF CheckMenubar, Idle
  <1> QED
    BY <1>2, <1>3, OnIsSet

LEMMA ExitIsSet == Inv /\ Exit => Abstract!Set
  <1> SUFFICES ASSUME Inv, Exit PROVE Abstract!Set
    OBVIOUS
  <1>1. PICK state \in WindowStates : Set("main_window_state", state, "ui")
    BY DEF Exit
  <1> DEFINE k == <<"ui", "main_window_state">>
  <1>2. k \in Keys /\ k[1] # Empty /\ state \in Values /\ Set(k[2], state, k[1])
    BY <1>1, SetKeys
  <1> HIDE DEF k
  <1>3. pc = "on" /\ pc' = "exit" /\ UNCHANGED <<file, default_file, writing>>
    BY DEF Exit, Idle
  <1> QED
    BY <1>2, <1>3, OnIsSet

LEMMA AcceptIsSet == Inv /\ Accept => Abstract!Set
  <1> SUFFICES ASSUME Inv, Accept PROVE Abstract!Set
    OBVIOUS
  <1>1. PICK source \in Sources : Set(SourceKey(dlg.tab), source, "media")
    BY DEF Accept
  <1>2. pc = "on" /\ pc' = "source" /\ UNCHANGED <<file, default_file, writing>>
        /\ dlg # Closed
    BY DEF Accept
  <1>3. dlg \in [tab : Tabs, text : [Tabs -> Values]]
    BY <1>2 DEF Inv, TypeOK
  <1> DEFINE k == <<"media", SourceKey(dlg.tab)>>
  <1>4. k \in Keys /\ k[1] # Empty /\ source \in Values /\ Set(k[2], source, k[1])
    BY <1>1, <1>3, SetKeys
  <1> HIDE DEF k
  <1> QED
    BY <1>2, <1>4, OnIsSet

LEMMA SetTabIsSet == Inv /\ SetTab => Abstract!Set
  <1> SUFFICES ASSUME Inv, SetTab PROVE Abstract!Set
    OBVIOUS
  <1> DEFINE k == <<"media", "last_tab">>
  <1>1. /\ pc = "tab" /\ pc' = "accept" /\ Set(k[2], dlg.tab, k[1])
        /\ UNCHANGED <<file, default_file, writing>>
    BY DEF SetTab
  <1>2. dlg # Closed
    BY <1>1 DEF Inv, AcceptedIsSet
  <1>3. dlg \in [tab : Tabs, text : [Tabs -> Values]]
    BY <1>2 DEF Inv, TypeOK
  <1>4. k \in Keys /\ k[1] # Empty /\ dlg.tab \in Values
    BY <1>3, SetKeys
  <1> HIDE DEF k
  <1> QED
    BY <1>1, <1>4, OnIsSet

LEMMA SaveOpensIsWipe == Inv /\ SaveOpens => Abstract!Wipe
  <1> SUFFICES ASSUME Inv, SaveOpens PROVE Abstract!Wipe
    OBVIOUS
  <1>1. /\ pc # "off" /\ pc' = pc /\ ~writing /\ writing' = TRUE /\ file' = <<>>
        /\ root' = root
    BY DEF SaveOpens
  <1>2. Stored' = [k \in Keys |-> Empty]
    BY <1>1, ReadNothing, StoredIsFile
  <1> QED
    BY <1>1, <1>2 DEF Abstract!Wipe, Abstract!Nothing

\* The program goes on after a save.
LEMMA SavedGoesOn ==
    ASSUME Inv, Saved, writing
    PROVE  pc # "off" /\ pc' # "off" /\ root' = root
  BY Writing DEF Saved

LEMMA SaveWritesIsSave == Inv /\ SaveWrites => Abstract!Save
  <1> SUFFICES ASSUME Inv, SaveWrites PROVE Abstract!Save
    OBVIOUS
  <1>1. writing /\ writing' = FALSE /\ Saved
    BY DEF SaveWrites
  <1>2. pc # "off" /\ pc' # "off" /\ root' = root
    BY <1>1, SavedGoesOn
  <1>3. Stored' = [k \in Keys |-> Cut(View(root)[k])]
    BY SaveStores
  <1> QED
    BY <1>1, <1>2, <1>3 DEF Abstract!Save

\* What a save has stored when it did not reach its end.
LEMMA CutIsTorn ==
    ASSUME Inv, writing, file' \in CutText(DumpString(root))
    PROVE  Abstract!Torn(View(root), Stored')
  <1> DEFINE text == DumpString(root)
             now == View(root)
  <1>1. text \in Seq(Lines) /\ file' \in Seq(Lines) /\ file' \in CutText(text)
    BY Writing
  <1>2. Read(text) = [k \in Keys |-> Cut(now[k])]
    BY Writing, DumpReads
  <1>3. Stored' = Read(file') /\ Read(file') \in [Keys -> Value]
    BY <1>1, ReadTyped, StoredIsFile
  <1> HIDE DEF text
  <1>4. PICK last \in Keys :
            /\ Read(file')[last] \in {Empty, Read(text)[last]} \cup Parts(Read(text)[last])
            /\ \A k \in Keys \ {last} : Read(file')[k] \in {Empty, Read(text)[k]}
    BY <1>1, CutReads
  <1> HIDE DEF now
  <1>5. \A k \in Keys : Read(text)[k] = Cut(now[k])
    BY <1>2
  <1> QED
    BY <1>3, <1>4, <1>5 DEF Abstract!Torn, now

LEMMA SaveBreaksIsBreak == Inv /\ SaveBreaks => Abstract!Break
  <1> SUFFICES ASSUME Inv, SaveBreaks PROVE Abstract!Break
    OBVIOUS
  <1>1. /\ writing /\ writing' = FALSE /\ Saved
        /\ file' \in CutText(DumpString(root))
    BY DEF SaveBreaks
  <1>2. pc # "off" /\ pc' # "off" /\ root' = root
    BY <1>1, SavedGoesOn
  <1>3. Abstract!Torn(View(root), Stored')
    BY <1>1, CutIsTorn
  <1> QED
    BY <1>1, <1>2, <1>3 DEF Abstract!Break

LEMMA ReturnIsEnd == Inv /\ Return => Abstract!End
  <1> SUFFICES ASSUME Inv, Return PROVE Abstract!End
    OBVIOUS
  <1>1. /\ pc # "off" /\ pc' = "off" /\ root' = NULL /\ ~writing /\ writing' = FALSE
        /\ UNCHANGED <<file, default_file>>
    BY DEF Return, Inv, TypeOK, SavesWhere
  <1>2. Stored' = Stored
    BY <1>1, StoredSame
  <1> QED
    BY <1>1, <1>2, NullIsNothing DEF Abstract!End

LEMMA CrashIsEnd == Inv /\ Crash => Abstract!End
  <1> SUFFICES ASSUME Inv, Crash PROVE Abstract!End
    OBVIOUS
  <1>1. /\ pc # "off" /\ pc' = "off" /\ root' = NULL /\ writing' = FALSE
        /\ default_file' = default_file
        /\ file' \in IF writing THEN CutText(DumpString(root)) ELSE {file}
    BY DEF Crash
  <1>2. CASE writing
    <2>1. Abstract!Torn(View(root), Stored')
      BY <1>1, <1>2, CutIsTorn
    <2> QED
      BY <1>1, <1>2, <2>1, NullIsNothing DEF Abstract!End
  <1>3. CASE ~writing
    <2>1. Stored' = Stored
      BY <1>1, <1>3, StoredSame
    <2> QED
      BY <1>1, <1>3, <2>1, NullIsNothing DEF Abstract!End
  <1> QED
    BY <1>2, <1>3

\* What leaves the tree, the files and the saving alone is no step of the map.
LEMMA OtherSteps ==
    Inv /\ (OpenDlg \/ Reject \/ SaveFails \/ UNCHANGED vars) => UNCHANGED Abstract!vars
  <1> SUFFICES ASSUME Inv, OpenDlg \/ Reject \/ SaveFails \/ UNCHANGED vars
               PROVE  UNCHANGED Abstract!vars
    OBVIOUS
  <1>1. UNCHANGED <<root, file, default_file, writing>> /\ (pc = "off" <=> pc' = "off")
    BY DEF OpenDlg, Idle, Reject, SaveFails, Saved, vars
  <1>2. Stored' = Stored
    BY <1>1, StoredSame
  <1> QED
    BY <1>1, <1>2 DEF Abstract!vars

\* The text file implements a map: every GetValue returns what was set last, in this
\* session or before the last save that reached its end, whatever the file looks like, or
\* nothing when the file did not open at the start; a save that broke off or in which the
\* program died has lost settings, and cut short at most one.
THEOREM RefinesSettings == Spec => ImplementsSettings
  <1>1. Inv /\ [Next]_vars => [Abstract!Next]_(Abstract!vars)
    <2> SUFFICES ASSUME Inv, [Next]_vars PROVE [Abstract!Next]_(Abstract!vars)
      OBVIOUS
    <2>1. CASE Instance \/ SetLayout \/ CheckMenubar \/ Exit \/ Accept \/ SetTab
      BY <2>1, InstanceIsSet, SetLayoutIsSet, CheckMenubarIsSet, ExitIsSet, AcceptIsSet,
         SetTabIsSet
      DEF Abstract!Next
    <2>2. CASE Start \/ SaveOpens \/ SaveWrites \/ SaveBreaks \/ Return \/ Crash
      BY <2>2, StartIsBegin, SaveOpensIsWipe, SaveWritesIsSave, SaveBreaksIsBreak,
         ReturnIsEnd, CrashIsEnd
      DEF Abstract!Next
    <2>3. CASE OpenDlg \/ Reject \/ SaveFails \/ UNCHANGED vars
      BY <2>3, OtherSteps
    <2> QED
      BY <2>1, <2>2, <2>3 DEF Next
  <1> QED
    BY <1>1, SettingsInit, Invariance, PTL DEF Spec, ImplementsSettings, Abstract!Spec
===============================================================================
