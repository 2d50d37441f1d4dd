------------------------------ MODULE MCConfile -------------------------------
(* A small instance of Confile for TLC.                                        *)
EXTENDS Confile

\* "movie#1" has a '#': read again it is "movie", and "#1" a comment.
MCCut(v) == IF v = "movie#1" THEN "movie" ELSE v
MCCommentOf(v) == IF v = "movie#1" THEN <<"#1">> ELSE <<>>
MCParts(v) == IF v = "FILE" THEN {"", "FI"} ELSE {""}
MCCutTexts == {"#"}
MCSources == {"", "movie#1"}
MCText == STRING
MCValue == MCSources \cup Rows \cup Bools \cup WindowStates \cup Tabs \cup {"movie", "DEBUG", "FI"}

Blank(text) == Line("BLANK", text, "", <<>>)
Sec(label, span) == Line("SECTION", label, "", span)
KeyLine(label, value, span) == Line("KEY", label, value, span)

\* Comments on top, between sections, at the ends of lines and of the file; a malformed
\* line; keys of no section; and a section that comes twice.
MCDefault ==
    <<Blank("# conf"), KeyLine("loglevel", "DEBUG", <<"# level">>),
      Sec("ui", <<"# look">>), KeyLine("mv_row", "1", <<>>), Blank("# media"),
      Sec("media", <<>>), KeyLine("last_tab", "FILE", <<"# tab">>),
      Line("BAD", "", "", <<"# bad">>), Blank("# end")>>
MCTwice ==
    <<Sec("ui", <<>>), Sec("media", <<>>), Blank("# again"),
      Sec("ui", <<>>), KeyLine("mv_row", "1", <<>>)>>
MCFiles == {MCTwice}
MCDefaultFiles == {MCDefault}
===============================================================================
