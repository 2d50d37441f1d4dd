SPECIFICATION Spec
CHECK_DEADLOCK FALSE
CONSTANTS
    Text <- MCText
    Value <- MCValue
    Absent = Absent
    Cut <- MCCut
    CommentOf <- MCCommentOf
    Files <- MCFiles
    DefaultFiles <- MCDefaultFiles
    Sources <- MCSources
    Parts <- MCParts
    CutTexts <- MCCutTexts
    MaxSteps = 5
INVARIANTS
    CommentsKept
PROPERTIES
    AcceptedIsStored
    ImplementsSettings
