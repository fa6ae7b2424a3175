CONSTANTS
    MaxTurns = 3
    MaxPieces = 2
    MaxCancels = 1
    Sizes <- MCSizes
    Rooms <- MCRooms
    ShowReasoning = TRUE
    BadPort = FALSE
SPECIFICATION FairSpec
INVARIANTS
    TurnsAlternate
    AnswerIsWhole
PROPERTIES
    SentIsAsked
    TurnEnds
