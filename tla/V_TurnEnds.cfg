CONSTANTS
    MaxTurns = 2
    MaxPieces = 1
    MaxCancels = 1
    Sizes <- MCSizes
    Rooms <- MCRooms
    ShowReasoning = FALSE
    BadPort = TRUE
SPECIFICATION FairSpec
PROPERTY TurnEnds
