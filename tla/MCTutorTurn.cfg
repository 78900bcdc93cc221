SPECIFICATION FairSpec
CONSTANTS
    Chats = {p1}
    MaxTurns = 2
    MaxPieces = 1
    MaxFaults = 1
INVARIANTS AnswerFollowsQuestion RowForEveryCall DoneMeansStored NeverSilent
PROPERTY PendingEnds
CHECK_DEADLOCK FALSE
