SPECIFICATION FairSpec
CONSTANTS
    Quizzes = {z1}
    Workers = {w1}
    NoJob = NoJob
    MaxAttempts = 2
    MaxMinute = 1
    MaxTurns = 1
    MaxFaults = 1
INVARIANT OneOpenSet
PROPERTIES SummaryNeverLost GuidanceEnds
CHECK_DEADLOCK FALSE
