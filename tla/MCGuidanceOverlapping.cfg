SPECIFICATION Spec
CONSTANTS
    Quizzes = {z1, z2}
    Workers = {w1, w2}
    NoJob = NoJob
    MaxAttempts = 1
    MaxMinute = 0
    MaxTurns = 1
    MaxFaults = 0
SYMMETRY Symmetry
INVARIANTS OneOpenSet GuidanceFollowsEvidence
CHECK_DEADLOCK FALSE
