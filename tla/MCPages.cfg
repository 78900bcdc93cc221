SPECIFICATION PagesSpec
CONSTANTS
    Questions = {q1, q2}
    NoQuestion = NoQuestion
    Materials = {m1, m2}
    NoMaterial = NoMaterial
    MaxCalls <- MCMaxCalls
    MaxPolls = 1
INVARIANT QuizPageTrue
PROPERTY ListConverges
CHECK_DEADLOCK FALSE
