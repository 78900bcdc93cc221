SPECIFICATION Spec
CONSTANTS
    z1 = z1
    q1 = q1
    q2 = q2
    c1 = c1
    c2 = c2
    Quizzes = {z1}
    Concepts = {c1, c2}
    Questions = {q1, q2}
    QuizOf <- OneQuiz
    ConceptOf <- OneConcept
    OpenEnded = {}
    Requests = {r1, r2}
    Workers = {w1}
    NoQuestion = NoQuestion
    NoQuiz = NoQuiz
    NoConcept = NoConcept
    Scores = {0, 100}
    MaxMentions = 1
    MaxAttempts = 1
    MaxFaults = 0
INVARIANT NeverDrifts
CHECK_DEADLOCK FALSE
