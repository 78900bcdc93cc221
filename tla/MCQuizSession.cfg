SPECIFICATION FairSpec
CONSTANTS
    z1 = z1
    q1 = q1
    q2 = q2
    c1 = c1
    c2 = c2
    Quizzes = {z1}
    Concepts = {c1, c2}
    Questions = {q1, q2}
    QuizOf <- OneQuiz
    ConceptOf <- TwoConcepts
    OpenEnded = {q1, q2}
    Requests = {r1, r2}
    Workers = {w1}
    NoQuestion = NoQuestion
    NoQuiz = NoQuiz
    NoConcept = NoConcept
    Scores = {100}
    MaxMentions = 1
    MaxAttempts = 2
    MaxFaults = 1
INVARIANTS EvidenceMatchesAnswers MasteryFollowsEvidence
PROPERTIES RequestsEnd CompletedIsEvaluated
CHECK_DEADLOCK FALSE
