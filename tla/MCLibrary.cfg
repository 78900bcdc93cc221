SPECIFICATION Spec
CONSTANTS
  \* Reading
  MaxPages = 2
  MaxSentences = 4
  Sizes = {0, 1, 2, 4}
  OcrBelow = 2
  MinUsable = 2
  TargetTokens = 5
  OverlapTokens = 2
  \* Retrieval
  Sources = {s1, s2}
  SourcePages = {1}
  Scores = {14, 24, 26}
  Lengths = {1, 3}
  MaxRows = 3
  TopK = 2
  MinScore = 20
  MaxEvidence = 2
  Shown = 10
  CitationLimit = 1
  \* Learning
  LearnConcepts = {1, 2}
  Importance <- MCImportance
  LearnScores = {0, 70}
  EvidenceLimit = 2
  SeriesLimit = 2
  ScanLimit = 3
  MistakePeriods = 0
  MaxLength = 3
  MaxRowsLearned = 4
  MaxPeriod = 1
  \* AiCalls
  Callers = {p1, p2}
  Keys = {k1, k2, k3}
  CacheLimit = 2
  LocalModel = TRUE
  Priced = TRUE
  SdkTries = 2
  MaxModelCalls = 3
  MaxCallFaults = 2
  \* QuizBuilder
  QuizConcepts = {c1, c2}
  PlanLength = 3
  RawIds <- MCRawIds
  MaxOptions = 2
  Attempts = 2
  MaxQuizzes = 1
  \* Dashboards
  d1 = d1
  d2 = d2
  h1 = h1
  h2 = h2
  BoardProjects = {d1, d2}
  BoardSpaces = {h1, h2}
  HomeOf <- MCHomeOf
  Masteries = {0, 80}
  Importances = {30, 90}
  ConceptPool = 1
  RecentLimit = 1
  AttentionLimit = 1
  JourneyPool = 1
  MaxBoardRows = 3
  \* Usage
  Features = {f1, f2}
  LatencyOf <- MCLatencyOf
  DayLength = 2
  WindowDays = 1
  MaxEntries = 2
  MaxHours = 2
  \* EvalRun
  Difficulties = {"easy", "hard"}
  MaxRecommendations = 1
  MaxRuns = 1
  \* Concepts
  Documents = {m1, m2}
  RawNames <- MCNames
  Mentioned <- MCMentioned
  MaxNames = 2
  MaxMentioned = 2
  Extractions = 2
  MaxNamings = 1
  \* Prompts
  Threads = {t1, t2}
  TurnCount = 3
  Window = 3
  SummaryTurns = 2
  Known = {1, 2, 3}
  Levels = {0, 1}
  MaxConcepts = 2
  \* AdminDesk
  PageSize = 2
  Days = 1
  DeskJobs = {j1, j2}
  ListLimit = 1
  LockTimeout = 1
  MaxEvents = 3
  MaxTicks = 3
  \* Timing
  MaxSpans = 3
  MaxClock = 5
  \* Fixture
  Runs = {1, 2}
  MaxFailures = 2
  \* Storage
  Uploads = {u1, u2}
  Segments = {"a", "storage", "..", ".", ""}
  MaxSegments = 3
  MaxLosses = 1
  \* Forms
  Drafts = {w1, w2}
  NoDraft = w0
  MaxPosts = 3
INVARIANTS
  DocumentsFaithful
  PromptsTrue
  LearningTrue
  NamesTrue
  CallsTrue
  QuizzesSound
  FiguresTrue
  EvaluationHonest
  ScreensTrue
CHECK_DEADLOCK FALSE
