CONSTANTS
    movies = movies
    w1 = w1
    Cores <- OneCore
    Workers <- OneWorker
    CoreOf <- AllMovies
    BatchSize = 2
    RetryAttempts = 2
    WorkerSleeps = TRUE
    Answers <- SolrAnswers
    MaxDocs = 9
SPECIFICATION FairSpec
CHECK_DEADLOCK FALSE
INVARIANTS
    TypeOK
    DocsAccounted
    OldestFirst
    StatsExact
    CleanExit
PROPERTIES
    FinalTotalsStable
    OnlyInFlightIsSent
    ImplementsLedger
    ShutdownCompletes
    QueuedIsTaken
