CONSTANTS
    movies = movies
    books = books
    w1 = w1
    w2 = w2
    Cores <- OneCore
    Workers <- TwoWorkers
    CoreOf <- AllMovies
    BatchSize = 2
    RetryAttempts = 2
    WorkerSleeps = TRUE
    Answers <- SolrAnswers
    MaxDocs = 3
SPECIFICATION TelSpec
CHECK_DEADLOCK FALSE
SYMMETRY WorkerSymmetry
INVARIANTS
    GaugesTrackWorkers
    CountersMirrorStats
    LatencyExplained
PROPERTIES
    ImplementsPipeline
    ImplementsLedger
