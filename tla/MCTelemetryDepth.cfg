CONSTANTS
    movies = movies
    books = books
    w1 = w1
    w2 = w2
    Cores <- OneCore
    Workers <- OneWorker
    CoreOf <- AllMovies
    BatchSize = 1
    RetryAttempts = 2
    WorkerSleeps = FALSE
    Answers <- SolrAnswers
    MaxDocs = 3
SPECIFICATION TelSpec
CHECK_DEADLOCK FALSE
INVARIANTS
    QueueDepthCurrent
