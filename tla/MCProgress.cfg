CONSTANTS
    movies = movies
    books = books
    w1 = w1
    w2 = w2
    Cores <- TwoCores
    Workers <- TwoWorkers
    CoreOf <- OneEach
    Order <- MoviesThenBooks
    BatchSize = 2
    RetryAttempts = 1
    WorkerSleeps = FALSE
    Answers <- SolrAnswers
    MaxDocs = 3
    DocsOf <- TwoBooks
    MaxTicks = 1
SPECIFICATION ProgSpec
CHECK_DEADLOCK FALSE
INVARIANTS
    TornByWorkersOnly
    FinalLineTrue
    CleanExit
PROPERTIES
    LinesNeverGoBack
