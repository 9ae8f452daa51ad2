CONSTANTS
    movies = movies
    books = books
    Cores <- TwoCores
    Order <- MoviesThenBooks
    Images <- TwoImages
    FilesOf <- FewerFiles
    Role = "master"
    MaxStarts = 3
SPECIFICATION InitSpec
CHECK_DEADLOCK FALSE
INVARIANTS
    RunsRepoConfig
PROPERTIES
    StartSucceeds
