CONSTANTS
    master = master
    slave1 = slave1
    movies = movies
    books = books
    Leader <- master
    Followers <- OneFollower
    Asked <- MasterFirst
    Order <- MoviesThenBooks
    Seeded <- movies
    RetryAttempts = 2
    MaxCrashes = 2
    MaxTries = 2
SPECIFICATION RepSpec
CHECK_DEADLOCK FALSE
INVARIANTS
    AckedIsKeptOnce
    ConvergedMeansServed
PROPERTIES
    AckedReachesFollowers
