SPECIFICATION FairSpec
CONSTANTS
    db = db
    app = app
    web = web
    cache = cache
    NoWait = NoWait
    Service <- MCService
    Files <- MCFiles
    MaxReplicas = 2
    Permits = 2
INVARIANTS
    DependenciesHonoured
    SuccessMeansUp
PROPERTIES
    ImplementsOrder
    Terminates
