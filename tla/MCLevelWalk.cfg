SPECIFICATION FairSpec
CONSTANTS
    db = db
    app = app
    db1 = db1
    app1 = app1
    app2 = app2
    Service <- MCService
    Container <- MCContainer
    ServiceOf <- MCServiceOf
    OneOff = {app2}
    Files <- MCFiles
    Commands <- AllCommands
    Targets <- MCTargets
    Starts <- MCStarts
    Limit = 2
    Shared <- MCShared
INVARIANTS
    WalkOrder
    Delivered
    NothingDropped
PROPERTIES
    Terminates
