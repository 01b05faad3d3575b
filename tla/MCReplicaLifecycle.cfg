SPECIFICATION Spec
CONSTANTS
    Config <- MCConfig
    Env <- MCEnv
    NoHash = NoHash
    Vol <- MCVol
    NoVol = NoVol
    Steps = 2
    Options <- MCOptions
    MaxRuns = 3
INVARIANTS
    InitReclaimed
    SuccessDelivers
    VolumeInherited
PROPERTIES
    FailedInitKeeps
CHECK_DEADLOCK FALSE
