SPECIFICATION MCSpec
CONSTANTS
  None = None
  Cwd = "d"
  EnvFiles <- MCEnvFiles
  EnvValues <- MCEnvValues
  Profiles <- MCProfiles
  Targets <- MCTargets
  Direct <- MCDirect
  MaxIncludeDepth = 2
  MaxIncludeVisits = 3
  MaxExtendsDepth = 3
  MaxCacheEntries = 2
  MaxDocumentBytes = 7
INVARIANTS
    FilesMerged
    ScopeFaithful
CHECK_DEADLOCK FALSE
