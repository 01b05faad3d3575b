SPECIFICATION Spec
CONSTANTS
  a = a
  b = b
  net = net
  vol = vol
  sec = sec
  pod = pod
  Projects = {a, b}
  Objects = {net, vol, sec, pod}
  Kind <- MCKind
  VerbsOf <- MCVerbsOf
  FilesOf <- MCFilesOf
  Unlabelled = unlabelled
  Absent = absent
  Unseen = unseen
  Taken = taken
  MaxRuns <- MCMaxRuns
  MaxHand <- MCMaxHand
INVARIANTS
    DownLeavesNothing
    OnlyIfSeenAbsent
    UpDelivers
CHECK_DEADLOCK FALSE
