SPECIFICATION MCSpec
CONSTANTS
  p = p
  q = q
  a = a
  b = b
  s = s
  t = t
  u = u
  web = web
  Paths = {p, q}
  Contents = {a, b}
  SizeOf <- MCSizeOf
  Gone = gone
  Rescan = rescan
  Opened = opened
  Order <- MCOrder
  Action <- MCAction
  Container <- MCContainer
  Watches <- MCWatches
  Ignore <- MCIgnore
  Include <- MCInclude
  Ignorefile <- MCIgnorefile
  Mounts <- MCMounts
  Initial = {s}
  Baked <- MCBaked
  Large = {s}
  WATCH_CHANNEL_CAP = 1
  WATCH_MAX_BATCH_PATHS = 2
  KernelCap = 1
  MaxChanges <- MCMaxChanges
INVARIANTS
    CaughtUp
PROPERTIES
    Rests
CHECK_DEADLOCK FALSE
