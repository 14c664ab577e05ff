CONSTANTS
  l1 = l1
  l2 = l2
  busybox = busybox
  full = full
  other = other
  Links = {l1, l2}
  Paths = {busybox, full, other}
  Priorities = {9, 19}
  Like <- Matches
  NoLink = NoLink
  Plain = Plain
  Scriptlets <- TwoScriptlets
  MaxStops = 2
  MaxCalls = 2
SPECIFICATION FairSpec
CHECK_DEADLOCK FALSE
INVARIANT LinkFollowsBest
INVARIANT NoDuplicates
INVARIANT ScriptletsTakeEffect
PROPERTY EveryScriptletRuns
