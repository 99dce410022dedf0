SPECIFICATION FairSpec
CONSTANTS
  n1 = n1  n2 = n2  p1 = p1  p2 = p2
  d1 = d1  d2 = d2  old = old  bare = bare
  zone = zone  os = os
  Node = {n1}
  Pool = {p1, p2}
  NoPool = NoPool
  Key = {d1, d2, old, bare}
  KeyPool <- MCKeyPool
  RenderedKey <- MCRenderedKey
  Entry = {zone, os}
  NodeLabels <- MCNodeLabels
  PoolLabels <- MCPoolLabels
  Selectors <- MCPoolSelectors
  Grace = 2
  Second = 2
  Requeue = 1
  MaxFaults = 1
CONSTRAINT FaultsOfRendered
INVARIANTS TypeOK DeferralHasWakeUp SyncLeavesOnlyWanted FaultFreeRetainedCanRestart
PROPERTIES ReapedOnlyAfterGrace RetiredPoolReaped
