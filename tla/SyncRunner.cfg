\* Two overlapping runs, started again and again, over two records that fill a window; account
\* refreshes between runs. No symmetry: one property is a liveness property.
CONSTANTS
  x1 = x1  x2 = x2
  r1 = r1  r2 = r2
  Refs = {x1, x2}
  Runners = {r1, r2}
  Offset = FALSE
  PageSize = 2
  MaxPages = 2
  MaxTime = 2
  MaxVersion = 2
  MaxReturns = 0
  QuietResets = TRUE
  MaxResets = 1
  MaxFaults = 1
SPECIFICATION FairSpec
INVARIANT TypeOK
INVARIANT NothingLost
INVARIANT NewestIsCurrent
PROPERTY CatchesUp
