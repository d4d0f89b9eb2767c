\* The same handlers and drains, one row. No symmetry: EveryJobSettles is a liveness property.
CONSTANTS
  c1 = c1
  j1 = j1  j2 = j2
  w1 = w1  w2 = w2
  d1 = d1  d2 = d2  d3 = d3
  Conns = {c1}
  Jobs = {j1}
  Workers = {w1, w2}
  Drains = {d1, d2, d3}
  WorkerOf <- TwoAndOne
  MaxAttempts = 2
  MaxFaults = 1
  NoOne = NoOne
SPECIFICATION FairSpec
PROPERTY JobsKept
PROPERTY EveryJobSettles
