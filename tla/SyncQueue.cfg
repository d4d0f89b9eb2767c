\* Two handlers, one with two drains that share its worker id; one connection and two rows, so that
\* a settled row and a new one of the same connection meet. Safety only, so rows may be swapped, and
\* so may the drains of the first handler.
CONSTANTS
  c1 = c1
  j1 = j1  j2 = j2
  w1 = w1  w2 = w2
  d1 = d1  d2 = d2  d3 = d3
  Conns = {c1}
  Jobs = {j1, j2}
  Workers = {w1, w2}
  Drains = {d1, d2, d3}
  WorkerOf <- TwoAndOne
  MaxAttempts = 2
  MaxFaults = 1
  NoOne = NoOne
SPECIFICATION Spec
SYMMETRY Alike
INVARIANT TypeOK
INVARIANT OneOutstanding
PROPERTY SettledByLatestClaim
