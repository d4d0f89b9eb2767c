\* Two overlapping runs, two executors, two records read one at a time, each asking for a task or for an
\* approval (a gated record asks for both). No symmetry: one property is a liveness property.
CONSTANTS
  r1 = r1  r2 = r2  x1 = x1  x2 = x2
  MaxSeq = 2
  MaxCopies = 2
  Runs = {r1, r2}
  Executors = {x1, x2}
  Kinds = {"insight", "unrouted"}
  Limit = 1
  MaxFaults = 1
\* When every record is handled and decided, nothing is left to do.
CHECK_DEADLOCK FALSE
SPECIFICATION FairSpec
INVARIANT TypeOK
INVARIANT NothingPassedOver
INVARIANT CarriedOutOnce
PROPERTY CursorForward
PROPERTY RecordsReached
