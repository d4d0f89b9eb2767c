\* One delivery, two overlapping workers, three attempts, two faults; no symmetry: one property is a liveness property.
CONSTANTS
  e1 = e1  h1 = h1  h2 = h2  w1 = w1  w2 = w2
  Deliveries = {h1}
  Endpoints = {e1}
  EndpointOf <- OneEndpoint
  Workers = {w1, w2}
  Limit = 1
  MaxAttempts = 3
  MaxFaults = 2
\* A deleted endpoint takes its deliveries with it: nothing is left to do.
CHECK_DEADLOCK FALSE
SPECIFICATION FairSpec
INVARIANT TypeOK
INVARIANT AttemptsBacked
INVARIANT LeaseExcludes
PROPERTY PromiseKept
PROPERTY EventSettles
