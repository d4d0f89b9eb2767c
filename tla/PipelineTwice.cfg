\* One run at a time and one fault: a run fails after its approval was inserted and decided.
CONSTANTS
  r1 = r1  r2 = r2  x1 = x1  x2 = x2
  MaxSeq = 1
  MaxCopies = 2
  Runs = {r1}
  Executors = {x1}
  Kinds = {"gated"}
  Limit = 1
  MaxFaults = 1
CHECK_DEADLOCK FALSE
SPECIFICATION Spec
INVARIANT OneProposal
