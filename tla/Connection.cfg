\* Two sign-ins and two overlapping runs at a vendor that rotates its refresh tokens.
CONSTANTS
  s1 = s1  s2 = s2  w1 = w1  w2 = w2
  SignIns = {s1, s2}
  Workers = {w1, w2}
  Habits = {"rotate"}
  MaxTime = 2
  MaxTokens = 3
  MaxFaults = 1
  None = None
SPECIFICATION Spec
SYMMETRY Symmetric
INVARIANT TypeOK
INVARIANT StoredLive
PROPERTY OnlySignInRestores
PROPERTY NewerReplaces
