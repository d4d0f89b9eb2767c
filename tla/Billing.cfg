SPECIFICATION Spec
CONSTANTS
    s1 = s1
    p1 = p1
    h1 = h1
    h2 = h2
    None = None
    Subs <- MC_OneSub
    Plans <- MC_OnePlan
    Handlers <- MC_Handlers
    MaxVersion = 2
    MaxInvoices = 1
    MaxTime = 2
    PlanChanges = FALSE
    MaxFaults = 1
CHECK_DEADLOCK FALSE
INVARIANT TypeOK
INVARIANT CurrentOnceQuiet
INVARIANT AnsweredIsRecorded
INVARIANT PlanIsPaid
PROPERTY EveryEventAnswered
