SPECIFICATION Spec
CONSTANTS
    a1 = a1
    a2 = a2
    w1 = w1
    w2 = w2
    AuditIds <- MC_OneAudit
    Workers <- MC_Workers
    MaxDocs = 3
    DocLimit = 2
    MaxFaults = 1
CHECK_DEADLOCK FALSE
INVARIANT TypeOK
INVARIANT NothingOverlooked
INVARIANT OneGenerator
PROPERTY ReadyFinal
PROPERTY ReadyOnceUsable
