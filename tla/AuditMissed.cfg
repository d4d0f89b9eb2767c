SPECIFICATION Spec
CONSTANTS
    a1 = a1
    a2 = a2
    w1 = w1
    w2 = w2
    AuditIds <- MC_OneAudit
    Workers <- MC_OneWorker
    MaxDocs = 1
    DocLimit = 1
    MaxFaults = 0
CHECK_DEADLOCK FALSE
PROPERTY RerunsByItself
