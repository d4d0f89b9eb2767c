------------------------------ MODULE MCAudits -------------------------------
EXTENDS Audits
CONSTANTS a1, a2, w1, w2
MC_OneAudit == {a1}
MC_Two == {a1, a2}
MC_OneWorker == {w1}
MC_Workers == {w1, w2}
====
