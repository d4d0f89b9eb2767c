------------------------------ MODULE MCBilling ------------------------------
EXTENDS Billing
CONSTANTS s1, p1, h1, h2
MC_OneSub == {s1}
MC_OnePlan == {p1}
MC_Handlers == {h1, h2}
====
