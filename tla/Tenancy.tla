------------------------------- MODULE Tenancy -------------------------------
(***************************************************************************)
(* What the membership tables promise of a company: from the moment it has *)
(* an owner it has exactly one, who is a member and can be neither removed *)
(* nor demoted, only succeeded by another member.                          *)
(***************************************************************************)
CONSTANTS Users, Nobody

VARIABLES
    owner,    \* the owner, or Nobody
    members   \* people with a membership

Init ==
    \/ owner = Nobody /\ members = {}
    \/ owner \in Users /\ members = {owner}

(* The invited owner accepts.                                              *)
Found(u) ==
    /\ owner = Nobody
    /\ owner' = u
    /\ members' = {u}

Join(u) ==
    /\ owner # Nobody /\ u \notin members
    /\ members' = members \cup {u}
    /\ UNCHANGED owner

Leave(u) ==
    /\ u \in members \ {owner}
    /\ members' = members \ {u}
    /\ UNCHANGED owner

HandOver(u) ==
    /\ u \in members \ {owner}
    /\ owner' = u
    /\ UNCHANGED members

Next == \E u \in Users : Found(u) \/ Join(u) \/ Leave(u) \/ HandOver(u)

Spec == Init /\ [][Next]_<<owner, members>>
====
