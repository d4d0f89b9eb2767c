---------------------------- MODULE MCMembership -----------------------------
EXTENDS Membership, TLC
CONSTANTS u1, u2, u3, c1, c2, c3
MC_Users == {u1, u2, u3}
MC_Calls == {c1, c2, c3}
MC_Symmetry == Permutations(MC_Users) \cup Permutations(MC_Calls)

(* What a step or a property can still tell apart: not the arguments of a  *)
(* call that is over, nor what a call has read and will not use again, nor *)
(* invitations that are gone; and of ids only whether they are current.    *)
MC_Call(c) ==
    CASE pc[c] \in {"new", "done"} -> <<pc[c]>>
      [] pc[c] \in {"owner", "target"} ->
            <<pc[c], op[c], caller[c], target[c], wanted[c], Present(c)>>
      [] pc[c] = "lock" -> <<pc[c], caller[c], target[c], Present(c), seen[c]>>
      [] pc[c] = "check" -> <<pc[c], op[c], caller[c], target[c], wanted[c], before[c]>>
      [] OTHER -> <<pc[c], op[c], caller[c], target[c], wanted[c], as[c]>>
MC_View ==
    <<role, lock, invited, [n \in live |-> <<invitee[n], offered[n]>>],
      [c \in Calls |-> MC_Call(c)]>>
====
