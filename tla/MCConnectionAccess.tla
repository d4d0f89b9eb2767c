-------------------------- MODULE MCConnectionAccess --------------------------
(* Small instances of ConnectionAccess.                                    *)
EXTENDS ConnectionAccess, TLC

CONSTANTS s1, s2, w1, w2

(* Sign-ins and runs are interchangeable. *)
Symmetric == Permutations(SignIns) \cup Permutations(Workers)
=============================================================================
