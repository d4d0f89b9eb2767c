----------------------------- MODULE MCSyncQueue -----------------------------
(* Small instances of SyncQueue.                                           *)
EXTENDS SyncQueue, TLC

CONSTANTS c1, j1, j2, w1, w2, d1, d2, d3

(* Two drains of one handler share its worker id, as the four do that      *)
(* SYNC_CONCURRENCY's default starts; the other handler has one.           *)
TwoAndOne == d1 :> w1 @@ d2 :> w1 @@ d3 :> w2

Alike == {f @@ g : f \in Permutations({j1, j2}), g \in Permutations({d1, d2})}
=============================================================================
