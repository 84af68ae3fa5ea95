------------------------------- MODULE MCDict -------------------------------
(* Three keys over tables of 2, 4 and 8 slots.  k1 and k2 collide in every *)
(* table, k3 joins them only in the smallest.                              *)
EXTENDS Dict, TLC

CONSTANTS k1, k2, k3

MCKeys == {k1, k2, k3}
MCHash == k1 :> 0 @@ k2 :> 8 @@ k3 :> 2
MCSizes == {2, 4, 8}
=============================================================================
