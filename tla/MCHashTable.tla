---------------------------- MODULE MCHashTable -----------------------------
(***************************************************************************)
(* Three keys in two buckets, two of them in the same one, and memory for  *)
(* every one of them; malloc may still fail.                               *)
(***************************************************************************)
EXTENDS HashTable, TLC

CONSTANTS k1, k2, k3

MCHash == k1 :> 3 @@ k2 :> 5 @@ k3 :> 4
=============================================================================
