----------------------------- MODULE MCStorePool -----------------------------
(* Instances of StorePool, Membership and Placement. *)
EXTENDS StorePool, TLC

CONSTANTS s1, s2, s3

(* Three blocks of inode 2; in the last the scores are tied. *)
MCBlocks == {<<2, 0>>, <<2, 3>>, <<2, 2>>}

(* A hash that ranks the stores s1 > s3 > s2 for one block and s2 > s1 > s3
   for the other. *)
MCHash(n, b) ==
  CASE n = s1 -> 10
    [] n = s2 -> 5 + 10 * (b[2] % 2)
    [] OTHER -> 7

(* The stores in two different orders. *)
MCOrders == {s1 :> 1 @@ s2 :> 2 @@ s3 :> 3, s1 :> 2 @@ s2 :> 3 @@ s3 :> 1}

(* One store keeps its address, the other may move. *)
MCAddrsOf == s1 :> {1, 2} @@ s2 :> {1}
=============================================================================
