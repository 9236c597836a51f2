------------------------------ MODULE Placement ------------------------------
(***************************************************************************)
(* Rendezvous hashing: hash::pick_nodes, and allocate_blocks on top of it. *)
(* A store's score for a block mixes two hashes of the store's name, one   *)
(* seeded with the block index and one with the inode number.              *)
(***************************************************************************)
EXTENDS Integers, FiniteSets

CONSTANTS
  Names,              \* store servers
  Orders,             \* bound: the orders in which the HashMap may yield them
  Blocks,             \* bound: the blocks that are placed, <<ino, block_idx>>
  Hash(_, _),         \* the two xxh3_64_with_seed of a store and a block, mixed
  ReplicationFactor   \* MetaState.replication_factor

ASSUME NamesAssumption == IsFiniteSet(Names)

(* The stores' names do not collide. *)
ASSUME HashAssumption ==
  \A n \in Names, b \in Blocks :
    /\ Hash(n, b) \in Nat
    /\ \A m \in Names : Hash(m, b) = Hash(n, b) => m = n

ASSUME OrdersAssumption ==
  \A o \in Orders : /\ o \in [Names -> Nat]
                    /\ \A m, n \in Names : o[m] = o[n] => m = n

ASSUME ReplicationAssumption == ReplicationFactor \in Nat \ {0}

(* With equal seeds the two hashes cancel:
   every store scores 0. *)
Tied(b) == b[1] = b[2]

Score(n, b) == IF Tied(b) THEN 0 ELSE Hash(n, b)

(* m is sorted before n.  Equal scores are left in an order that depends on
   that of the HashMap the stores come from: each store's place in it. *)
Beats(m, n, b, order) ==
  \/ Score(m, b) > Score(n, b)
  \/ Score(m, b) = Score(n, b) /\ order[m] < order[n]

Better(n, b, S, order) == {m \in S : Beats(m, n, b, order)}

(* Mutation of Picked: the block's home moves round the list of stores, as
   with a hash taken modulo their number. *)
PickedModulo(b, S, order) ==
  {n \in S : (Cardinality(Better(n, b, S, order)) + b[2]) % Cardinality(S)
               < ReplicationFactor}

(* The stores pick_nodes takes for block b from the set S. *)
Picked(b, S, order) ==
  {n \in S : Cardinality(Better(n, b, S, order)) < ReplicationFactor}
=============================================================================
