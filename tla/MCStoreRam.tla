---------------------------- MODULE MCStoreRam ----------------------------
(* A small instance of StoreRam.  The handlers are interchangeable. *)
EXTENDS StoreRam, TLC

Symmetric == Permutations(Tasks)
=============================================================================
