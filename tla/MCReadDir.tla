----------------------------- MODULE MCReadDir -----------------------------
(* A small instance of ReadDir: one mount changes the tree, another lists it. *)
EXTENDS ReadDir
=============================================================================
