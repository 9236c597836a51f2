---------------------------- MODULE MCNamespace ----------------------------
(* Small instances of Namespace.  The names are interchangeable, and so are
   the mounts: no definition tells two of them apart. *)
EXTENDS Namespace, TLC

Symmetric == Permutations(Names) \cup Permutations(Clients)
=============================================================================
