---------------------------- MODULE MCAttrCache ----------------------------
(* A small instance of AttrCache. *)
EXTENDS AttrCache
=============================================================================
