------------------------------ MODULE MCReplies -----------------------------
(***************************************************************************)
(* Replies for TLC: calls differ in their state only.                      *)
(***************************************************************************)
EXTENDS Replies

Symmetric == Permutations(Calls)
=============================================================================
