-------------------------- MODULE MCMessageTreeQueue --------------------------
(* A conversation of a few messages for TLC. *)
EXTENDS MessageTreeQueue, TLC

(* Replies are interchangeable. *)
ReplySymmetry == Permutations(Node \ {Root})
=============================================================================
