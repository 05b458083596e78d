---------------------------- MODULE MCCommentStore ----------------------------
(* Instances of CommentStore for TLC. *)
EXTENDS CommentStore, TLC

Symmetry == Permutations(Targets) \cup Permutations(Handlers) \cup Permutations(Texts)
=============================================================================
