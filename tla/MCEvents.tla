------------------------------ MODULE MCEvents ------------------------------
(***************************************************************************)
(* EventProperties for TLC: the model values and the symmetry of objects   *)
(* that the queues treat alike.                                            *)
(***************************************************************************)
EXTENDS EventProperties, TLC

CONSTANTS trg, obj, w1, w2, n1, tag1, h1, c1, c2

HandlerSymmetry == Permutations({w1, w2}) \cup Permutations({c1, c2})
=============================================================================
