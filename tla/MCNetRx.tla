------------------------------ MODULE MCNetRx ------------------------------
(* Three buffers: the list is walked over a node in the middle, while the  *)
(* reader has one and the guest reads another.  They are interchangeable.  *)
EXTENDS NetRx, TLC

Symmetry == Permutations(Chains)
=============================================================================
