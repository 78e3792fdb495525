----------------------------- MODULE MCAtomics -----------------------------
(* Two contexts and two words; offset 0 is the reservation of a hart that  *)
(* has made none.                                                          *)
EXTENDS Atomics
=============================================================================
