----------------------------- MODULE MCGpuCache -----------------------------
(***************************************************************************)
(* Instance of GpuCache for TLC: words of two bytes, blocks of two words,  *)
(* five blocks in two sets of two ways, so that three blocks compete for a *)
(* set and a store can straddle a word or a block.                         *)
(***************************************************************************)
EXTENDS GpuCache

MCImage == [a \in Bytes |-> 0]
=============================================================================
