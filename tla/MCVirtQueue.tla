---------------------------- MODULE MCVirtQueue ----------------------------
(* Rings of three fill, empty and hold stale entries; an index of six      *)
(* values wraps, and differs from the slot it names.  A chain has a        *)
(* descriptor that the header fills, or one that it does not, one that is  *)
(* empty and one that takes the end of the header and the packet's begin.  *)
EXTENDS VirtQueue

MCLayouts == {<<2, 3>>, <<1, 0, 3, 1>>}
MCPacketSizes == {1, 3}
=============================================================================
