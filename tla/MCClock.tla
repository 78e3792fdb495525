------------------------------ MODULE MCClock ------------------------------
(* A word of four values carries and wraps within ten ticks; the deadlines *)
(* lie below, at and above a carry, and one is never reached.              *)
EXTENDS Clock
=============================================================================
