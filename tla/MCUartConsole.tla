--------------------------- MODULE MCUartConsole ---------------------------
(* Five bytes and a buffer of two: it fills, is drained and fills again,   *)
(* and the byte that is refused is in the middle.                          *)
EXTENDS UartConsole
=============================================================================
