--------------------------- MODULE MCIrqDelivery ---------------------------
(* Three devices are enough for a source that comes back while another one *)
(* is served, for one acknowledged while others stay pending, and for the  *)
(* order of the claim register.                                            *)
EXTENDS IrqDelivery
=============================================================================
