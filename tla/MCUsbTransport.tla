--------------------------- MODULE MCUsbTransport ---------------------------
(***************************************************************************)
(* UsbTransport for TLC: pools of two transfers, which the senders and the *)
(* keepalive thread together exhaust.                                      *)
(***************************************************************************)
EXTENDS UsbTransport
CONSTANTS s1, s2, k
=============================================================================
