--------------------------- MODULE MCUartBuffers ---------------------------
(***************************************************************************)
(* UartBuffers for TLC: a transmit ring of two cells and a receive ring of *)
(* four with indices that wrap at eight, so that the bytes of a run lap    *)
(* both rings and the indices.  StreamSize equals IndexMod: the history    *)
(* needs no more, and the last byte wraps every index.                     *)
(***************************************************************************)
EXTENDS UartBuffers
=============================================================================
