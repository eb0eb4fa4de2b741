--------------------------- MODULE MCInputRefresh ---------------------------
(***************************************************************************)
(* InputRefresh for TLC.  The constants are in the configurations: with    *)
(* MaskDoorbell TRUE the image of core0/, with FALSE that of core1_ecat/,  *)
(* there with a sequence space and a stall limit too large to matter.      *)
(***************************************************************************)
EXTENDS InputRefresh
=============================================================================
