----------------------------- MODULE MCBootFlash -----------------------------
(***************************************************************************)
(* BootFlash for TLC: a one-sector and a two-sector image, three metadata  *)
(* slots, so that a gap can arise, and two faults.                         *)
(***************************************************************************)
EXTENDS BootFlash, TLC
CONSTANTS short, long
MCImages == {short, long}
MCSize == short :> 1 @@ long :> 2
=============================================================================
