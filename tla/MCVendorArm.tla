---------------------------- MODULE MCVendorArm ----------------------------
(***************************************************************************)
(* VendorArm for TLC: two buses, queues of three frames withheld at two    *)
(* and released at one, looked at and audited every other pass.  A packet  *)
(* of three frames outgrows the headroom of two.                           *)
(***************************************************************************)
EXTENDS VendorArm

FrameCountDef == <<6, 1>>
=============================================================================
