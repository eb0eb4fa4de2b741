----------------------------- MODULE MCSpscRing -----------------------------
(***************************************************************************)
(* SpscRing for TLC: a ring of four slots whose indices wrap at eight, the *)
(* tightest width the code's choice of IndexType allows, over enough       *)
(* elements for both indices to wrap.                                      *)
(***************************************************************************)
EXTENDS SpscRing
=============================================================================
