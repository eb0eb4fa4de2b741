--------------------------- MODULE MCLinkRestart ---------------------------
(***************************************************************************)
(* LinkRestart for TLC: rings of a few tokens, a pool of two fields, two   *)
(* attempts per request, one or two data fields each way.                  *)
(***************************************************************************)
EXTENDS LinkRestart
=============================================================================
