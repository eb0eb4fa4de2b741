----------------------------- MODULE MCPdStream -----------------------------
(***************************************************************************)
(* Instances of PdStream for TLC.  SeqMax = Window + 1 is the smallest     *)
(* sequence space the assumption allows, so the numbers wrap all the time. *)
(* The slave's ring holds one byte, so the host often finds it full.       *)
(***************************************************************************)
EXTENDS PdStream

RingSizeDef == [host |-> 8, slave |-> 1]
FourDown    == [host |-> 4, slave |-> 1]
=============================================================================
